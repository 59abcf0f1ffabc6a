------------------------------- MODULE Dispatch -------------------------------
(***************************************************************************)
(* How one scheduler hands its queues to DPA threads: a status word per    *)
(* thread (EU_OFF, EU_FREE, EU_HANG), a tenant pointer, MSI-X wake-ups and *)
(* the CQ arms that let either side sleep.                                 *)
(*                                                                         *)
(* Thread: flexio_pp_dev_1 for the threads in Tnt1, flexio_pp_dev_2 for    *)
(* the others.  Scheduler: flexio_scheduler_handle.  Every access to       *)
(* memory the other side writes is an action of its own, so a load and     *)
(* the store that depends on it interleave with everything.                *)
(*                                                                         *)
(* Queue j of the scheduler goes to thread j (thd_id = i * num_queues + j  *)
(* is injective, so schedulers share no thread: one is modelled).  What    *)
(* pp_queue does to a packet is module Forwarding's; here a packet is a    *)
(* step of the queue's consumer index and one unit of busy_cycle.          *)
(***************************************************************************)
EXTENDS Integers

CONSTANTS
    N,                 \* queues of the scheduler, and threads
    Tnt1,              \* the threads that run flexio_pp_dev_1
    Tenants,           \* tenant_num_per_scheduler
    SchedulerStarted,  \* does the host start the scheduler at all?
    ThreadsFirst,      \* does it start every thread before the scheduler?
    Quota,             \* packets per activation of flexio_pp_dev_2 (1000000)
    Depth,             \* entries of a queue
    MaxPackets,        \* bound on the packets a queue receives
    MaxOwnPackets,     \* bound on the packets a thread's own RQ receives
    MaxReschedules     \* bound on how often the scheduler leaves its loop

Threads == 0 .. N - 1
Null == -1                                   \* a tenant pointer never set

ASSUME NAssumption == N \in Nat \ {0} /\ Tnt1 \subseteq Threads
ASSUME FlagAssumption == SchedulerStarted \in BOOLEAN /\ ThreadsFirst \in BOOLEAN
ASSUME BoundAssumption ==
    /\ Tenants \in Nat /\ Quota \in Nat \ {0} /\ Depth \in Nat \ {0}
    /\ MaxPackets \in Nat /\ MaxReschedules \in Nat
    /\ MaxOwnPackets \in 0 .. Depth          \* pp_queue never refills that RQ

VARIABLES
    status, tenant, busy_cycle,              \* offload_info[t]
    tpc, this_tenant, tnt_not_first_run, pkt_count,        \* thread t
    event, ownArmed, ownPi, ownCi,           \* its activation and own RQ CQ
    ready, runnable,                         \* cq_number set; handler run
    spc, j, sch_not_first_run, tenant_cycle_used, cq_idx,       \* scheduler
    reschedules,
    qPi, qCi, qArmed, schEvent,              \* its queues' CQs and activation
    spent, reported,                         \* history: cycles used, collected
    look                                     \* history: the scheduler's last look

offloadVars == <<status, tenant, busy_cycle>>
threadVars  == <<tpc, this_tenant, tnt_not_first_run, pkt_count>>
ownVars     == <<event, ownArmed, ownPi, ownCi, ready, runnable>>
schVars     == <<spc, j, sch_not_first_run, tenant_cycle_used, cq_idx, reschedules>>
queueVars   == <<qPi, qCi, qArmed, schEvent>>
histVars    == <<spent, reported, look>>
vars == <<offloadVars, threadVars, ownVars, schVars, queueVars, histVars>>

EU_OFF  == "EU_OFF"
EU_FREE == "EU_FREE"
EU_HANG == "EU_HANG"

(* Where a thread and the scheduler may be.                                *)
ThreadLabels == {"asleep", "load", "free", "stepOwn", "spin", "tenant", "poll",
                 "account", "step", "arm", "off"}
SchedulerLabels == {"asleep", "init", "wake", "wakeReady", "wakeMsix", "assign", "hang",
                    "loop", "scan", "scanReady", "scanMsix", "scanFree", "scanHang",
                    "reset", "collect", "loadIdx", "arm"}

(* What the scheduler's last look at a status is worth: it still describes *)
(* the thread; the thread had no cq_number when looked at, or was never    *)
(* looked at; or the thread has gone off since.                            *)
Looks == {"current", "unready", "gone"}

(* Type correctness of both sides.                                         *)
TypeInv ==
    /\ status \in [Threads -> {EU_OFF, EU_FREE, EU_HANG}]
    /\ tenant \in [Threads -> Threads \cup {Null}]
    /\ busy_cycle \in [Threads -> Nat]
    /\ tpc \in [Threads -> ThreadLabels]
    /\ this_tenant \in [Threads -> Threads \cup {Null}]
    /\ tnt_not_first_run \in [Threads -> BOOLEAN]
    /\ pkt_count \in [Threads -> 0 .. Quota]
    /\ event \in [Threads -> BOOLEAN] /\ ownArmed \in [Threads -> BOOLEAN]
    /\ ownPi \in [Threads -> Nat] /\ ownCi \in [Threads -> Nat]
    /\ ready \in [Threads -> BOOLEAN] /\ runnable \in [Threads -> BOOLEAN]
    /\ spc \in SchedulerLabels
    /\ j \in Threads
    /\ sch_not_first_run \in BOOLEAN
    /\ tenant_cycle_used \in [0 .. Tenants - 1 -> Nat]
    /\ cq_idx \in Nat
    /\ reschedules \in Nat
    /\ qPi \in [Threads -> Nat] /\ qCi \in [Threads -> Nat]
    /\ qArmed \in [Threads -> BOOLEAN] /\ schEvent \in BOOLEAN
    /\ spent \in [Threads -> Nat] /\ reported \in [Threads -> Nat]
    /\ look \in [Threads -> Looks]

(* Device globals are zero (EU_OFF is 0), and the host creates every CQ    *)
(* armed and every handler with not_first_run 0.                           *)
Init ==
    /\ status = [t \in Threads |-> EU_OFF]
    /\ tenant = [t \in Threads |-> Null]
    /\ busy_cycle = [t \in Threads |-> 0]
    /\ tpc = [t \in Threads |-> "asleep"]
    /\ this_tenant = [t \in Threads |-> Null]
    /\ tnt_not_first_run = [t \in Threads |-> FALSE]
    /\ pkt_count = [t \in Threads |-> 0]
    /\ event = [t \in Threads |-> FALSE]
    /\ ownArmed = [t \in Threads |-> TRUE]
    /\ ownPi = [t \in Threads |-> 0] /\ ownCi = [t \in Threads |-> 0]
    /\ ready = [t \in Threads |-> FALSE] /\ runnable = [t \in Threads |-> FALSE]
    /\ spc = "asleep" /\ j = 0
    /\ sch_not_first_run = FALSE
    /\ tenant_cycle_used = [n \in 0 .. Tenants - 1 |-> 0]
    /\ cq_idx = 0
    /\ reschedules = 0
    /\ qPi = [q \in Threads |-> 0] /\ qCi = [q \in Threads |-> 0]
    /\ qArmed = [q \in Threads |-> TRUE] /\ schEvent = FALSE
    /\ spent = [t \in Threads |-> 0] /\ reported = [t \in Threads |-> 0]
    /\ look = [t \in Threads |-> "unready"]

-----------------------------------------------------------------------------
(* Host and NIC.                                                           *)

(* The RPC thd_ctx_init, which makes cq_number non-zero.                   *)
ThdCtxInit(t) ==
    /\ ~ready[t]
    /\ ready' = [ready EXCEPT ![t] = TRUE]
    /\ UNCHANGED <<offloadVars, threadVars, event, ownArmed, ownPi, ownCi, runnable,
                   schVars, queueVars, histVars>>

(* flexio_event_handler_run: from here on an event activates the handler.  *)
EventHandlerRun(t) ==
    /\ ready[t] /\ ~runnable[t]
    /\ runnable' = [runnable EXCEPT ![t] = TRUE]
    /\ UNCHANGED <<offloadVars, threadVars, event, ownArmed, ownPi, ownCi, ready,
                   schVars, queueVars, histVars>>

HostStartsThread(t) == ThdCtxInit(t) \/ EventHandlerRun(t)

(* A packet for the scheduler's queue q; an armed CQ then activates it.    *)
NicReceive(q) ==
    /\ SchedulerStarted
    /\ qPi[q] < MaxPackets
    /\ qPi[q] - qCi[q] < Depth
    /\ qPi' = [qPi EXCEPT ![q] = @ + 1]
    /\ schEvent' = (schEvent \/ qArmed[q])
    /\ qArmed' = [qArmed EXCEPT ![q] = FALSE]
    /\ UNCHANGED <<offloadVars, threadVars, ownVars, schVars, qCi, histVars>>

(* A packet for the own RQ of thread t, whose rule is older than its       *)
(* context; an armed CQ activates the thread.                              *)
NicReceiveOwn(t) ==
    /\ ownPi[t] < MaxOwnPackets
    /\ ownPi' = [ownPi EXCEPT ![t] = @ + 1]
    /\ event' = [event EXCEPT ![t] = @ \/ ownArmed[t]]
    /\ ownArmed' = [ownArmed EXCEPT ![t] = FALSE]
    /\ UNCHANGED <<offloadVars, threadVars, ownCi, ready, runnable, schVars,
                   queueVars, histVars>>

-----------------------------------------------------------------------------
(* Threads.  An event that finds its thread running, or not yet run by the *)
(* host, stays latched.                                                    *)
Goto(t, label) == tpc' = [tpc EXCEPT ![t] = label]

Activate(t) ==
    /\ tpc[t] = "asleep" /\ event[t] /\ runnable[t]
    /\ event' = [event EXCEPT ![t] = FALSE]
    /\ pkt_count' = [pkt_count EXCEPT ![t] = 0]
    /\ Goto(t, "load")
    /\ UNCHANGED <<offloadVars, this_tenant, tnt_not_first_run, ownArmed, ownPi,
                   ownCi, ready, runnable, schVars, queueVars, histVars>>

(* if (load(status) == EU_OFF) [...]                                       *)
LoadStatus(t) ==
    /\ tpc[t] = "load"
    /\ Goto(t, IF status[t] = EU_OFF THEN "free" ELSE "stepOwn")
    /\ UNCHANGED <<offloadVars, this_tenant, tnt_not_first_run, pkt_count, ownVars,
                   schVars, queueVars, histVars>>

(* [...] store(status, EU_FREE): whatever was stored in between is lost    *)
StoreFree(t) ==
    /\ tpc[t] = "free"
    /\ status' = [status EXCEPT ![t] = EU_FREE]
    /\ Goto(t, "stepOwn")
    /\ UNCHANGED <<tenant, busy_cycle, this_tenant, tnt_not_first_run, pkt_count,
                   ownVars, schVars, queueVars, histVars>>

(* com_step_cq(&this_thd_ctx->rq_cq_ctx), a CQE or not                     *)
StepOwnCq(t) ==
    /\ tpc[t] = "stepOwn"
    /\ ownCi' = [ownCi EXCEPT ![t] = @ + 1]
    /\ Goto(t, IF t \in Tnt1 \/ ~tnt_not_first_run[t] THEN "spin" ELSE "tenant")
    /\ UNCHANGED <<offloadVars, this_tenant, tnt_not_first_run, pkt_count, event,
                   ownArmed, ownPi, ready, runnable, schVars, queueVars, histVars>>

(* A bug SpinOnStatus must not have: any status but EU_OFF releases it.     *)
SpinUntilNotOff(t) ==
    /\ tpc[t] = "spin"
    /\ status[t] # EU_OFF
    /\ tnt_not_first_run' = [tnt_not_first_run EXCEPT ![t] = t \notin Tnt1]
    /\ Goto(t, "tenant")
    /\ UNCHANGED <<offloadVars, this_tenant, pkt_count, ownVars, schVars, queueVars,
                   histVars>>

(* spin_on_status(i, EU_HANG); flexio_pp_dev_2 does it only once           *)
SpinOnStatus(t) ==
    /\ tpc[t] = "spin"
    /\ status[t] = EU_HANG
    /\ tnt_not_first_run' = [tnt_not_first_run EXCEPT ![t] = t \notin Tnt1]
    /\ Goto(t, "tenant")
    /\ UNCHANGED <<offloadVars, this_tenant, pkt_count, ownVars, schVars, queueVars,
                   histVars>>

LoadTenant(t) ==
    /\ tpc[t] = "tenant"
    /\ this_tenant' = [this_tenant EXCEPT ![t] = tenant[t]]
    /\ Goto(t, "poll")
    /\ UNCHANGED <<offloadVars, tnt_not_first_run, pkt_count, ownVars, schVars,
                   queueVars, histVars>>

(* A bug PpQueue must not have: it does not wait for the CQE.               *)
PpQueueUnpolled(t) ==
    /\ tpc[t] = "poll"
    /\ Goto(t, IF t \in Tnt1 THEN "account" ELSE "step")
    /\ UNCHANGED <<offloadVars, this_tenant, tnt_not_first_run, pkt_count, ownVars,
                   schVars, queueVars, histVars>>

(* The poll finds a CQE and pp_queue forwards its packet.                  *)
PpQueue(t) ==
    /\ tpc[t] = "poll"
    /\ qCi[this_tenant[t]] < qPi[this_tenant[t]]
    /\ Goto(t, IF t \in Tnt1 THEN "account" ELSE "step")
    /\ UNCHANGED <<offloadVars, this_tenant, tnt_not_first_run, pkt_count, ownVars,
                   schVars, queueVars, histVars>>

AddCycles(t) ==
    /\ busy_cycle' = [busy_cycle EXCEPT ![t] = @ + 1]
    /\ spent' = [spent EXCEPT ![t] = @ + 1]

StepTenantCq(t) == qCi' = [qCi EXCEPT ![this_tenant[t]] = @ + 1]

(* flexio_pp_dev_1: busy_cycle, then com_step_cq, then the time limit.     *)
Account1(t) ==
    /\ tpc[t] = "account" /\ t \in Tnt1
    /\ AddCycles(t)
    /\ Goto(t, "step")
    /\ UNCHANGED <<status, tenant, this_tenant, tnt_not_first_run, pkt_count, ownVars,
                   schVars, queueVars, reported, look>>

Step1(t) ==
    /\ tpc[t] = "step" /\ t \in Tnt1
    /\ StepTenantCq(t)
    /\ \E label \in {"poll", "arm"} : Goto(t, label)
    /\ UNCHANGED <<offloadVars, this_tenant, tnt_not_first_run, pkt_count, ownVars,
                   schVars, qPi, qArmed, schEvent, histVars>>

(* flexio_pp_dev_2: com_step_cq, then busy_cycle, then the packet limit.   *)
Step2(t) ==
    /\ tpc[t] = "step" /\ t \notin Tnt1
    /\ StepTenantCq(t)
    /\ Goto(t, "account")
    /\ UNCHANGED <<offloadVars, this_tenant, tnt_not_first_run, pkt_count, ownVars,
                   schVars, qPi, qArmed, schEvent, histVars>>

Account2(t) ==
    /\ tpc[t] = "account" /\ t \notin Tnt1
    /\ AddCycles(t)
    /\ pkt_count' = [pkt_count EXCEPT ![t] = IF @ + 1 >= Quota THEN 0 ELSE @ + 1]
    /\ Goto(t, IF pkt_count[t] + 1 >= Quota THEN "arm" ELSE "poll")
    /\ UNCHANGED <<status, tenant, this_tenant, tnt_not_first_run, ownVars, schVars,
                   queueVars, reported, look>>

(* flexio_dev_cq_arm on the own CQ: fires at once if a CQE is waiting.     *)
ArmOwnCq(t) ==
    /\ tpc[t] = "arm"
    /\ event' = [event EXCEPT ![t] = @ \/ ownPi[t] > ownCi[t]]
    /\ ownArmed' = [ownArmed EXCEPT ![t] = ownPi[t] <= ownCi[t]]
    /\ Goto(t, "off")
    /\ UNCHANGED <<offloadVars, this_tenant, tnt_not_first_run, pkt_count, ownPi,
                   ownCi, ready, runnable, schVars, queueVars, histVars>>

(* A bug StoreOff must not have: the thread that leaves says it is free.    *)
StoreFreeOnExit(t) ==
    /\ tpc[t] = "off"
    /\ status' = [status EXCEPT ![t] = EU_FREE]
    /\ look' = [look EXCEPT ![t] = "gone"]
    /\ Goto(t, "asleep")
    /\ UNCHANGED <<tenant, busy_cycle, this_tenant, tnt_not_first_run, pkt_count,
                   ownVars, schVars, queueVars, spent, reported>>

(* status = EU_OFF, then flexio_dev_thread_reschedule                      *)
StoreOff(t) ==
    /\ tpc[t] = "off"
    /\ status' = [status EXCEPT ![t] = EU_OFF]
    /\ look' = [look EXCEPT ![t] = "gone"]
    /\ Goto(t, "asleep")
    /\ UNCHANGED <<tenant, busy_cycle, this_tenant, tnt_not_first_run, pkt_count,
                   ownVars, schVars, queueVars, spent, reported>>

Thread(t) ==
    \/ Activate(t) \/ LoadStatus(t) \/ StoreFree(t) \/ StepOwnCq(t)
    \/ SpinOnStatus(t) \/ LoadTenant(t) \/ PpQueue(t)
    \/ Account1(t) \/ Step1(t) \/ Step2(t) \/ Account2(t)
    \/ ArmOwnCq(t) \/ StoreOff(t)

-----------------------------------------------------------------------------
(* A bug the loops must not have: j <= num_queues for j < num_queues.       *)
NextQueueOneMore(here, after) ==
    /\ spc' = IF j = N THEN after ELSE here
    /\ j' = IF j = N THEN 0 ELSE j + 1

(* Scheduler.  Its loops over the queues share the variable j.             *)
NextQueue(here, after) ==
    /\ spc' = IF j = N - 1 THEN after ELSE here
    /\ j' = IF j = N - 1 THEN 0 ELSE j + 1

SendMsix(t) == event' = [event EXCEPT ![t] = TRUE]
StoreHang(t) == status' = [status EXCEPT ![t] = EU_HANG]
LookAt(what) == look' = [look EXCEPT ![j] = what] /\ UNCHANGED <<spent, reported>>

(* A bug SchActivate must not have: not_first_run is ignored.               *)
SchActivateAlwaysInit ==
    /\ spc = "asleep" /\ schEvent /\ SchedulerStarted
    /\ ThreadsFirst => \A t \in Threads : runnable[t]
    /\ schEvent' = FALSE
    /\ spc' = "init"
    /\ UNCHANGED <<offloadVars, threadVars, ownVars, j, sch_not_first_run,
                   tenant_cycle_used, cq_idx, reschedules, qPi, qCi, qArmed, histVars>>

SchActivate ==
    /\ spc = "asleep" /\ schEvent /\ SchedulerStarted
    /\ ThreadsFirst => \A t \in Threads : runnable[t]
    /\ schEvent' = FALSE
    /\ spc' = IF sch_not_first_run THEN "wake" ELSE "init"
    /\ UNCHANGED <<offloadVars, threadVars, ownVars, j, sch_not_first_run,
                   tenant_cycle_used, cq_idx, reschedules, qPi, qCi, qArmed, histVars>>

(* sch_ctx_init: the queues' contexts and all counters start over.         *)
SchCtxInit ==
    /\ spc = "init"
    /\ qCi' = [q \in Threads |-> 0]
    /\ tenant_cycle_used' = [n \in 0 .. Tenants - 1 |-> 0]
    /\ busy_cycle' = [t \in Threads |-> 0]
    /\ sch_not_first_run' = TRUE
    /\ spc' = "wake"
    /\ UNCHANGED <<status, tenant, threadVars, ownVars, j, cq_idx, reschedules, qPi,
                   qArmed, schEvent, histVars>>

(* First loop: wake the threads that are off and have a cq_number.         *)
WakeLoad ==
    /\ spc = "wake"
    /\ IF status[j] = EU_OFF THEN spc' = "wakeReady" /\ j' = j
                             ELSE NextQueue("wake", "assign")
    /\ LookAt("current")
    /\ UNCHANGED <<offloadVars, threadVars, ownVars, sch_not_first_run,
                   tenant_cycle_used, cq_idx, reschedules, queueVars>>

WakeReady ==
    /\ spc = "wakeReady"
    /\ IF ready[j] THEN spc' = "wakeMsix" /\ j' = j /\ UNCHANGED histVars
                   ELSE NextQueue("wake", "assign") /\ LookAt("unready")
    /\ UNCHANGED <<offloadVars, threadVars, ownVars, sch_not_first_run,
                   tenant_cycle_used, cq_idx, reschedules, queueVars>>

WakeMsix ==
    /\ spc = "wakeMsix"
    /\ SendMsix(j)
    /\ NextQueue("wake", "assign")
    /\ UNCHANGED <<offloadVars, threadVars, ownArmed, ownPi, ownCi, ready, runnable,
                   sch_not_first_run, tenant_cycle_used, cq_idx, reschedules,
                   queueVars, histVars>>

(* Second loop: a queue for every thread, then EU_HANG, whatever the       *)
(* status has become since the first loop.                                 *)
AssignTenant ==
    /\ spc = "assign"
    /\ tenant' = [tenant EXCEPT ![j] = j]
    /\ spc' = "hang"
    /\ UNCHANGED <<status, busy_cycle, threadVars, ownVars, j, sch_not_first_run,
                   tenant_cycle_used, cq_idx, reschedules, queueVars, histVars>>

HangAssigned ==
    /\ spc = "hang"
    /\ StoreHang(j)
    /\ NextQueue("assign", "loop")
    /\ UNCHANGED <<tenant, busy_cycle, threadVars, ownVars, sch_not_first_run,
                   tenant_cycle_used, cq_idx, reschedules, queueVars, histVars>>

(* while (now_cycle < reschedule_cycle)                                    *)
CheckTime ==
    /\ spc = "loop"
    /\ \/ spc' = "scan"
       \/ reschedules < MaxReschedules /\ spc' = "loadIdx"
    /\ UNCHANGED <<offloadVars, threadVars, ownVars, j, sch_not_first_run,
                   tenant_cycle_used, cq_idx, reschedules, queueVars, histVars>>

(* Third loop: OFF is woken and set to EU_HANG [...]                       *)
ScanLoadOff ==
    /\ spc = "scan"
    /\ spc' = IF status[j] = EU_OFF THEN "scanReady" ELSE "scanFree"
    /\ LookAt("current")
    /\ UNCHANGED <<offloadVars, threadVars, ownVars, j, sch_not_first_run,
                   tenant_cycle_used, cq_idx, reschedules, queueVars>>

(* [...] even a thread without a cq_number, which is not woken.            *)
ScanReady ==
    /\ spc = "scanReady"
    /\ IF ready[j] THEN spc' = "scanMsix" /\ UNCHANGED histVars
                   ELSE spc' = "scanHang" /\ LookAt("unready")
    /\ UNCHANGED <<offloadVars, threadVars, ownVars, j, sch_not_first_run,
                   tenant_cycle_used, cq_idx, reschedules, queueVars>>

(* A bug ScanMsix must not have: EU_HANG without the wake-up.               *)
ScanNoMsix ==
    /\ spc = "scanMsix"
    /\ spc' = "scanHang"
    /\ UNCHANGED <<offloadVars, threadVars, ownVars, j, sch_not_first_run,
                   tenant_cycle_used, cq_idx, reschedules, queueVars, histVars>>

ScanMsix ==
    /\ spc = "scanMsix"
    /\ SendMsix(j)
    /\ spc' = "scanHang"
    /\ UNCHANGED <<offloadVars, threadVars, ownArmed, ownPi, ownCi, ready, runnable, j,
                   sch_not_first_run, tenant_cycle_used, cq_idx, reschedules,
                   queueVars, histVars>>

(* What follows a scan: a report, when one is due, and the loop again.     *)
AfterScan == {"loop"} \cup (IF Tenants > 0 THEN {"reset"} ELSE {})

(* A bug ScanLoadFree must not have: a thread found free is left waiting.   *)
ScanIgnoreFree ==
    /\ spc = "scanFree"
    /\ \E after \in AfterScan : NextQueue("scan", after)
    /\ UNCHANGED <<offloadVars, threadVars, ownVars, sch_not_first_run,
                   tenant_cycle_used, cq_idx, reschedules, queueVars, histVars>>

(* [...] and FREE, found by a second load, is set to EU_HANG.              *)
ScanLoadFree ==
    /\ spc = "scanFree"
    /\ IF status[j] = EU_FREE
          THEN spc' = "scanHang" /\ j' = j /\ LookAt("current")
          ELSE (\E after \in AfterScan : NextQueue("scan", after)) /\ UNCHANGED histVars
    /\ UNCHANGED <<offloadVars, threadVars, ownVars, sch_not_first_run,
                   tenant_cycle_used, cq_idx, reschedules, queueVars>>

ScanHang ==
    /\ spc = "scanHang"
    /\ StoreHang(j)
    /\ \E after \in AfterScan : NextQueue("scan", after)
    /\ UNCHANGED <<tenant, busy_cycle, threadVars, ownVars, sch_not_first_run,
                   tenant_cycle_used, cq_idx, reschedules, queueVars, histVars>>

ReportReset ==
    /\ spc = "reset"
    /\ tenant_cycle_used' = [n \in 0 .. Tenants - 1 |-> 0]
    /\ spc' = "collect"
    /\ UNCHANGED <<offloadVars, threadVars, ownVars, j, sch_not_first_run, cq_idx,
                   reschedules, queueVars, histVars>>

(* A bug Collect must not have: a load in place of the exchange.            *)
CollectWithoutReset ==
    /\ spc = "collect"
    /\ tenant_cycle_used' = [tenant_cycle_used EXCEPT ![j % Tenants] = @ + busy_cycle[j]]
    /\ reported' = [reported EXCEPT ![j] = @ + busy_cycle[j]]
    /\ NextQueue("collect", "loop")
    /\ UNCHANGED <<offloadVars, threadVars, ownVars, sch_not_first_run, cq_idx,
                   reschedules, queueVars, spent, look>>

(* __atomic_exchange_n(&busy_cycle, 0), added to the tenant of the queue   *)
Collect ==
    /\ spc = "collect"
    /\ tenant_cycle_used' = [tenant_cycle_used EXCEPT ![j % Tenants] = @ + busy_cycle[j]]
    /\ reported' = [reported EXCEPT ![j] = @ + busy_cycle[j]]
    /\ busy_cycle' = [busy_cycle EXCEPT ![j] = 0]
    /\ NextQueue("collect", "loop")
    /\ UNCHANGED <<status, tenant, threadVars, ownVars, sch_not_first_run, cq_idx,
                   reschedules, queueVars, spent, look>>

(* flexio_dev_cq_arm on every queue: first the index that its thread has   *)
(* reached is loaded [...]                                                 *)
LoadCqIdx ==
    /\ spc = "loadIdx"
    /\ cq_idx' = qCi[j]
    /\ spc' = "arm"
    /\ UNCHANGED <<offloadVars, threadVars, ownVars, j, sch_not_first_run,
                   tenant_cycle_used, reschedules, queueVars, histVars>>

(* [...] then the CQ is armed with it, while the thread goes on; nobody    *)
(* reads the loaded value again.                                           *)
ArmQueue ==
    /\ spc = "arm"
    /\ schEvent' = (schEvent \/ qPi[j] > cq_idx)
    /\ qArmed' = [qArmed EXCEPT ![j] = qPi[j] <= cq_idx]
    /\ cq_idx' = 0
    /\ NextQueue("loadIdx", "asleep")
    /\ reschedules' = IF j = N - 1 THEN reschedules + 1 ELSE reschedules
    /\ UNCHANGED <<offloadVars, threadVars, ownVars, sch_not_first_run,
                   tenant_cycle_used, qPi, qCi, histVars>>

Scheduler ==
    \/ SchActivate \/ SchCtxInit \/ WakeLoad \/ WakeReady \/ WakeMsix
    \/ AssignTenant \/ HangAssigned \/ CheckTime \/ ScanLoadOff \/ ScanReady
    \/ ScanMsix \/ ScanLoadFree \/ ScanHang \/ ReportReset \/ Collect
    \/ LoadCqIdx \/ ArmQueue

Next ==
    \/ \E t \in Threads : HostStartsThread(t) \/ NicReceive(t) \/ NicReceiveOwn(t)
    \/ \E t \in Threads : Thread(t)
    \/ Scheduler

Spec == Init /\ [][Next]_vars

(* Threads and scheduler each own an execution unit (strict affinity), and *)
(* the host does finish starting the threads.                              *)
FairSpec ==
    /\ Spec
    /\ WF_vars(Scheduler)
    /\ \A t \in Threads : WF_vars(Thread(t)) /\ WF_vars(HostStartsThread(t))

-----------------------------------------------------------------------------
(* Why the properties below hold: the inductive invariant of the proofs.   *)
(* A tenant pointer is set once, by a scheduler that set its context up,   *)
(* and EU_HANG is only ever stored after it.                               *)
Assigned(t) == tenant[t] = t
AssignedInv ==
    \A t \in Threads :
        /\ tenant[t] \in {Null, t}
        /\ Assigned(t) => sch_not_first_run
        /\ status[t] = EU_HANG => Assigned(t)

(* How far the scheduler has come.  A thread that is not ready yet cannot   *)
(* undo the EU_HANG of the assignment loop, so no scan finds it EU_OFF.    *)
Marked(t) == ready[t] \/ status[t] = EU_HANG
SchedulerInv ==
    /\ spc \notin {"asleep", "init"} => sch_not_first_run
    /\ spc = "init" => ~sch_not_first_run
    /\ spc \in {"asleep", "init"} => j = 0
    /\ spc = "assign" => \A t \in Threads : t < j => Assigned(t) /\ Marked(t)
    /\ spc = "hang" =>
          \A t \in Threads : (t <= j => Assigned(t)) /\ (t < j => Marked(t))
    /\ spc \in {"loop", "scan", "scanReady", "scanMsix", "scanFree", "scanHang",
                "reset", "collect", "loadIdx", "arm"} =>
          \A t \in Threads : Assigned(t) /\ Marked(t)

(* A thread that was ever released by EU_HANG has its own queue.           *)
Working(t) == tpc[t] \in {"poll", "account", "step"}
Released(t) ==
    /\ tnt_not_first_run[t] => Assigned(t)
    /\ Working(t) \/ tpc[t] \in {"tenant", "arm", "off"} => Assigned(t)
    /\ Working(t) => this_tenant[t] = t
ReleasedInv == \A t \in Threads : Released(t)

(* Before the first activation of the scheduler nobody has worked.         *)
FirstRunInv ==
    ~sch_not_first_run => \A t \in Threads : qCi[t] = 0 /\ busy_cycle[t] = 0

(* flexio_pp_dev_1 works and leaves under EU_HANG; EU_FREE is stored after *)
(* the status was read, and replaced by EU_OFF before the thread sleeps.   *)
StatusRight(t) ==
    /\ t \in Tnt1 /\ (Working(t) \/ tpc[t] \in {"tenant", "arm", "off"})
          => status[t] = EU_HANG
    /\ tpc[t] \in {"asleep", "load", "free"} => status[t] # EU_FREE
StatusInv == \A t \in Threads : StatusRight(t)

(* Only a handler that the host has run is ever active.  A thread that was  *)
(* off when the scheduler looked, and has not been active since, waits for *)
(* an MSI-X that is sent or about to be.  One of flexio_pp_dev_1 that the  *)
(* scan found waiting cannot go off before EU_HANG is stored.              *)
AboutToWake(t) == spc \in {"wakeReady", "wakeMsix", "scanReady", "scanMsix"} /\ j = t
LookInv ==
    /\ \A t \in Threads :
          /\ runnable[t] => ready[t]
          /\ tpc[t] # "asleep" => runnable[t]
          /\ look[t] = "current" /\ status[t] = EU_OFF /\ tpc[t] = "asleep"
                => event[t] \/ AboutToWake(t)
    /\ spc \in {"scanReady", "scanMsix", "scanHang"} =>
          /\ ready[j] /\ look[j] # "unready"
          /\ j \in Tnt1 => status[j] # EU_HANG /\ look[j] = "current"

(* What is between a poll that found a packet and the accounts.            *)
Half(t, label) == IF tpc[t] = label THEN 1 ELSE 0
Serving(t) ==
    /\ Working(t) /\ tpc[t] # "poll" =>
          (IF t \in Tnt1 THEN qCi[t] ELSE spent[t]) < qPi[t]
    /\ IF t \in Tnt1 THEN spent[t] = qCi[t] + Half(t, "step")
                     ELSE qCi[t] = spent[t] + Half(t, "account")
ServiceInv == \A t \in Threads : Serving(t)

(* All of it together.                                                     *)
IInv == /\ TypeInv /\ AssignedInv /\ SchedulerInv /\ ReleasedInv
        /\ FirstRunInv /\ StatusInv /\ LookInv

(* A thread polls its own queue, and only once the scheduler has set its   *)
(* context up: never a NULL tenant, never a context still to be reset.     *)
NoNullTenant ==
    \A t \in Threads : Working(t) => this_tenant[t] = t /\ sch_not_first_run

(* A status never lies about a thread of flexio_pp_dev_1: it works only    *)
(* under EU_HANG; and no sleeping thread is EU_FREE, which would make the  *)
(* scheduler take it for a waiting one.                                    *)
StatusTruthful ==
    \A t \in Threads :
        /\ t \in Tnt1 /\ Working(t) => status[t] = EU_HANG
        /\ tpc[t] \in {"asleep", "load"} => status[t] # EU_FREE

(* No cycle is lost or counted twice, though threads add to busy_cycle     *)
(* while the scheduler collects it and sch_ctx_init clears it.             *)
CyclesAccounted ==
    \A t \in Threads : spent[t] = reported[t] + busy_cycle[t]

(* Whatever scheduler and threads overwrite of each other's words, every   *)
(* packet of a queue is served and charged once, never before it arrived   *)
(* or before the queue is set up, and a report leaves out no cycle.        *)
Service == INSTANCE QueueService WITH
    Queue <- Threads, Capacity <- Depth, open <- sch_not_first_run, arrived <- qPi,
    served <- qCi, charged <- spent, billed <- reported
ImplementsService == Service!Spec

(* The consumer index of a queue never goes back: sch_ctx_init never finds *)
(* a queue that has been worked on.                                        *)
ConsumerNeverReset == [][\A q \in Threads : qCi'[q] >= qCi[q]]_vars

(* A thread that waits for its scheduler while its queue has packets is    *)
(* released, even by a scheduler that was asleep.                          *)
SpinReleased ==
    \A t \in Threads :
        (tpc[t] = "spin" /\ qPi[t] > qCi[t]) ~> tpc[t] # "spin"

(* offload_info is "used for scheduler to dispatch packets to threads":    *)
(* every packet of every queue is eventually processed.                    *)
EveryPacketServed ==
    \A q \in Threads, n \in 1 .. MaxPackets : qPi[q] >= n ~> qCi[q] >= n

(* A thread is forgotten when it sleeps under EU_HANG without an event:    *)
(* the scan passes over it, and only packets of its own still wake it.     *)
(* The assignment loop does that to a thread that went off, or that the    *)
(* host started, after the wake-up loop had looked at it; the scan only to *)
(* a thread of flexio_pp_dev_2 that wakes, works and goes off between the  *)
(* load and the store of the scan.  No other order of the loads, stores,   *)
(* MSI-X and sleeps of the two sides loses a wake-up.                      *)
Forgotten(t) == tpc[t] = "asleep" /\ status[t] = EU_HANG /\ ~event[t]
ForgottenOnlyUnseen ==
    [][\A t \in Threads : ~Forgotten(t) /\ Forgotten(t)' =>
          \/ spc = "hang" /\ look[t] # "current"
          \/ spc = "scanHang" /\ t \notin Tnt1 /\ look[t] = "gone"]_vars

(* A handler that a packet activated reaches its forwarding loop.          *)
HandlerReachesLoop == \A t \in Threads : tpc[t] = "spin" ~> tpc[t] = "poll"

(* "a CQE on this CQ will trigger the connetced DPA thread [...] for each  *)
(* incoming packet": a thread never consumes a CQE it did not get.         *)
OwnCqFollowsCqes == \A t \in Threads : ownCi[t] <= ownPi[t]
=============================================================================
