---------------------------- MODULE DispatchProofs ----------------------------
(***************************************************************************)
(* What threads and scheduler promise each other, for every number of      *)
(* threads, either handler for each of them, and every bound.              *)
(***************************************************************************)
EXTENDS Dispatch, TLAPS

(* A function keeps its type when one value changes.                       *)
LEMMA ExceptType ==
    ASSUME NEW D, NEW S, NEW f \in [D -> S], NEW x, NEW v, x \in D => v \in S
    PROVE  [f EXCEPT ![x] = v] \in [D -> S]
  OBVIOUS

(* A counter per thread stays one when one of them goes up.                *)
LEMMA CountUp ==
    ASSUME NEW f \in [Threads -> Nat], NEW x
    PROVE  [f EXCEPT ![x] = @ + 1] \in [Threads -> Nat]
  <1>1. x \in Threads => f[x] + 1 \in Nat  OBVIOUS
  <1>2. QED  BY <1>1, ExceptType

(* It only grows.                                                          *)
LEMMA CountGrows ==
    ASSUME NEW f \in [Threads -> Nat], NEW x, NEW q \in Threads
    PROVE  [f EXCEPT ![x] = @ + 1][q] >= f[q]
  <1>1. f[q] \in Nat  OBVIOUS
  <1>2. [f EXCEPT ![x] = @ + 1][q] = IF q = x THEN f[q] + 1 ELSE f[q]  OBVIOUS
  <1>3. QED  BY <1>1, <1>2

(* A flag per thread stays one when one of them is set.                    *)
LEMMA FlagType ==
    ASSUME NEW f \in [Threads -> BOOLEAN], NEW x, NEW v \in BOOLEAN
    PROVE  [f EXCEPT ![x] = v] \in [Threads -> BOOLEAN]
  OBVIOUS

(* A step of a thread's program stays within it.                           *)
LEMMA GotoType ==
    ASSUME TypeInv, NEW t \in Threads, NEW label \in ThreadLabels, Goto(t, label)
    PROVE  tpc' \in [Threads -> ThreadLabels]
  BY ExceptType DEF TypeInv, Goto

(* A loop over the queues stays within them.                               *)
LEMMA QueueType ==
    ASSUME j \in Threads, NEW here, NEW after, NextQueue(here, after)
    PROVE  j' \in Threads /\ spc' \in {here, after}
  BY NAssumption DEF NextQueue, Threads

(* What the scheduler notes about a look at a status.                      *)
LEMMA LookType ==
    ASSUME TypeInv, NEW what \in Looks, LookAt(what)
    PROVE  look' \in [Threads -> Looks] /\ UNCHANGED <<spent, reported>>
  BY ExceptType DEF TypeInv, LookAt

(* The steps of a thread preserve the types.                               *)
LEMMA ThreadTypeInv ==
    ASSUME TypeInv, NEW t \in Threads, Thread(t)
    PROVE  TypeInv'
  <1>1. CASE Activate(t)
    <2>1. tpc' \in [Threads -> ThreadLabels]
      BY <1>1, GotoType DEF Activate, ThreadLabels
    <2>2. pkt_count' \in [Threads -> 0 .. Quota]
      BY <1>1, BoundAssumption, ExceptType DEF Activate, TypeInv
    <2>3. event' \in [Threads -> BOOLEAN]
      BY <1>1, FlagType DEF Activate, TypeInv
    <2>4. QED
      BY <1>1, <2>1, <2>2, <2>3 DEF Activate, offloadVars, schVars, queueVars,
           histVars, TypeInv, EU_OFF, EU_FREE, EU_HANG
  <1>2. CASE LoadStatus(t)
    <2>1. tpc' \in [Threads -> ThreadLabels]
      BY <1>2, GotoType DEF LoadStatus, ThreadLabels
    <2>2. QED
      BY <1>2, <2>1 DEF LoadStatus, offloadVars, ownVars, schVars, queueVars,
           histVars, TypeInv, EU_OFF, EU_FREE, EU_HANG
  <1>3. CASE StoreFree(t)
    <2>1. tpc' \in [Threads -> ThreadLabels]
      BY <1>3, GotoType DEF StoreFree, ThreadLabels
    <2>2. QED
      BY <1>3, <2>1 DEF StoreFree, ownVars, schVars, queueVars, histVars,
           TypeInv, EU_OFF, EU_FREE, EU_HANG
  <1>4. CASE StepOwnCq(t)
    <2>1. tpc' \in [Threads -> ThreadLabels]
      BY <1>4, GotoType DEF StepOwnCq, ThreadLabels
    <2>2. ownCi' \in [Threads -> Nat]
      BY <1>4, CountUp DEF StepOwnCq, TypeInv
    <2>3. QED
      BY <1>4, <2>1, <2>2 DEF StepOwnCq, offloadVars, schVars, queueVars,
           histVars, TypeInv, EU_OFF, EU_FREE, EU_HANG
  <1>5. CASE SpinOnStatus(t)
    <2>1. tpc' \in [Threads -> ThreadLabels]
      BY <1>5, GotoType DEF SpinOnStatus, ThreadLabels
    <2>2. QED
      BY <1>5, <2>1 DEF SpinOnStatus, offloadVars, ownVars, schVars,
           queueVars, histVars, TypeInv, EU_OFF, EU_FREE, EU_HANG
  <1>6. CASE LoadTenant(t)
    <2>1. tpc' \in [Threads -> ThreadLabels]
      BY <1>6, GotoType DEF LoadTenant, ThreadLabels
    <2>2. QED
      BY <1>6, <2>1 DEF LoadTenant, offloadVars, ownVars, schVars, queueVars,
           histVars, TypeInv, EU_OFF, EU_FREE, EU_HANG
  <1>7. CASE PpQueue(t)
    <2>1. tpc' \in [Threads -> ThreadLabels]
      BY <1>7, GotoType DEF PpQueue, ThreadLabels
    <2>2. QED
      BY <1>7, <2>1 DEF PpQueue, offloadVars, ownVars, schVars, queueVars,
           histVars, TypeInv, EU_OFF, EU_FREE, EU_HANG
  <1>8. CASE Account1(t)
    <2>1. tpc' \in [Threads -> ThreadLabels]
      BY <1>8, GotoType DEF Account1, ThreadLabels
    <2>2. busy_cycle' \in [Threads -> Nat] /\ spent' \in [Threads -> Nat]
      BY <1>8, CountUp DEF Account1, AddCycles, TypeInv
    <2>3. QED
      BY <1>8, <2>1, <2>2 DEF Account1, ownVars, schVars, queueVars, TypeInv,
           EU_OFF, EU_FREE, EU_HANG
  <1>9. CASE Step1(t)
    <2>1. tpc' \in [Threads -> ThreadLabels]
      BY <1>9, GotoType DEF Step1, ThreadLabels
    <2>2. qCi' \in [Threads -> Nat]
      BY <1>9, CountUp DEF Step1, StepTenantCq, TypeInv
    <2>3. QED
      BY <1>9, <2>1, <2>2 DEF Step1, offloadVars, ownVars, schVars, histVars,
           TypeInv, EU_OFF, EU_FREE, EU_HANG
  <1>10. CASE Step2(t)
    <2>1. tpc' \in [Threads -> ThreadLabels]
      BY <1>10, GotoType DEF Step2, ThreadLabels
    <2>2. qCi' \in [Threads -> Nat]
      BY <1>10, CountUp DEF Step2, StepTenantCq, TypeInv
    <2>3. QED
      BY <1>10, <2>1, <2>2 DEF Step2, offloadVars, ownVars, schVars, histVars,
           TypeInv, EU_OFF, EU_FREE, EU_HANG
  <1>11. CASE Account2(t)
    <2>1. tpc' \in [Threads -> ThreadLabels]
      BY <1>11, GotoType DEF Account2, ThreadLabels
    <2>2. busy_cycle' \in [Threads -> Nat] /\ spent' \in [Threads -> Nat]
      BY <1>11, CountUp DEF Account2, AddCycles, TypeInv
    <2>3. Quota \in Nat
      BY BoundAssumption
    <2>4. pkt_count[t] \in 0 .. Quota /\ pkt_count \in [Threads -> 0 .. Quota]
      BY DEF TypeInv
    <2>5. (IF pkt_count[t] + 1 >= Quota THEN 0 ELSE pkt_count[t] + 1) \in 0 .. Quota
      BY <2>3, <2>4
    <2>6. pkt_count' \in [Threads -> 0 .. Quota]
      BY <1>11, <2>4, <2>5, ExceptType DEF Account2
    <2>7. QED
      BY <1>11, <2>1, <2>2, <2>3, <2>4, <2>5, <2>6 DEF Account2, ownVars,
           schVars, queueVars, TypeInv, EU_OFF, EU_FREE, EU_HANG
  <1>12. CASE ArmOwnCq(t)
    <2>1. tpc' \in [Threads -> ThreadLabels]
      BY <1>12, GotoType DEF ArmOwnCq, ThreadLabels
    <2>2. event' \in [Threads -> BOOLEAN]
      BY <1>12, FlagType DEF ArmOwnCq, TypeInv
    <2>3. ownArmed' \in [Threads -> BOOLEAN]
      BY <1>12, FlagType DEF ArmOwnCq, TypeInv
    <2>4. QED
      BY <1>12, <2>1, <2>2, <2>3 DEF ArmOwnCq, offloadVars, schVars,
           queueVars, histVars, TypeInv, EU_OFF, EU_FREE, EU_HANG
  <1>13. CASE StoreOff(t)
    <2>1. tpc' \in [Threads -> ThreadLabels]
      BY <1>13, GotoType DEF StoreOff, ThreadLabels
    <2>2. look' \in [Threads -> Looks]
      BY <1>13, ExceptType DEF StoreOff, TypeInv, Looks
    <2>3. QED
      BY <1>13, <2>1, <2>2 DEF StoreOff, ownVars, schVars, queueVars,
           TypeInv, EU_OFF, EU_FREE, EU_HANG
  <1>14. QED
    BY <1>1, <1>2, <1>3, <1>4, <1>5, <1>6, <1>7, <1>8, <1>9, <1>10, <1>11,
         <1>12, <1>13 DEF Thread

(* So do the steps of the scheduler.                                       *)
LEMMA SchedulerTypeInv ==
    ASSUME TypeInv, Scheduler
    PROVE  TypeInv'
  <1>1. CASE SchActivate
    BY <1>1 DEF SchActivate, offloadVars, threadVars, ownVars, histVars,
         TypeInv, EU_OFF, EU_FREE, EU_HANG, SchedulerLabels
  <1>2. CASE SchCtxInit
    BY <1>2 DEF SchCtxInit, threadVars, ownVars, histVars, TypeInv, EU_OFF,
         EU_FREE, EU_HANG, SchedulerLabels
  <1>3. CASE WakeLoad
    <2>1. j' \in Threads /\ spc' \in SchedulerLabels
      BY <1>3, QueueType DEF WakeLoad, TypeInv, SchedulerLabels
    <2>2. look' \in [Threads -> Looks] /\ UNCHANGED <<spent, reported>>
      BY <1>3, LookType DEF WakeLoad, Looks
    <2>3. QED
      BY <1>3, <2>1, <2>2 DEF WakeLoad, offloadVars, threadVars, ownVars,
           queueVars, TypeInv, EU_OFF, EU_FREE, EU_HANG
  <1>4. CASE WakeReady
    <2>1. j' \in Threads /\ spc' \in SchedulerLabels
      BY <1>4, QueueType DEF WakeReady, TypeInv, SchedulerLabels
    <2>2. look' \in [Threads -> Looks] /\ UNCHANGED <<spent, reported>>
      BY <1>4, LookType DEF WakeReady, Looks, histVars, TypeInv
    <2>3. QED
      BY <1>4, <2>1, <2>2 DEF WakeReady, offloadVars, threadVars, ownVars,
           queueVars, TypeInv, EU_OFF, EU_FREE, EU_HANG
  <1>5. CASE WakeMsix
    <2>1. j' \in Threads /\ spc' \in SchedulerLabels
      BY <1>5, QueueType DEF WakeMsix, TypeInv, SchedulerLabels
    <2>2. QED
      BY <1>5, <2>1 DEF WakeMsix, SendMsix, offloadVars, threadVars,
           queueVars, histVars, TypeInv, EU_OFF, EU_FREE, EU_HANG
  <1>6. CASE AssignTenant
    BY <1>6 DEF AssignTenant, threadVars, ownVars, queueVars, histVars,
         TypeInv, EU_OFF, EU_FREE, EU_HANG, SchedulerLabels
  <1>7. CASE HangAssigned
    <2>1. j' \in Threads /\ spc' \in SchedulerLabels
      BY <1>7, QueueType DEF HangAssigned, TypeInv, SchedulerLabels
    <2>2. QED
      BY <1>7, <2>1 DEF HangAssigned, StoreHang, threadVars, ownVars,
           queueVars, histVars, TypeInv, EU_OFF, EU_FREE, EU_HANG
  <1>8. CASE CheckTime
    BY <1>8 DEF CheckTime, offloadVars, threadVars, ownVars, queueVars,
         histVars, TypeInv, EU_OFF, EU_FREE, EU_HANG, SchedulerLabels
  <1>9. CASE ScanLoadOff
    <2>1. look' \in [Threads -> Looks] /\ UNCHANGED <<spent, reported>>
      BY <1>9, LookType DEF ScanLoadOff, Looks
    <2>2. QED
      BY <1>9, <2>1 DEF ScanLoadOff, offloadVars, threadVars, ownVars,
           queueVars, TypeInv, EU_OFF, EU_FREE, EU_HANG, SchedulerLabels
  <1>10. CASE ScanReady
    <2>1. look' \in [Threads -> Looks] /\ UNCHANGED <<spent, reported>>
      BY <1>10, LookType DEF ScanReady, Looks, histVars, TypeInv
    <2>2. QED
      BY <1>10, <2>1 DEF ScanReady, offloadVars, threadVars, ownVars,
           queueVars, TypeInv, EU_OFF, EU_FREE, EU_HANG, SchedulerLabels
  <1>11. CASE ScanMsix
    BY <1>11 DEF ScanMsix, SendMsix, offloadVars, threadVars, queueVars,
         histVars, TypeInv, EU_OFF, EU_FREE, EU_HANG, SchedulerLabels
  <1>12. CASE ScanLoadFree
    <2>1. j' \in Threads /\ spc' \in SchedulerLabels
      BY <1>12, QueueType DEF ScanLoadFree, AfterScan, TypeInv,
           SchedulerLabels
    <2>2. look' \in [Threads -> Looks] /\ UNCHANGED <<spent, reported>>
      BY <1>12, LookType DEF ScanLoadFree, Looks, histVars, TypeInv
    <2>3. QED
      BY <1>12, <2>1, <2>2 DEF ScanLoadFree, offloadVars, threadVars, ownVars,
           queueVars, TypeInv, EU_OFF, EU_FREE, EU_HANG
  <1>13. CASE ScanHang
    <2>1. j' \in Threads /\ spc' \in SchedulerLabels
      BY <1>13, QueueType DEF ScanHang, AfterScan, TypeInv, SchedulerLabels
    <2>2. QED
      BY <1>13, <2>1 DEF ScanHang, StoreHang, AfterScan, threadVars, ownVars,
           queueVars, histVars, TypeInv, EU_OFF, EU_FREE, EU_HANG
  <1>14. CASE ReportReset
    BY <1>14 DEF ReportReset, offloadVars, threadVars, ownVars, queueVars,
         histVars, TypeInv, EU_OFF, EU_FREE, EU_HANG, SchedulerLabels
  <1>15. CASE Collect
    <2>1. j' \in Threads /\ spc' \in SchedulerLabels
      BY <1>15, QueueType DEF Collect, TypeInv, SchedulerLabels
    <2>2. j % Tenants \in 0 .. Tenants - 1 => tenant_cycle_used[j % Tenants] + busy_cycle[j] \in Nat
      BY <1>15 DEF TypeInv
    <2>3. tenant_cycle_used \in [0 .. Tenants - 1 -> Nat]
      BY DEF TypeInv
    <2>4. tenant_cycle_used' \in [0 .. Tenants - 1 -> Nat]
      <3> DEFINE D == 0 .. Tenants - 1
                 n == j % Tenants
                 used == tenant_cycle_used[n] + busy_cycle[j]
      <3>1. tenant_cycle_used' = [tenant_cycle_used EXCEPT ![n] = used]
        BY <1>15 DEF Collect
      <3>2. tenant_cycle_used \in [D -> Nat] /\ (n \in D => used \in Nat)
        BY <2>2, <2>3
      <3> HIDE DEF D, n, used
      <3>3. [tenant_cycle_used EXCEPT ![n] = used] \in [D -> Nat]
        BY <3>2, ExceptType
      <3>4. QED
        BY <3>1, <3>3 DEF D
    <2>5. reported' \in [Threads -> Nat]
      BY <1>15 DEF Collect, TypeInv
    <2>6. busy_cycle' \in [Threads -> Nat]
      BY <1>15, ExceptType DEF Collect, TypeInv
    <2>7. QED
      BY <1>15, <2>1, <2>2, <2>3, <2>4, <2>5, <2>6 DEF Collect, threadVars,
           ownVars, queueVars, TypeInv, EU_OFF, EU_FREE, EU_HANG
  <1>16. CASE LoadCqIdx
    BY <1>16 DEF LoadCqIdx, offloadVars, threadVars, ownVars, queueVars,
         histVars, TypeInv, EU_OFF, EU_FREE, EU_HANG, SchedulerLabels
  <1>17. CASE ArmQueue
    <2>1. j' \in Threads /\ spc' \in SchedulerLabels
      BY <1>17, QueueType DEF ArmQueue, TypeInv, SchedulerLabels
    <2>2. qArmed' \in [Threads -> BOOLEAN]
      BY <1>17, FlagType DEF ArmQueue, TypeInv
    <2>3. schEvent' \in BOOLEAN
      BY <1>17 DEF ArmQueue, TypeInv
    <2>4. reschedules' \in Nat
      BY <1>17 DEF ArmQueue, TypeInv
    <2>5. /\ cq_idx' = 0
          /\ UNCHANGED <<offloadVars, threadVars, ownVars, histVars,
                         sch_not_first_run, tenant_cycle_used, qPi, qCi>>
      BY <1>17 DEF ArmQueue
    <2>6. QED
      BY <2>1, <2>2, <2>3, <2>4, <2>5 DEF offloadVars, threadVars, ownVars,
           histVars, TypeInv
  <1>18. QED
    BY <1>1, <1>2, <1>3, <1>4, <1>5, <1>6, <1>7, <1>8, <1>9, <1>10, <1>11,
         <1>12, <1>13, <1>14, <1>15, <1>16, <1>17 DEF Scheduler

(* And those of the host and the NIC.                                      *)
LEMMA OutsideTypeInv ==
    ASSUME TypeInv, NEW t \in Threads,
           HostStartsThread(t) \/ NicReceive(t) \/ NicReceiveOwn(t)
    PROVE  TypeInv'
  <1>1. CASE HostStartsThread(t)
    <2>1. ready' \in [Threads -> BOOLEAN] /\ runnable' \in [Threads -> BOOLEAN]
      BY <1>1, FlagType DEF HostStartsThread, ThdCtxInit, EventHandlerRun, TypeInv
    <2>2. UNCHANGED <<offloadVars, threadVars, event, ownArmed, ownPi, ownCi,
                      schVars, queueVars, histVars>>
      BY <1>1 DEF HostStartsThread, ThdCtxInit, EventHandlerRun
    <2>3. QED
      BY <2>1, <2>2 DEF offloadVars, threadVars, schVars, queueVars, histVars, TypeInv
  <1>2. CASE NicReceive(t)
    <2>1. qPi' \in [Threads -> Nat]
      BY <1>2, CountUp DEF NicReceive, TypeInv
    <2>2. qArmed' \in [Threads -> BOOLEAN] /\ schEvent' \in BOOLEAN
      BY <1>2, FlagType DEF NicReceive, TypeInv
    <2>3. QED
      BY <1>2, <2>1, <2>2 DEF NicReceive, offloadVars, threadVars, ownVars,
           schVars, histVars, TypeInv
  <1>3. CASE NicReceiveOwn(t)
    <2>1. ownPi' \in [Threads -> Nat]
      BY <1>3, CountUp DEF NicReceiveOwn, TypeInv
    <2>2. event' \in [Threads -> BOOLEAN] /\ ownArmed' \in [Threads -> BOOLEAN]
      BY <1>3, FlagType DEF NicReceiveOwn, TypeInv
    <2>3. QED
      BY <1>3, <2>1, <2>2 DEF NicReceiveOwn, offloadVars, threadVars, schVars,
           queueVars, histVars, TypeInv
  <1>4. QED
    BY <1>1, <1>2, <1>3

-----------------------------------------------------------------------------
(* What a thread leaves alone: the scheduler, the tenants, other threads;  *)
(* and it never stores EU_HANG.                                            *)
LEMMA ThreadFrame ==
    ASSUME TypeInv, NEW t \in Threads, Thread(t)
    PROVE  /\ UNCHANGED <<tenant, spc, j, sch_not_first_run, ready, runnable>>
           /\ status'[t] \in {status[t], EU_FREE, EU_OFF}
           /\ \A u \in Threads \ {t} :
                 /\ tpc'[u] = tpc[u] /\ status'[u] = status[u]
                 /\ this_tenant'[u] = this_tenant[u]
                 /\ tnt_not_first_run'[u] = tnt_not_first_run[u]
                 /\ event'[u] = event[u] /\ look'[u] = look[u]
  <1>1. CASE Activate(t)
    BY <1>1 DEF Activate, Goto, ownVars, histVars, offloadVars, schVars, TypeInv
  <1>2. CASE LoadStatus(t)
    BY <1>2 DEF LoadStatus, Goto, ownVars, histVars, offloadVars, schVars, TypeInv
  <1>3. CASE StoreFree(t)
    BY <1>3 DEF StoreFree, Goto, ownVars, histVars, schVars, TypeInv
  <1>4. CASE StepOwnCq(t)
    BY <1>4 DEF StepOwnCq, Goto, ownVars, histVars, offloadVars, schVars, TypeInv
  <1>5. CASE SpinOnStatus(t)
    BY <1>5 DEF SpinOnStatus, Goto, ownVars, histVars, offloadVars, schVars, TypeInv
  <1>6. CASE LoadTenant(t)
    BY <1>6 DEF LoadTenant, Goto, ownVars, histVars, offloadVars, schVars, TypeInv
  <1>7. CASE PpQueue(t)
    BY <1>7 DEF PpQueue, Goto, ownVars, histVars, offloadVars, schVars, TypeInv
  <1>8. CASE Account1(t)
    BY <1>8 DEF Account1, Goto, ownVars, histVars, schVars, TypeInv
  <1>9. CASE Step1(t)
    BY <1>9 DEF Step1, Goto, ownVars, histVars, offloadVars, schVars, TypeInv
  <1>10. CASE Step2(t)
    BY <1>10 DEF Step2, Goto, ownVars, histVars, offloadVars, schVars, TypeInv
  <1>11. CASE Account2(t)
    BY <1>11 DEF Account2, Goto, ownVars, histVars, schVars, TypeInv
  <1>12. CASE ArmOwnCq(t)
    BY <1>12 DEF ArmOwnCq, Goto, ownVars, histVars, offloadVars, schVars, TypeInv
  <1>13. CASE StoreOff(t)
    BY <1>13 DEF StoreOff, Goto, ownVars, histVars, schVars, TypeInv
  <1>14. QED
    BY <1>1, <1>2, <1>3, <1>4, <1>5, <1>6, <1>7, <1>8, <1>9, <1>10, <1>11,
         <1>12, <1>13 DEF Thread

(* What a thread does to itself: it works only once released, with its own *)
(* queue, and its status stays right.                                      *)
LEMMA ThreadReleased ==
    ASSUME IInv, NEW t \in Threads, Thread(t)
    PROVE  Released(t)' /\ StatusRight(t)'
  <1> USE DEF TypeInv, Released, StatusRight, Assigned, Working, EU_OFF, EU_FREE,
          EU_HANG, Goto
  <1>0. /\ TypeInv /\ Released(t) /\ StatusRight(t)
        /\ status[t] = EU_HANG => Assigned(t)
    BY DEF IInv, AssignedInv, ReleasedInv, StatusInv
  <1>1. CASE Activate(t)
    BY <1>0, <1>1 DEF Activate, offloadVars
  <1>2. CASE LoadStatus(t)
    BY <1>0, <1>2 DEF LoadStatus, offloadVars
  <1>3. CASE StoreFree(t)
    BY <1>0, <1>3 DEF StoreFree
  <1>4. CASE StepOwnCq(t)
    BY <1>0, <1>4 DEF StepOwnCq, offloadVars
  <1>5. CASE SpinOnStatus(t)
    BY <1>0, <1>5 DEF SpinOnStatus, offloadVars
  <1>6. CASE LoadTenant(t)
    BY <1>0, <1>6 DEF LoadTenant, offloadVars
  <1>7. CASE PpQueue(t)
    BY <1>0, <1>7 DEF PpQueue, offloadVars
  <1>8. CASE Account1(t)
    BY <1>0, <1>8 DEF Account1
  <1>9. CASE Step1(t)
    BY <1>0, <1>9 DEF Step1, offloadVars
  <1>10. CASE Step2(t)
    BY <1>0, <1>10 DEF Step2, offloadVars
  <1>11. CASE Account2(t)
    BY <1>0, <1>11 DEF Account2
  <1>12. CASE ArmOwnCq(t)
    BY <1>0, <1>12 DEF ArmOwnCq, offloadVars
  <1>13. CASE StoreOff(t)
    BY <1>0, <1>13 DEF StoreOff
  <1>14. QED
    BY <1>1, <1>2, <1>3, <1>4, <1>5, <1>6, <1>7, <1>8, <1>9, <1>10, <1>11,
         <1>12, <1>13 DEF Thread

(* A thread counts only once the scheduler is set up, and then upwards.    *)
LEMMA ThreadCounters ==
    ASSUME IInv, NEW t \in Threads, Thread(t)
    PROVE  /\ ~sch_not_first_run => UNCHANGED <<qCi, busy_cycle>>
           /\ CyclesAccounted => CyclesAccounted'
           /\ \A q \in Threads : qCi'[q] >= qCi[q]
  <1> USE DEF TypeInv, CyclesAccounted, Working
  <1>0. TypeInv /\ (Working(t) => sch_not_first_run)
    BY DEF IInv, AssignedInv, ReleasedInv, Released
  <1>1. CASE Activate(t)
    BY <1>0, <1>1 DEF Activate, offloadVars, queueVars, histVars
  <1>2. CASE LoadStatus(t)
    BY <1>0, <1>2 DEF LoadStatus, offloadVars, queueVars, histVars
  <1>3. CASE StoreFree(t)
    BY <1>0, <1>3 DEF StoreFree, queueVars, histVars
  <1>4. CASE StepOwnCq(t)
    BY <1>0, <1>4 DEF StepOwnCq, offloadVars, queueVars, histVars
  <1>5. CASE SpinOnStatus(t)
    BY <1>0, <1>5 DEF SpinOnStatus, offloadVars, queueVars, histVars
  <1>6. CASE LoadTenant(t)
    BY <1>0, <1>6 DEF LoadTenant, offloadVars, queueVars, histVars
  <1>7. CASE PpQueue(t)
    BY <1>0, <1>7 DEF PpQueue, offloadVars, queueVars, histVars
  <1>8. CASE Account1(t)
    <2>1. sch_not_first_run
      BY <1>0, <1>8 DEF Account1
    <2>2. qCi' = qCi
      BY <1>8 DEF Account1, queueVars
    <2>3. CyclesAccounted => CyclesAccounted'
      BY <1>0, <1>8 DEF Account1, AddCycles
    <2>4. QED
      BY <1>0, <2>1, <2>2, <2>3
  <1>9. CASE Step1(t)
    <2>1. sch_not_first_run
      BY <1>0, <1>9 DEF Step1
    <2>2. \A q \in Threads : qCi'[q] >= qCi[q]
      BY <1>0, CountGrows, <1>9 DEF Step1, StepTenantCq
    <2>3. CyclesAccounted => CyclesAccounted'
      BY <1>0, <1>9 DEF Step1, offloadVars, histVars
    <2>4. QED
      BY <1>0, <2>1, <2>2, <2>3
  <1>10. CASE Step2(t)
    <2>1. sch_not_first_run
      BY <1>0, <1>10 DEF Step2
    <2>2. \A q \in Threads : qCi'[q] >= qCi[q]
      BY <1>0, CountGrows, <1>10 DEF Step2, StepTenantCq
    <2>3. CyclesAccounted => CyclesAccounted'
      BY <1>0, <1>10 DEF Step2, offloadVars, histVars
    <2>4. QED
      BY <1>0, <2>1, <2>2, <2>3
  <1>11. CASE Account2(t)
    <2>1. sch_not_first_run
      BY <1>0, <1>11 DEF Account2
    <2>2. qCi' = qCi
      BY <1>11 DEF Account2, queueVars
    <2>3. CyclesAccounted => CyclesAccounted'
      BY <1>0, <1>11 DEF Account2, AddCycles
    <2>4. QED
      BY <1>0, <2>1, <2>2, <2>3
  <1>12. CASE ArmOwnCq(t)
    BY <1>0, <1>12 DEF ArmOwnCq, offloadVars, queueVars, histVars
  <1>13. CASE StoreOff(t)
    BY <1>0, <1>13 DEF StoreOff, queueVars, histVars
  <1>14. QED
    BY <1>1, <1>2, <1>3, <1>4, <1>5, <1>6, <1>7, <1>8, <1>9, <1>10, <1>11,
         <1>12, <1>13 DEF Thread

-----------------------------------------------------------------------------
(* What the scheduler leaves alone: the threads.  It stores nothing but    *)
(* EU_HANG, takes no tenant away, and is set up once.                      *)
LEMMA SchedulerFrame ==
    ASSUME IInv, Scheduler
    PROVE  /\ UNCHANGED <<tpc, this_tenant, tnt_not_first_run, ready, runnable>>
           /\ sch_not_first_run => sch_not_first_run'
           /\ \A t \in Threads : /\ status'[t] \in {status[t], EU_HANG}
                                 /\ Assigned(t) => Assigned(t)'
                                 /\ event[t] => event'[t]
  <1> USE DEF TypeInv, Assigned
  <1>0. TypeInv  BY DEF IInv
  <1>1. CASE SchActivate
    BY <1>0, <1>1 DEF SchActivate, offloadVars, threadVars, ownVars
  <1>2. CASE SchCtxInit
    BY <1>0, <1>2 DEF SchCtxInit, threadVars, ownVars
  <1>3. CASE WakeLoad
    BY <1>0, <1>3 DEF WakeLoad, offloadVars, threadVars, ownVars
  <1>4. CASE WakeReady
    BY <1>0, <1>4 DEF WakeReady, offloadVars, threadVars, ownVars
  <1>5. CASE WakeMsix
    BY <1>0, <1>5 DEF WakeMsix, SendMsix, offloadVars, threadVars, ownVars
  <1>6. CASE AssignTenant
    BY <1>0, <1>6 DEF AssignTenant, threadVars, ownVars
  <1>7. CASE HangAssigned
    BY <1>0, <1>7 DEF HangAssigned, StoreHang, threadVars, ownVars
  <1>8. CASE CheckTime
    BY <1>0, <1>8 DEF CheckTime, offloadVars, threadVars, ownVars
  <1>9. CASE ScanLoadOff
    BY <1>0, <1>9 DEF ScanLoadOff, offloadVars, threadVars, ownVars
  <1>10. CASE ScanReady
    BY <1>0, <1>10 DEF ScanReady, offloadVars, threadVars, ownVars
  <1>11. CASE ScanMsix
    BY <1>0, <1>11 DEF ScanMsix, SendMsix, offloadVars, threadVars, ownVars
  <1>12. CASE ScanLoadFree
    BY <1>0, <1>12 DEF ScanLoadFree, offloadVars, threadVars, ownVars
  <1>13. CASE ScanHang
    BY <1>0, <1>13 DEF ScanHang, StoreHang, threadVars, ownVars
  <1>14. CASE ReportReset
    BY <1>0, <1>14 DEF ReportReset, offloadVars, threadVars, ownVars
  <1>15. CASE Collect
    BY <1>0, <1>15 DEF Collect, threadVars, ownVars
  <1>16. CASE LoadCqIdx
    BY <1>0, <1>16 DEF LoadCqIdx, offloadVars, threadVars, ownVars
  <1>17. CASE ArmQueue
    BY <1>0, <1>17 DEF ArmQueue, offloadVars, threadVars, ownVars
  <1>18. QED
    BY <1>1, <1>2, <1>3, <1>4, <1>5, <1>6, <1>7, <1>8, <1>9, <1>10, <1>11,
         <1>12, <1>13, <1>14, <1>15, <1>16, <1>17 DEF Scheduler

(* How a loop over the queues goes on, and how it ends.                    *)
LEMMA QueueOrder ==
    ASSUME j \in Threads, NEW here, NEW after, NextQueue(here, after)
    PROVE  \/ spc' = here /\ \A t \in Threads : t < j' => t <= j
           \/ spc' = after /\ j' = 0 /\ \A t \in Threads : t <= j
  BY NAssumption DEF NextQueue, Threads

(* The scheduler keeps to its order: every thread has its queue before the *)
(* scan begins.                                                            *)
LEMMA SchedulerProgress ==
    ASSUME IInv, Scheduler
    PROVE  SchedulerInv'
  <1> USE DEF SchedulerInv
  <1>0. /\ TypeInv /\ SchedulerInv /\ j \in Threads
        /\ \A t \in Threads : ~ t < 0
    <2>1. \A t \in Threads : ~ t < 0
      BY NAssumption DEF Threads
    <2>2. QED
      BY <2>1 DEF IInv, TypeInv
  <1>a. /\ sch_not_first_run => sch_not_first_run'
        /\ \A t \in Threads : /\ Assigned(t) => Assigned(t)'
                              /\ Marked(t) => Marked(t)'
    BY SchedulerFrame DEF Marked
  <1>1. CASE SchActivate
    BY <1>0, <1>a, <1>1 DEF SchActivate
  <1>2. CASE SchCtxInit
    <2>1. spc' = "wake" /\ sch_not_first_run'
      BY <1>2 DEF SchCtxInit
    <2>2. QED
      BY <2>1
  <1>3. CASE WakeLoad
    <2>1. CASE status[j] = EU_OFF
      BY <1>0, <1>a, <2>1, <1>3 DEF WakeLoad
    <2>2. CASE status[j] # EU_OFF
      BY <1>0, <1>a, <2>2, QueueOrder, <1>3 DEF WakeLoad
    <2>3. QED
      BY <2>1, <2>2
  <1>4. CASE WakeReady
    <2>1. CASE ready[j]
      BY <1>0, <1>a, <2>1, <1>4 DEF WakeReady
    <2>2. CASE ~ready[j]
      BY <1>0, <1>a, <2>2, QueueOrder, <1>4 DEF WakeReady
    <2>3. QED
      BY <2>1, <2>2
  <1>5. CASE WakeMsix
    BY <1>0, <1>a, QueueOrder, <1>5 DEF WakeMsix
  <1>6. CASE AssignTenant
    <2>1. spc' = "hang" /\ j' = j /\ Assigned(j)'
      BY <1>0, <1>6 DEF AssignTenant, TypeInv, Assigned
    <2>2. \A t \in Threads : t <= j => t < j \/ t = j
      BY <1>0 DEF Threads
    <2>3. QED
      BY <1>0, <1>a, <2>1, <2>2, <1>6 DEF AssignTenant
  <1>7. CASE HangAssigned
    <2>1. \A t \in Threads : t = j => Marked(t)'
      BY <1>0, <1>7 DEF HangAssigned, StoreHang, Marked, TypeInv
    <2>2. \A t \in Threads : t <= j => t < j \/ t = j
      BY <1>0 DEF Threads
    <2>3. \A t \in Threads : t <= j => Assigned(t)' /\ Marked(t)'
      BY <1>0, <1>a, <2>1, <2>2, <1>7 DEF HangAssigned
    <2>4. \/ spc' = "assign" /\ \A t \in Threads : t < j' => t <= j
          \/ spc' = "loop" /\ \A t \in Threads : t <= j
      BY <1>0, QueueOrder, <1>7 DEF HangAssigned
    <2>5. sch_not_first_run'
      BY <1>0, <1>a, <1>7 DEF HangAssigned
    <2>6. QED
      BY <2>3, <2>4, <2>5
  <1>8. CASE CheckTime
    BY <1>0, <1>a, <1>8 DEF CheckTime
  <1>9. CASE ScanLoadOff
    BY <1>0, <1>a, <1>9 DEF ScanLoadOff
  <1>10. CASE ScanReady
    BY <1>0, <1>a, <1>10 DEF ScanReady
  <1>11. CASE ScanMsix
    BY <1>0, <1>a, <1>11 DEF ScanMsix
  <1>12. CASE ScanLoadFree
    <2>1. spc' \in {"scanHang", "scan", "loop", "reset"}
      BY <1>0, QueueOrder, <1>12 DEF ScanLoadFree, AfterScan
    <2>2. QED
      BY <1>0, <1>a, <2>1, <1>12 DEF ScanLoadFree
  <1>13. CASE ScanHang
    BY <1>0, <1>a, QueueOrder, <1>13 DEF ScanHang, AfterScan
  <1>14. CASE ReportReset
    BY <1>0, <1>a, <1>14 DEF ReportReset
  <1>15. CASE Collect
    BY <1>0, <1>a, QueueOrder, <1>15 DEF Collect
  <1>16. CASE LoadCqIdx
    BY <1>0, <1>a, <1>16 DEF LoadCqIdx
  <1>17. CASE ArmQueue
    BY <1>0, <1>a, QueueOrder, <1>17 DEF ArmQueue
  <1>18. QED
    BY <1>1, <1>2, <1>3, <1>4, <1>5, <1>6, <1>7, <1>8, <1>9, <1>10, <1>11,
         <1>12, <1>13, <1>14, <1>15, <1>16, <1>17 DEF Scheduler

(* EU_HANG is stored only for threads that have their queue.               *)
LEMMA SchedulerAssigned ==
    ASSUME IInv, Scheduler
    PROVE  AssignedInv'
  <1> USE DEF TypeInv, AssignedInv, Assigned, EU_HANG
  <1>0. TypeInv /\ AssignedInv /\ SchedulerInv  BY DEF IInv
  <1>1. CASE SchActivate
    BY <1>0, <1>1 DEF SchActivate, offloadVars
  <1>2. CASE SchCtxInit
    BY <1>0, <1>2 DEF SchCtxInit, SchedulerInv
  <1>3. CASE WakeLoad
    BY <1>0, <1>3 DEF WakeLoad, offloadVars
  <1>4. CASE WakeReady
    BY <1>0, <1>4 DEF WakeReady, offloadVars
  <1>5. CASE WakeMsix
    BY <1>0, <1>5 DEF WakeMsix, offloadVars
  <1>6. CASE AssignTenant
    BY <1>0, <1>6 DEF AssignTenant, SchedulerInv
  <1>7. CASE HangAssigned
    BY <1>0, <1>7 DEF HangAssigned, StoreHang, SchedulerInv, Threads
  <1>8. CASE CheckTime
    BY <1>0, <1>8 DEF CheckTime, offloadVars
  <1>9. CASE ScanLoadOff
    BY <1>0, <1>9 DEF ScanLoadOff, offloadVars
  <1>10. CASE ScanReady
    BY <1>0, <1>10 DEF ScanReady, offloadVars
  <1>11. CASE ScanMsix
    BY <1>0, <1>11 DEF ScanMsix, offloadVars
  <1>12. CASE ScanLoadFree
    BY <1>0, <1>12 DEF ScanLoadFree, offloadVars
  <1>13. CASE ScanHang
    BY <1>0, <1>13 DEF ScanHang, StoreHang, SchedulerInv
  <1>14. CASE ReportReset
    BY <1>0, <1>14 DEF ReportReset, offloadVars
  <1>15. CASE Collect
    BY <1>0, <1>15 DEF Collect
  <1>16. CASE LoadCqIdx
    BY <1>0, <1>16 DEF LoadCqIdx, offloadVars
  <1>17. CASE ArmQueue
    BY <1>0, <1>17 DEF ArmQueue, offloadVars
  <1>18. QED
    BY <1>1, <1>2, <1>3, <1>4, <1>5, <1>6, <1>7, <1>8, <1>9, <1>10, <1>11,
         <1>12, <1>13, <1>14, <1>15, <1>16, <1>17 DEF Scheduler

(* What the scheduler does to the counters: it collects cycles, and resets *)
(* everything only while there is nothing to reset.                        *)
LEMMA SchedulerCounters ==
    ASSUME IInv, Scheduler
    PROVE  /\ FirstRunInv'
           /\ CyclesAccounted => CyclesAccounted'
           /\ \A q \in Threads : qCi'[q] >= qCi[q]
  <1> USE DEF TypeInv, FirstRunInv, CyclesAccounted
  <1>0. TypeInv /\ FirstRunInv /\ SchedulerInv  BY DEF IInv
  <1>1. CASE SchActivate
    BY <1>0, <1>1 DEF SchActivate, offloadVars, histVars
  <1>2. CASE SchCtxInit
    BY <1>0, <1>2 DEF SchCtxInit, histVars, SchedulerInv
  <1>3. CASE WakeLoad
    BY <1>0, <1>3 DEF WakeLoad, LookAt, offloadVars, queueVars
  <1>4. CASE WakeReady
    <2>1. UNCHANGED <<spent, reported>>
      BY <1>4 DEF WakeReady, LookAt, histVars
    <2>2. QED
      BY <1>0, <2>1, <1>4 DEF WakeReady, offloadVars, queueVars
  <1>5. CASE WakeMsix
    BY <1>0, <1>5 DEF WakeMsix, offloadVars, queueVars, histVars
  <1>6. CASE AssignTenant
    BY <1>0, <1>6 DEF AssignTenant, queueVars, histVars
  <1>7. CASE HangAssigned
    BY <1>0, <1>7 DEF HangAssigned, queueVars, histVars
  <1>8. CASE CheckTime
    BY <1>0, <1>8 DEF CheckTime, offloadVars, queueVars, histVars
  <1>9. CASE ScanLoadOff
    BY <1>0, <1>9 DEF ScanLoadOff, LookAt, offloadVars, queueVars
  <1>10. CASE ScanReady
    <2>1. UNCHANGED <<spent, reported>>
      BY <1>10 DEF ScanReady, LookAt, histVars
    <2>2. QED
      BY <1>0, <2>1, <1>10 DEF ScanReady, offloadVars, queueVars
  <1>11. CASE ScanMsix
    BY <1>0, <1>11 DEF ScanMsix, offloadVars, queueVars, histVars
  <1>12. CASE ScanLoadFree
    <2>1. UNCHANGED <<spent, reported>>
      BY <1>12 DEF ScanLoadFree, LookAt, histVars
    <2>2. QED
      BY <1>0, <2>1, <1>12 DEF ScanLoadFree, offloadVars, queueVars
  <1>13. CASE ScanHang
    BY <1>0, <1>13 DEF ScanHang, queueVars, histVars
  <1>14. CASE ReportReset
    BY <1>0, <1>14 DEF ReportReset, offloadVars, queueVars, histVars
  <1>15. CASE Collect
    <2>1. sch_not_first_run' /\ qCi' = qCi
      BY <1>0, <1>15 DEF Collect, queueVars, SchedulerInv
    <2>2. CyclesAccounted => CyclesAccounted'
      BY <1>0, <1>15 DEF Collect
    <2>3. QED
      BY <1>0, <2>1, <2>2
  <1>16. CASE LoadCqIdx
    BY <1>0, <1>16 DEF LoadCqIdx, offloadVars, queueVars, histVars
  <1>17. CASE ArmQueue
    BY <1>0, <1>17 DEF ArmQueue, offloadVars, histVars
  <1>18. QED
    BY <1>1, <1>2, <1>3, <1>4, <1>5, <1>6, <1>7, <1>8, <1>9, <1>10, <1>11,
         <1>12, <1>13, <1>14, <1>15, <1>16, <1>17 DEF Scheduler

(* What a thread does to the scheduler's picture of it: while the picture  *)
(* is current, it does not go off.                                         *)
LEMMA ThreadLooks ==
    ASSUME IInv, NEW t \in Threads, Thread(t)
    PROVE  /\ ready[t] /\ runnable[t]
           /\ look'[t] = IF tpc[t] = "off" THEN "gone" ELSE look[t]
           /\ tpc'[t] = "asleep" => tpc[t] = "off"
  <1> USE DEF TypeInv, Goto, histVars
  <1>0. TypeInv /\ (tpc[t] # "asleep" => runnable[t]) /\ (runnable[t] => ready[t])
    BY DEF IInv, LookInv
  <1>1. CASE Activate(t)
    BY <1>0, <1>1 DEF Activate
  <1>2. CASE LoadStatus(t)
    BY <1>0, <1>2 DEF LoadStatus
  <1>3. CASE StoreFree(t)
    BY <1>0, <1>3 DEF StoreFree
  <1>4. CASE StepOwnCq(t)
    BY <1>0, <1>4 DEF StepOwnCq
  <1>5. CASE SpinOnStatus(t)
    BY <1>0, <1>5 DEF SpinOnStatus
  <1>6. CASE LoadTenant(t)
    BY <1>0, <1>6 DEF LoadTenant
  <1>7. CASE PpQueue(t)
    BY <1>0, <1>7 DEF PpQueue
  <1>8. CASE Account1(t)
    BY <1>0, <1>8 DEF Account1
  <1>9. CASE Step1(t)
    BY <1>0, <1>9 DEF Step1
  <1>10. CASE Step2(t)
    BY <1>0, <1>10 DEF Step2
  <1>11. CASE Account2(t)
    BY <1>0, <1>11 DEF Account2
  <1>12. CASE ArmOwnCq(t)
    BY <1>0, <1>12 DEF ArmOwnCq
  <1>13. CASE StoreOff(t)
    BY <1>0, <1>13 DEF StoreOff
  <1>14. QED
    BY <1>1, <1>2, <1>3, <1>4, <1>5, <1>6, <1>7, <1>8, <1>9, <1>10, <1>11,
         <1>12, <1>13 DEF Thread

(* No step of a thread makes the picture wrong.                            *)
LEMMA ThreadLookInv ==
    ASSUME IInv, NEW t \in Threads, Thread(t)
    PROVE  LookInv'
  <1>0. TypeInv /\ LookInv /\ StatusInv /\ j \in Threads
    BY DEF IInv, TypeInv
  <1>1. /\ UNCHANGED <<spc, j, ready, runnable>>
        /\ status'[t] \in {status[t], EU_FREE, EU_OFF}
        /\ \A u \in Threads \ {t} :
              /\ tpc'[u] = tpc[u] /\ status'[u] = status[u]
              /\ event'[u] = event[u] /\ look'[u] = look[u]
    BY <1>0, ThreadFrame
  <1>2. \A u \in Threads :
          /\ runnable'[u] => ready'[u]
          /\ tpc'[u] # "asleep" => runnable'[u]
          /\ look'[u] = "current" /\ status'[u] = EU_OFF /\ tpc'[u] = "asleep"
                => event'[u] \/ AboutToWake(u)'
    BY <1>0, <1>1, ThreadLooks DEF LookInv, AboutToWake
  <1>3. ASSUME spc \in {"scanReady", "scanMsix", "scanHang"}
        PROVE  /\ ready'[j] /\ look'[j] # "unready"
               /\ j \in Tnt1 => status'[j] # EU_HANG /\ look'[j] = "current"
    <2>1. /\ ready[j] /\ look[j] # "unready"
          /\ j \in Tnt1 => status[j] # EU_HANG /\ look[j] = "current"
      BY <1>0, <1>3 DEF LookInv
    <2>2. ready'[j] /\ look'[j] # "unready"
      BY <1>0, <1>1, <2>1, ThreadLooks
    <2>3. j \in Tnt1 => tpc[j] # "off"
      BY <1>0, <2>1 DEF StatusInv, StatusRight
    <2>4. j \in Tnt1 => look'[j] = "current"
      BY <1>0, <1>1, <2>1, <2>3, ThreadLooks
    <2>5. j \in Tnt1 => status'[j] # EU_HANG
      BY <1>0, <1>1, <2>1 DEF EU_FREE, EU_OFF, EU_HANG
    <2>6. QED
      BY <2>2, <2>4, <2>5
  <1>4. QED
    BY <1>1, <1>2, <1>3 DEF LookInv

(* The scheduler's steps keep its picture right: what it finds off it is   *)
(* about to wake, and what it marks in the scan it has just looked at.     *)
LEMMA SchedulerLookInv ==
    ASSUME IInv, Scheduler
    PROVE  LookInv'
  <1> DEFINE
        Waits(t) == look[t] = "current" /\ status[t] = EU_OFF /\ tpc[t] = "asleep"
                       => event[t] \/ AboutToWake(t)
        Scanned == spc \in {"scanReady", "scanMsix", "scanHang"} =>
                      /\ ready[j] /\ look[j] # "unready"
                      /\ j \in Tnt1 => status[j] # EU_HANG /\ look[j] = "current"
  <1> USE DEF AboutToWake, histVars, offloadVars, EU_OFF, EU_FREE, EU_HANG
  <1>0. /\ j \in Threads /\ look \in [Threads -> Looks]
        /\ status \in [Threads -> {EU_OFF, EU_FREE, EU_HANG}]
        /\ event \in [Threads -> BOOLEAN]
        /\ \A t \in Threads : Waits(t)
        /\ Scanned
        /\ spc \in {"scan", "scanFree"} => ready[j] \/ status[j] = EU_HANG
    BY DEF IInv, TypeInv, LookInv, SchedulerInv, Marked
  <1>a. /\ UNCHANGED <<tpc, ready, runnable>>
        /\ \A t \in Threads : /\ status'[t] \in {status[t], EU_HANG}
                              /\ event[t] => event'[t]
    BY SchedulerFrame
  <1>b. SUFFICES (\A t \in Threads : Waits(t)') /\ Scanned'
    BY <1>a DEF IInv, LookInv
  <1>1. CASE SchActivate
    BY <1>0, <1>a, <1>1 DEF SchActivate
  <1>2. CASE SchCtxInit
    BY <1>0, <1>a, <1>2 DEF SchCtxInit
  <1>3. CASE WakeLoad
    BY <1>0, <1>a, QueueOrder, <1>3 DEF WakeLoad, LookAt
  <1>4. CASE WakeReady
    BY <1>0, <1>a, QueueOrder, <1>4 DEF WakeReady, LookAt
  <1>5. CASE WakeMsix
    BY <1>0, <1>a, QueueOrder, <1>5 DEF WakeMsix, SendMsix
  <1>6. CASE AssignTenant
    BY <1>0, <1>a, <1>6 DEF AssignTenant
  <1>7. CASE HangAssigned
    BY <1>0, <1>a, QueueOrder, <1>7 DEF HangAssigned, StoreHang
  <1>8. CASE CheckTime
    BY <1>0, <1>a, <1>8 DEF CheckTime
  <1>9. CASE ScanLoadOff
    BY <1>0, <1>a, <1>9 DEF ScanLoadOff, LookAt
  <1>10. CASE ScanReady
    BY <1>0, <1>a, <1>10 DEF ScanReady, LookAt
  <1>11. CASE ScanMsix
    BY <1>0, <1>a, <1>11 DEF ScanMsix, SendMsix
  <1>12. CASE ScanLoadFree
    BY <1>0, <1>a, QueueOrder, <1>12 DEF ScanLoadFree, AfterScan, LookAt
  <1>13. CASE ScanHang
    BY <1>0, <1>a, QueueOrder, <1>13 DEF ScanHang, AfterScan, StoreHang
  <1>14. CASE ReportReset
    BY <1>0, <1>a, <1>14 DEF ReportReset
  <1>15. CASE Collect
    BY <1>0, <1>a, QueueOrder, <1>15 DEF Collect
  <1>16. CASE LoadCqIdx
    BY <1>0, <1>a, <1>16 DEF LoadCqIdx
  <1>17. CASE ArmQueue
    BY <1>0, <1>a, QueueOrder, <1>17 DEF ArmQueue
  <1>18. QED
    BY <1>1, <1>2, <1>3, <1>4, <1>5, <1>6, <1>7, <1>8, <1>9, <1>10, <1>11,
         <1>12, <1>13, <1>14, <1>15, <1>16, <1>17 DEF Scheduler

(* A step forgets nobody but a thread that the property names.             *)
NoneForgotten ==
    \A t \in Threads : ~Forgotten(t) /\ Forgotten(t)' =>
        \/ spc = "hang" /\ look[t] # "current"
        \/ spc = "scanHang" /\ t \notin Tnt1 /\ look[t] = "gone"

(* A thread stores no EU_HANG, takes only its own event, and then is       *)
(* active; it goes off with EU_OFF.                                        *)
LEMMA ThreadForgets ==
    ASSUME IInv, NEW t \in Threads, Thread(t)
    PROVE  NoneForgotten
  <1> USE DEF Forgotten
  <1>0. TypeInv
    BY DEF IInv
  <1>1. \A u \in Threads \ {t} :
          tpc'[u] = tpc[u] /\ status'[u] = status[u] /\ event'[u] = event[u]
    BY <1>0, ThreadFrame
  <1>2. tpc'[t] = "asleep" => tpc[t] = "off"
    BY ThreadLooks
  <1>3. CASE tpc[t] = "off"
    <2>1. StoreOff(t)
      BY <1>3 DEF Thread, Activate, LoadStatus, StoreFree, StepOwnCq, SpinOnStatus,
                  LoadTenant, PpQueue, Account1, Step1, Step2, Account2, ArmOwnCq
    <2>2. status'[t] = EU_OFF
      BY <1>0, <2>1 DEF StoreOff, TypeInv
    <2>3. QED
      BY <1>1, <2>2 DEF NoneForgotten, EU_OFF, EU_HANG
  <1>4. QED
    BY <1>1, <1>2, <1>3 DEF NoneForgotten

(* The scheduler forgets nobody whom it has seen.                          *)
LEMMA SchedulerForgets ==
    ASSUME IInv, Scheduler
    PROVE  NoneForgotten
  <1> SUFFICES ASSUME NEW t \in Threads, ~Forgotten(t), Forgotten(t)'
               PROVE  \/ spc = "hang" /\ look[t] # "current"
                      \/ spc = "scanHang" /\ t \notin Tnt1 /\ look[t] = "gone"
    BY DEF NoneForgotten
  <1>1. tpc[t] = "asleep" /\ ~event[t] /\ status'[t] = EU_HANG /\ status[t] # EU_HANG
    BY SchedulerFrame DEF Forgotten
  <1>2. status[t] = EU_OFF
    BY <1>1 DEF IInv, TypeInv, StatusInv, StatusRight
  <1>3. spc \in {"hang", "scanHang"} /\ t = j
    <2>1. HangAssigned \/ ScanHang
      BY <1>1 DEF Scheduler, SchActivate, SchCtxInit, WakeLoad, WakeReady, WakeMsix,
           AssignTenant, CheckTime, ScanLoadOff, ScanReady, ScanMsix, ScanLoadFree,
           ReportReset, Collect, LoadCqIdx, ArmQueue, offloadVars
    <2>2. QED
      BY <1>1, <2>1 DEF HangAssigned, ScanHang, StoreHang, IInv, TypeInv
  <1>4. look[t] # "current"
    BY <1>1, <1>2, <1>3 DEF IInv, LookInv, AboutToWake
  <1>5. spc = "scanHang" => look[t] = "gone" /\ t \notin Tnt1
    BY <1>3, <1>4 DEF IInv, TypeInv, LookInv, Looks
  <1>6. QED
    BY <1>3, <1>4, <1>5

-----------------------------------------------------------------------------
(* The device memory as it is loaded satisfies the invariant.              *)
LEMMA InitIInv == Init => IInv /\ CyclesAccounted
  <1> SUFFICES ASSUME Init PROVE IInv /\ CyclesAccounted  OBVIOUS
  <1>1. TypeInv
    <2>1. 0 \in Threads  BY NAssumption DEF Threads
    <2>2. 0 \in 0 .. Quota  BY BoundAssumption
    <2>3. QED
      BY <2>1, <2>2
      DEF Init, TypeInv, ThreadLabels, SchedulerLabels, Looks, EU_OFF, EU_FREE, EU_HANG
  <1>2. AssignedInv /\ ReleasedInv /\ StatusInv
    BY DEF Init, AssignedInv, Assigned, ReleasedInv, Released, StatusInv,
           StatusRight, Working, Threads, Null, EU_OFF, EU_FREE, EU_HANG
  <1>3. SchedulerInv /\ FirstRunInv /\ LookInv
    BY DEF Init, SchedulerInv, FirstRunInv, LookInv
  <1>4. CyclesAccounted  BY DEF Init, CyclesAccounted
  <1>5. QED  BY <1>1, <1>2, <1>3, <1>4 DEF IInv

(* Every step of a thread preserves it.                                    *)
LEMMA ThreadIInv ==
    ASSUME IInv, NEW t \in Threads, Thread(t)
    PROVE  IInv'
  <1>1. TypeInv /\ AssignedInv /\ SchedulerInv /\ ReleasedInv /\ FirstRunInv /\ StatusInv
    BY DEF IInv
  <1>2. TypeInv'  BY <1>1, ThreadTypeInv
  <1>3. AssignedInv'
    BY <1>1, ThreadFrame DEF AssignedInv, Assigned, EU_OFF, EU_FREE, EU_HANG
  <1>4. SchedulerInv'
    <2>1. \A u \in Threads : (Assigned(u) => Assigned(u)') /\ (Marked(u) => Marked(u)')
      BY <1>1, ThreadFrame, ThreadLooks DEF Assigned, Marked
    <2>2. QED
      BY <1>1, <2>1, ThreadFrame DEF SchedulerInv
  <1>5. ReleasedInv'
    <2>1. ASSUME NEW u \in Threads \ {t} PROVE Released(u)'
      BY <1>1, ThreadFrame DEF ReleasedInv, Released, Assigned, Working
    <2>2. QED  BY <2>1, ThreadReleased DEF ReleasedInv
  <1>6. FirstRunInv'
    BY <1>1, ThreadFrame, ThreadCounters DEF FirstRunInv
  <1>7. StatusInv'
    <2>1. ASSUME NEW u \in Threads \ {t} PROVE StatusRight(u)'
      BY <1>1, ThreadFrame DEF StatusInv, StatusRight, Working
    <2>2. QED  BY <2>1, ThreadReleased DEF StatusInv
  <1>8. QED  BY <1>2, <1>3, <1>4, <1>5, <1>6, <1>7, ThreadLookInv DEF IInv

(* So does every step of the scheduler.                                    *)
LEMMA SchedulerIInv ==
    ASSUME IInv, Scheduler
    PROVE  IInv'
  <1>1. TypeInv /\ ReleasedInv /\ StatusInv  BY DEF IInv
  <1>2. TypeInv'  BY <1>1, SchedulerTypeInv
  <1>3. ReleasedInv'
    BY <1>1, SchedulerFrame DEF ReleasedInv, Released, Working
  <1>4. StatusInv'
    BY <1>1, SchedulerFrame
    DEF StatusInv, StatusRight, Working, EU_FREE, EU_HANG
  <1>5. QED
    BY <1>2, <1>3, <1>4, SchedulerAssigned, SchedulerProgress, SchedulerCounters,
       SchedulerLookInv
    DEF IInv

(* The host and the NIC touch nothing the invariant speaks of, except that *)
(* they make handlers ready, run them and send them events.                *)
OutsideLeaves ==
    /\ UNCHANGED <<offloadVars, threadVars, schVars, qCi, histVars>>
    /\ \A t \in Threads : /\ ready[t] => ready'[t]
                          /\ event[t] => event'[t]
                          /\ runnable[t] => runnable'[t]
                          /\ runnable'[t] => runnable[t] \/ ready'[t]
LEMMA OutsideFrame ==
    ASSUME TypeInv, NEW t \in Threads,
           HostStartsThread(t) \/ NicReceive(t) \/ NicReceiveOwn(t)
    PROVE  OutsideLeaves
  <1> USE DEF TypeInv, OutsideLeaves, queueVars, ownVars
  <1>1. CASE HostStartsThread(t)
    BY <1>1 DEF HostStartsThread, ThdCtxInit, EventHandlerRun
  <1>2. CASE NicReceive(t)
    BY <1>2 DEF NicReceive
  <1>3. CASE NicReceiveOwn(t)
    BY <1>3 DEF NicReceiveOwn
  <1>4. QED
    BY <1>1, <1>2, <1>3

(* A step that leaves the rest alone preserves the invariant, and forgets  *)
(* nobody.                                                                 *)
LEMMA FrameIInv ==
    ASSUME IInv, TypeInv', OutsideLeaves
    PROVE  /\ IInv' /\ (CyclesAccounted => CyclesAccounted')
           /\ \A q \in Threads : qCi'[q] >= qCi[q]
           /\ NoneForgotten
  <1>1. /\ TypeInv /\ AssignedInv /\ SchedulerInv /\ ReleasedInv /\ FirstRunInv
        /\ StatusInv /\ LookInv
    BY DEF IInv
  <1>2. AssignedInv'
    BY <1>1 DEF AssignedInv, Assigned, OutsideLeaves, offloadVars, schVars
  <1>3. SchedulerInv'
    <2>1. \A u \in Threads : (Assigned(u) => Assigned(u)') /\ (Marked(u) => Marked(u)')
      BY DEF Assigned, Marked, OutsideLeaves, offloadVars
    <2>2. UNCHANGED <<spc, j, sch_not_first_run>>
      BY DEF OutsideLeaves, schVars
    <2>3. QED
      BY <1>1, <2>1, <2>2 DEF SchedulerInv
  <1>4. ReleasedInv' /\ StatusInv'
    BY <1>1 DEF ReleasedInv, StatusInv, Released, StatusRight, Assigned, Working,
                OutsideLeaves, offloadVars, threadVars
  <1>5. FirstRunInv' /\ (CyclesAccounted => CyclesAccounted')
    BY <1>1 DEF FirstRunInv, CyclesAccounted, OutsideLeaves, offloadVars, schVars,
                histVars
  <1>6. LookInv'
    <2>1. UNCHANGED <<status, tpc, spc, j, look>>
      BY DEF OutsideLeaves, offloadVars, threadVars, schVars, histVars
    <2>2. j \in Threads
      BY <1>1 DEF TypeInv
    <2>3. QED
      BY <1>1, <2>1, <2>2 DEF LookInv, OutsideLeaves, AboutToWake
  <1>7. \A q \in Threads : qCi'[q] >= qCi[q]
    BY <1>1 DEF TypeInv, OutsideLeaves
  <1>8. NoneForgotten
    BY DEF NoneForgotten, Forgotten, OutsideLeaves, offloadVars, threadVars
  <1>9. QED  BY <1>2, <1>3, <1>4, <1>5, <1>6, <1>7, <1>8 DEF IInv

(* One step of the whole: the invariant, the cycles and the consumers.     *)
LEMMA StepIInv ==
    ASSUME IInv, [Next]_vars
    PROVE  /\ IInv' /\ (CyclesAccounted => CyclesAccounted')
           /\ \A q \in Threads : qCi'[q] >= qCi[q]
           /\ NoneForgotten
  <1>1. ASSUME NEW t \in Threads, Thread(t)
        PROVE  /\ IInv' /\ (CyclesAccounted => CyclesAccounted')
               /\ \A q \in Threads : qCi'[q] >= qCi[q]
               /\ NoneForgotten
    BY <1>1, ThreadIInv, ThreadCounters, ThreadForgets
  <1>2. CASE Scheduler
    BY <1>2, SchedulerIInv, SchedulerCounters, SchedulerForgets
  <1>3. ASSUME NEW t \in Threads,
               HostStartsThread(t) \/ NicReceive(t) \/ NicReceiveOwn(t)
        PROVE  /\ IInv' /\ (CyclesAccounted => CyclesAccounted')
               /\ \A q \in Threads : qCi'[q] >= qCi[q]
               /\ NoneForgotten
    <2>1. TypeInv'  BY <1>3, OutsideTypeInv DEF IInv
    <2>2. QED  BY <1>3, <2>1, OutsideFrame, FrameIInv DEF IInv
  <1>4. CASE UNCHANGED vars
    <2>1. TypeInv'
      BY <1>4 DEF IInv, vars, TypeInv, offloadVars, threadVars, ownVars, schVars,
                  queueVars, histVars
    <2>2. OutsideLeaves
      BY <1>4 DEF vars, queueVars, ownVars, OutsideLeaves
    <2>3. QED  BY <2>1, <2>2, FrameIInv
  <1>5. QED  BY <1>1, <1>2, <1>3, <1>4 DEF Next

(* The inductive invariant of threads and scheduler holds in every         *)
(* reachable state, whatever the interleaving of their loads and stores.   *)
THEOREM DispatchInvariance == Spec => []IInv
  <1>1. Init => IInv  BY InitIInv
  <1>2. IInv /\ [Next]_vars => IInv'  BY StepIInv
  <1>3. QED  BY <1>1, <1>2, PTL DEF Spec

-----------------------------------------------------------------------------
(* The properties the runs check, for any number of threads.               *)

(* Type correctness of the status words, the contexts and both programs.   *)
THEOREM DispatchTypeCorrect == Spec => []TypeInv
  <1>1. IInv => TypeInv  BY DEF IInv
  <1>2. QED  BY <1>1, DispatchInvariance, PTL

(* A handler never polls a queue that is not its own, or one that          *)
(* sch_ctx_init has still to reset.                                        *)
THEOREM TenantSafe == Spec => []NoNullTenant
  <1>1. IInv => NoNullTenant
    BY DEF IInv, AssignedInv, ReleasedInv, Released, NoNullTenant
  <1>2. QED  BY <1>1, DispatchInvariance, PTL

(* flexio_pp_dev_1 works only under EU_HANG, and no thread sleeps under    *)
(* EU_FREE.                                                                *)
THEOREM StatusSafe == Spec => []StatusTruthful
  <1>1. IInv => StatusTruthful
    BY DEF IInv, StatusInv, StatusRight, StatusTruthful
  <1>2. QED  BY <1>1, DispatchInvariance, PTL

(* No cycle is lost or counted twice: not by the exchange that collects    *)
(* busy_cycle, and not by the store of 0 in sch_ctx_init.                  *)
THEOREM CyclesSafe == Spec => []CyclesAccounted
  <1>1. Init => CyclesAccounted  BY InitIInv
  <1>2. IInv /\ CyclesAccounted /\ [Next]_vars => CyclesAccounted'  BY StepIInv
  <1>3. QED  BY <1>1, <1>2, DispatchInvariance, PTL DEF Spec

(* No step takes a queue's consumer index back.                            *)
THEOREM ConsumerSafe == Spec => ConsumerNeverReset
  <1>1. IInv /\ [Next]_vars => [\A q \in Threads : qCi'[q] >= qCi[q]]_vars
    BY StepIInv
  <1>2. QED  BY <1>1, DispatchInvariance, PTL DEF Spec, ConsumerNeverReset

(* A thread that the scheduler leaves asleep under EU_HANG, without an     *)
(* event, went off or was started after the scheduler looked at it; never  *)
(* one of flexio_pp_dev_1 in the scan.                                     *)
THEOREM ForgottenSafe == Spec => ForgottenOnlyUnseen
  <1>1. IInv /\ [Next]_vars
          => [\A t \in Threads : ~Forgotten(t) /\ Forgotten(t)' =>
                \/ spc = "hang" /\ look[t] # "current"
                \/ spc = "scanHang" /\ t \notin Tnt1 /\ look[t] = "gone"]_vars
    BY StepIInv DEF NoneForgotten
  <1>2. QED  BY <1>1, DispatchInvariance, PTL DEF Spec, ForgottenOnlyUnseen
=============================================================================
