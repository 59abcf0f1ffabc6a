------------------------ MODULE DispatchServiceProofs ------------------------
(***************************************************************************)
(* Scheduler and handlers implement the service of their queues            *)
(* (QueueService), for every number of threads, either handler for each of *)
(* them, and every bound.                                                  *)
(***************************************************************************)
EXTENDS DispatchProofs

(* What the refinement mapping makes of the state.                         *)
serviceVars == <<sch_not_first_run, qPi, qCi, spent, reported>>

(* What a thread may do to the service of its queue.                       *)
ServesOwn(t) == Service!Serve(t) \/ Service!Charge(t) \/ UNCHANGED serviceVars

(* The serving of one queue depends on its own counters and its thread.    *)
LEMMA ServingFrame ==
    ASSUME NEW t \in Threads, Serving(t), tpc'[t] = tpc[t], qCi'[t] = qCi[t],
           spent'[t] = spent[t], qPi[t] \in Nat, qPi'[t] \in Nat, qCi[t] \in Nat,
           spent[t] \in Nat, qPi'[t] >= qPi[t]
    PROVE  Serving(t)'
  BY DEF Serving, Working, Half

(* A thread serves and charges the queue it was released with, in the      *)
(* order of its handler, and no packet that is not there.                  *)
LEMMA ThreadServes ==
    ASSUME IInv, NEW t \in Threads, Serving(t), Thread(t)
    PROVE  /\ Serving(t)' /\ ServesOwn(t)
           /\ \A u \in Threads \ {t} : qCi'[u] = qCi[u] /\ spent'[u] = spent[u]
           /\ qPi' = qPi
  <1> USE DEF TypeInv, Serving, Half, Working, Goto, ServesOwn, serviceVars,
          Service!Serve, Service!Charge
  <1>0. /\ TypeInv /\ (Working(t) => this_tenant[t] = t /\ sch_not_first_run)
        /\ qPi[t] \in Nat /\ qCi[t] \in Nat /\ spent[t] \in Nat
    BY DEF IInv, AssignedInv, ReleasedInv, Released
  <1>1. CASE Activate(t)
    BY <1>0, <1>1 DEF Activate, schVars, queueVars, histVars
  <1>2. CASE LoadStatus(t)
    BY <1>0, <1>2 DEF LoadStatus, schVars, queueVars, histVars
  <1>3. CASE StoreFree(t)
    BY <1>0, <1>3 DEF StoreFree, schVars, queueVars, histVars
  <1>4. CASE StepOwnCq(t)
    BY <1>0, <1>4 DEF StepOwnCq, schVars, queueVars, histVars
  <1>5. CASE SpinOnStatus(t)
    BY <1>0, <1>5 DEF SpinOnStatus, schVars, queueVars, histVars
  <1>6. CASE LoadTenant(t)
    BY <1>0, <1>6 DEF LoadTenant, schVars, queueVars, histVars
  <1>7. CASE PpQueue(t)
    BY SMTT(20), <1>0, <1>7 DEF PpQueue, schVars, queueVars, histVars
  <1>8. CASE Account1(t)
    BY <1>0, <1>8 DEF Account1, AddCycles, schVars, queueVars
  <1>9. CASE Step1(t)
    BY SMTT(20), <1>0, <1>9 DEF Step1, StepTenantCq, schVars, histVars
  <1>10. CASE Step2(t)
    BY <1>0, <1>10 DEF Step2, StepTenantCq, schVars, histVars
  <1>11. CASE Account2(t)
    <2>1. spent' = [spent EXCEPT ![t] = @ + 1] /\ t \notin Tnt1
      BY <1>11 DEF Account2, AddCycles
    <2>2. UNCHANGED <<qPi, qCi, sch_not_first_run, reported>>
      BY <1>11 DEF Account2, schVars, queueVars
    <2>3. tpc[t] = "account" /\ tpc'[t] \in {"arm", "poll"}
      BY <1>0, <1>11 DEF Account2
    <2>4. qCi[t] = spent[t] + 1 /\ spent[t] < qPi[t]
      BY <1>0, <2>1, <2>3
    <2>5. Serving(t)'
      BY SMTT(20), <1>0, <2>1, <2>2, <2>3, <2>4
    <2>6. Service!Charge(t)
      BY <1>0, <2>1, <2>2, <2>3, <2>4
    <2>7. QED
      BY <1>0, <2>1, <2>2, <2>5, <2>6
  <1>12. CASE ArmOwnCq(t)
    BY <1>0, <1>12 DEF ArmOwnCq, schVars, queueVars, histVars
  <1>13. CASE StoreOff(t)
    BY <1>0, <1>13 DEF StoreOff, schVars, queueVars, histVars
  <1>14. QED
    BY <1>1, <1>2, <1>3, <1>4, <1>5, <1>6, <1>7, <1>8, <1>9, <1>10, <1>11,
         <1>12, <1>13 DEF Thread

(* The scheduler opens the queues once, without losing anything, and bills *)
(* what was charged; nothing else it does touches the service.             *)
LEMMA SchedulerServes ==
    ASSUME IInv, CyclesAccounted, Scheduler
    PROVE  /\ UNCHANGED <<tpc, qPi, qCi, spent>>
           /\ \/ Service!Open \/ (\E t \in Threads : Service!Bill(t))
              \/ UNCHANGED serviceVars
  <1> USE DEF TypeInv, serviceVars, threadVars, schVars, queueVars, histVars
  <1>0. TypeInv /\ FirstRunInv /\ SchedulerInv  BY DEF IInv
  <1>1. CASE SchActivate
    BY <1>0, <1>1 DEF SchActivate
  <1>2. CASE SchCtxInit
    <2>1. qCi' = qCi
      BY <1>0, <1>2 DEF SchCtxInit, SchedulerInv, FirstRunInv
    <2>2. ~sch_not_first_run /\ sch_not_first_run'
      BY <1>0, <1>2 DEF SchCtxInit, SchedulerInv
    <2>3. UNCHANGED <<tpc, qPi, spent, reported>>
      BY <1>2 DEF SchCtxInit
    <2>4. QED
      BY <1>0, <2>1, <2>2, <2>3 DEF Service!Open
  <1>3. CASE WakeLoad
    BY <1>0, <1>3 DEF WakeLoad, LookAt
  <1>4. CASE WakeReady
    BY <1>0, <1>4 DEF WakeReady, LookAt
  <1>5. CASE WakeMsix
    BY <1>0, <1>5 DEF WakeMsix
  <1>6. CASE AssignTenant
    BY <1>0, <1>6 DEF AssignTenant
  <1>7. CASE HangAssigned
    BY <1>0, <1>7 DEF HangAssigned
  <1>8. CASE CheckTime
    BY <1>0, <1>8 DEF CheckTime
  <1>9. CASE ScanLoadOff
    BY <1>0, <1>9 DEF ScanLoadOff, LookAt
  <1>10. CASE ScanReady
    BY <1>0, <1>10 DEF ScanReady, LookAt
  <1>11. CASE ScanMsix
    BY <1>0, <1>11 DEF ScanMsix
  <1>12. CASE ScanLoadFree
    BY <1>0, <1>12 DEF ScanLoadFree, LookAt
  <1>13. CASE ScanHang
    BY <1>0, <1>13 DEF ScanHang
  <1>14. CASE ReportReset
    BY <1>0, <1>14 DEF ReportReset
  <1>15. CASE Collect
    <2>1. j \in Threads /\ sch_not_first_run
      BY <1>0, <1>15 DEF Collect, SchedulerInv
    <2>2. reported[j] + busy_cycle[j] = spent[j]
      BY <2>1 DEF CyclesAccounted
    <2>3. reported' = [reported EXCEPT ![j] = spent[j]]
      BY <1>15, <2>2 DEF Collect
    <2>4. UNCHANGED <<tpc, qPi, qCi, spent, sch_not_first_run>>
      BY <1>15 DEF Collect
    <2>5. Service!Bill(j)
      BY <2>1, <2>3, <2>4 DEF Service!Bill
    <2>6. QED
      BY <2>1, <2>4, <2>5
  <1>16. CASE LoadCqIdx
    BY <1>0, <1>16 DEF LoadCqIdx
  <1>17. CASE ArmQueue
    BY <1>0, <1>17 DEF ArmQueue
  <1>18. QED
    BY <1>1, <1>2, <1>3, <1>4, <1>5, <1>6, <1>7, <1>8, <1>9, <1>10, <1>11,
         <1>12, <1>13, <1>14, <1>15, <1>16, <1>17 DEF Scheduler

(* Outside, only the NIC touches the service: a packet arrives.            *)
LEMMA OutsideServes ==
    ASSUME TypeInv, NEW t \in Threads,
           HostStartsThread(t) \/ NicReceive(t) \/ NicReceiveOwn(t)
    PROVE  /\ UNCHANGED <<tpc, qCi, spent>>
           /\ \A u \in Threads : qPi'[u] \in Nat /\ qPi'[u] >= qPi[u]
           /\ Service!Arrive(t) \/ UNCHANGED serviceVars
  <1> USE DEF TypeInv, serviceVars, threadVars, schVars, queueVars, histVars
  <1>1. CASE HostStartsThread(t)
    BY <1>1 DEF HostStartsThread, ThdCtxInit, EventHandlerRun
  <1>2. CASE NicReceive(t)
    <2>1. qPi[t] - qCi[t] < Depth /\ qPi' = [qPi EXCEPT ![t] = @ + 1]
      BY <1>2 DEF NicReceive
    <2>2. UNCHANGED <<tpc, sch_not_first_run, qCi, spent, reported>>
      BY <1>2 DEF NicReceive
    <2>3. Service!Arrive(t)
      BY <2>1, <2>2 DEF Service!Arrive
    <2>4. qPi \in [Threads -> Nat]
      OBVIOUS
    <2>5. qPi' \in [Threads -> Nat]
      BY <2>1, <2>4, CountUp
    <2>6. \A u \in Threads : qPi'[u] >= qPi[u]
      BY <2>1, <2>4, CountGrows
    <2>7. QED
      BY <2>2, <2>3, <2>5, <2>6
  <1>3. CASE NicReceiveOwn(t)
    BY <1>3 DEF NicReceiveOwn
  <1>4. QED
    BY <1>1, <1>2, <1>3

-----------------------------------------------------------------------------
(* Every step is one of the service, or does not touch it, and leaves      *)
(* every queue with at most one packet between serving and charging.       *)
LEMMA ServiceStep ==
    ASSUME IInv, CyclesAccounted, ServiceInv, [Next]_vars
    PROVE  ServiceInv' /\ (Service!Next \/ UNCHANGED serviceVars)
  <1>0. /\ TypeInv
        /\ \A t \in Threads : Serving(t) /\ qPi[t] \in Nat /\ qCi[t] \in Nat
                              /\ spent[t] \in Nat
    BY DEF IInv, TypeInv, ServiceInv
  <1>1. ASSUME NEW t \in Threads, Thread(t)
        PROVE  ServiceInv' /\ (Service!Next \/ UNCHANGED serviceVars)
    <2>1. /\ Serving(t)' /\ ServesOwn(t) /\ qPi' = qPi
          /\ \A u \in Threads \ {t} : qCi'[u] = qCi[u] /\ spent'[u] = spent[u]
      BY <1>0, <1>1, ThreadServes
    <2>2. \A u \in Threads \ {t} : tpc'[u] = tpc[u]
      BY <1>0, <1>1, ThreadFrame
    <2>3. ASSUME NEW u \in Threads \ {t} PROVE Serving(u)'
      BY <1>0, <2>1, <2>2, ServingFrame
    <2>4. ServiceInv'
      BY <2>1, <2>3 DEF ServiceInv
    <2>5. QED
      BY <2>1, <2>4 DEF ServesOwn, Service!Next
  <1>2. CASE Scheduler
    <2>1. UNCHANGED <<tpc, qPi, qCi, spent>>
      BY <1>2, SchedulerServes
    <2>2. \A u \in Threads : Serving(u)'
      BY <1>0, <2>1, ServingFrame
    <2>3. QED
      BY <1>2, <2>2, SchedulerServes DEF ServiceInv, Service!Next
  <1>3. ASSUME NEW t \in Threads,
               HostStartsThread(t) \/ NicReceive(t) \/ NicReceiveOwn(t)
        PROVE  ServiceInv' /\ (Service!Next \/ UNCHANGED serviceVars)
    <2>1. /\ UNCHANGED <<tpc, qCi, spent>>
          /\ \A u \in Threads : qPi'[u] \in Nat /\ qPi'[u] >= qPi[u]
          /\ Service!Arrive(t) \/ UNCHANGED serviceVars
      BY <1>0, <1>3, OutsideServes
    <2>2. \A u \in Threads : Serving(u)'
      BY <1>0, <2>1, ServingFrame
    <2>3. QED
      BY <2>1, <2>2 DEF ServiceInv, Service!Next
  <1>4. CASE UNCHANGED vars
    <2>1. UNCHANGED <<tpc, serviceVars>>
      BY <1>4 DEF vars, serviceVars, threadVars, schVars, queueVars, histVars
    <2>2. \A u \in Threads : Serving(u)'
      BY <1>0, <2>1, ServingFrame DEF serviceVars
    <2>3. QED
      BY <2>1, <2>2 DEF ServiceInv
  <1>5. QED
    BY <1>1, <1>2, <1>3, <1>4 DEF Next

(* The queues start unopened, empty, unserved and uncharged.               *)
LEMMA ServiceInit == Init => ServiceInv /\ Service!Init
  <1>1. Init => ServiceInv
    BY DEF Init, ServiceInv, Serving, Working, Half
  <1>2. Init => Service!Init
    BY DEF Init, Service!Init, Service!Zero
  <1>3. QED
    BY <1>1, <1>2

(* Between the poll that found a packet and its accounts there is at most  *)
(* one packet per queue, and it has arrived: flexio_pp_dev_1 charges it    *)
(* first, flexio_pp_dev_2 gives its entry back first.                      *)
THEOREM ServiceInvariance == Spec => []ServiceInv
  <1>1. IInv /\ CyclesAccounted /\ ServiceInv /\ [Next]_vars => ServiceInv'
    BY ServiceStep
  <1>2. QED
    BY <1>1, ServiceInit, DispatchInvariance, CyclesSafe, PTL DEF Spec

(* Whatever scheduler and threads overwrite of each other's words, every   *)
(* packet is served and charged once, after it arrived and after           *)
(* sch_ctx_init, and a report covers all the cycles used before it.        *)
THEOREM RefinesService == Spec => ImplementsService
  <1>1. IInv /\ CyclesAccounted /\ ServiceInv /\ [Next]_vars
          => [Service!Next]_serviceVars
    BY ServiceStep
  <1>2. [Service!Next]_serviceVars
          => [Service!Next]_<<sch_not_first_run, qPi, qCi, spent, reported>>
    BY DEF serviceVars
  <1>3. QED
    BY <1>1, <1>2, ServiceInit, ServiceInvariance, DispatchInvariance, CyclesSafe,
       PTL DEF Spec, ImplementsService, Service!Spec
=============================================================================
