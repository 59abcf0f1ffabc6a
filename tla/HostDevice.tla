------------------------------ MODULE HostDevice ------------------------------
(***************************************************************************)
(* HostLifecycle with the device next to it: while main sets up and cleans *)
(* up, the NIC receives and transmits, and event handlers run.  A handler  *)
(* is activated by its first packet, reads its number, steps the CQ of the *)
(* context it names and spins, there being no scheduler (module Dispatch); *)
(* nothing tells it that main has begun to clean up.  The number is read   *)
(* from its argument, which main sets to the address of a field of its     *)
(* application data as if it were that of the data.                        *)
(***************************************************************************)
EXTENDS HostLifecycle

VARIABLES
    hpc,      \* of each handler: what it does next
    idx,      \* of a handler at "step": its i, the context it takes for its own
    ctx       \* threads whose dpa_thds_ctx the RPC thd_ctx_init has filled

devVars == <<hpc, idx, ctx>>
allVars == <<vars, devVars>>

Elsewhere == -1     \* an i that is the number of no thread

DeviceTypeInv ==
    /\ TypeInv
    /\ hpc \in [Threads -> {"idle", "latched", "step", "spin", "fault"}]
    /\ idx \in [Threads -> Threads \cup {Elsewhere}]
    /\ ctx \subseteq Threads

DeviceInit ==
    /\ Init
    /\ hpc = [t \in Threads |-> "idle"] /\ idx = [t \in Threads |-> Elsewhere] /\ ctx = {}

-----------------------------------------------------------------------------
(* Main.  Its RPC thd_ctx_init fills the context of a thread.              *)
HostCreates ==
    /\ Create
    /\ ctx' = IF Kind = "thd_ctx_init" THEN ctx \cup {Due[2]} ELSE ctx
    /\ UNCHANGED <<hpc, idx>>

HostGoesOn ==
    /\ Crash \/ Fail \/ Enter \/ Skip \/ Destroy \/ DestroyInvalid
    /\ UNCHANGED devVars

(* NIC, external: with a rule and an RQ it may receive at any time.  The   *)
(* CQ was created armed and is not armed again before the handler leaves.  *)
Running == phase \in {"setup", "running", "cleanup"}
CanReceive(t) == Running /\ {<<"rx_rule", t>>, <<"rq", t>>} \subseteq live
CanTransmit(t) == /\ Running /\ <<"sq", t>> \in live
                  /\ phase = "setup" => Kind = "first_pkt" /\ Due[2] > t

NicReceive(t) ==
    /\ CanReceive(t) /\ hpc[t] = "idle"
    /\ hpc' = [hpc EXCEPT ![t] = "latched"]
    /\ UNCHANGED <<vars, idx, ctx>>

(* The handler, up to spin_on_status, until its event handler is destroyed *)
(* or the process is gone.                                                 *)
Active(t) == Running /\ {<<"handler", t>>, <<"process", App>>} \subseteq live
HandlerStep(t, here, next) ==
    /\ Active(t) /\ hpc[t] = here /\ hpc' = [hpc EXCEPT ![t] = next]
    /\ UNCHANGED <<vars, ctx>>

(* Its first act is to read data_from_host->thd_id: given the address of   *)
(* that field for the address of the structure, it reads behind the        *)
(* allocation.                                                             *)
HandlerStarts(t) ==
    /\ arg[t] # "none" /\ HandlerStep(t, "latched", "step")
    /\ \E i \in IF arg[t] = "app_data" THEN {t} ELSE Threads \cup {Elsewhere} :
           idx' = [idx EXCEPT ![t] = i]

(* com_step_cq(&dpa_thds_ctx[i].rq_cq_ctx), and then spin_on_status.  A    *)
(* handler with the wrong number may fault, on a context that is none or   *)
(* empty, or take its first run, not_first_run being read from the same    *)
(* place, for a later one and go on to a tenant that is NULL.              *)
HandlerStepsCq(t) ==
    /\ \/ HandlerStep(t, "step", "spin")
       \/ arg[t] # "app_data" /\ HandlerStep(t, "step", "fault")
    /\ idx' = [idx EXCEPT ![t] = Elsewhere]        \* of no further use here

DeviceNext ==
    \/ HostCreates \/ HostGoesOn
    \/ \E t \in Threads : NicReceive(t) \/ HandlerStarts(t) \/ HandlerStepsCq(t)

DeviceSpec == DeviceInit /\ [][DeviceNext]_allVars

-----------------------------------------------------------------------------
(* What the NIC reads and writes to receive and to transmit.               *)
ReceiveMemory  == {"rq_ring", "rq_dbr", "rqd", "rqd_mkey", "rq_cq", "rq_cq_ring", "rq_cq_dbr"}
TransmitMemory == {"sq_ring", "sqd", "sqd_mkey", "sq_cq", "sq_cq_ring", "sq_cq_dbr"}

(* On every path through set-up, failure and clean-up, as long as the NIC  *)
(* may use a queue all of its memory exists, but for an allocation whose   *)
(* failure nobody noticed.                                                 *)
NicTouchesLiveMemory ==
    \A t \in Threads :
        /\ CanReceive(t)  => ReceiveMemory \X {t} \subseteq live \cup failed
        /\ CanTransmit(t) => TransmitMemory \X {t} \subseteq live \cup failed

(* When the handler of a thread or its first packet is under way, main has *)
(* created all the thread needs, but for what nobody checks, and filled    *)
(* its context, unless the RPC failed, which main does not look at.        *)
Filled(t) == t \in ctx \/ <<"thd_ctx_init", t>> \in failed
Prepared  == (ReceiveMemory \cup TransmitMemory \cup {"handler", "app_data", "rq", "sq"})
                 \ Unchecked
InUse(t)  == \/ phase \in {"setup", "running"} /\ hpc[t] \in {"step", "spin", "fault"}
             \/ phase = "setup" /\ Due = <<"first_pkt", t>>
PreparedBeforeUse ==
    \A t \in Threads : InUse(t) => Prepared \X {t} \subseteq live /\ Filled(t)

(* Until the clean-up begins, a handler that steps the CQ of some thread's *)
(* context, its own or another's that set-up has just filled, writes to a  *)
(* doorbell record that exists.  Of an empty context it says nothing.      *)
StepsLiveCq ==
    \A t \in Threads :
        Active(t) /\ phase # "cleanup" /\ hpc[t] = "step" /\ idx[t] \in ctx =>
            <<"rq_cq_dbr", idx[t]>> \in live

-----------------------------------------------------------------------------
(* Why: an unreported failure has left err alone, and only these do.       *)
FailInv ==
    err = 0 /\ phase # "crashed" => FailedKinds \subseteq Ignored \cup Unchecked \cup Silent

(* Unless the RPC failed, a context is filled once set-up has passed its   *)
(* place, so before "run" gives the handler its argument.                  *)
CtxInv ==
    /\ phase = "setup" =>
          \A k \in 1 .. step - 1, t \in Threads :
              Setup[k] = <<"thd_ctx_init", t>> => Filled(t)
    /\ \A t \in Threads :
          arg[t] # "none" \/ hpc[t] \in {"step", "spin", "fault"} => Filled(t)

(* What set-up has passed exists, until clean-up begins.                   *)
Noticed == Created \ (Ignored \cup Unchecked) \X (Threads \cup {App})
PassedInv ==
    /\ phase = "setup" =>
          \A k \in 1 .. step - 1 : Setup[k] \in Noticed => Setup[k] \in live
    /\ phase = "running" =>
          \A k \in 1 .. Len(Setup) : Setup[k] \in Noticed => Setup[k] \in live

(* A handler runs once set-up has passed its "run", and its context is     *)
(* filled once set-up has passed the RPC.                                  *)
RanInv ==
    \A t \in Threads :
        /\ hpc[t] \in {"step", "spin", "fault"} => arg[t] # "none"
        /\ t \in ctx /\ phase = "setup" =>
              \E k \in 1 .. step - 1 : Setup[k] = <<"thd_ctx_init", t>>
        /\ arg[t] # "none" /\ phase = "setup" =>
              \E k \in 1 .. step - 1 : Setup[k] = <<"run", t>>

(* What a live resource needs exists, unless it was lost: what it refers   *)
(* to, and what the NIC uses through it.                                   *)
Uses == References \cup {"rx_rule"} \X ReceiveMemory \cup {"sq"} \X TransmitMemory
Needs(r, s) == <<r[1], s[1]>> \in Uses /\ s[2] \in {App, r[2]}
NeedsInv == \A r \in live, s \in Resources : Needs(r, s) => s \in live \cup failed
OrderIInv == TypeInv /\ RefIInv /\ NeedsInv

DeviceIInv == DeviceTypeInv /\ FailInv /\ CtxInv /\ PassedInv /\ RanInv
=============================================================================
