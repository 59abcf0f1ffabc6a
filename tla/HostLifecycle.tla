----------------------------- MODULE HostLifecycle -----------------------------
(***************************************************************************)
(* The host program: main creates its resources one after the other, runs  *)
(* an event handler per thread, waits for Enter and cleans up.  Any call   *)
(* may fail, and main then returns, or jumps to its clean-up code with     *)
(* whatever the pointers hold: app_ctx starts zeroed, but the contexts of  *)
(* the threads come from malloc.                                           *)
(*                                                                         *)
(* A resource is <<kind, owner>>, the owner being a thread or App.  The    *)
(* program is the sequence Setup of creations and the sequence TearDown of *)
(* destructions; step is its place in them.                                *)
(***************************************************************************)
EXTENDS Integers, Sequences, FiniteSets

CONSTANTS
    N,             \* threads_num
    MaxFailures    \* bound on the calls that fail in one run

ASSUME ThreadsAssumption == N \in Nat
ASSUME FailuresAssumption == MaxFailures \in Nat

Threads == 0 .. N - 1
App == -1

VARIABLES
    phase,      \* "setup", "running", "cleanup", "exited" or "crashed"
    step,       \* the next entry of Setup or TearDown
    err,        \* main's err, its exit code
    ptr,        \* what the pointer to a resource holds
    live,       \* the resources that exist
    arg,        \* a running handler's argument: offset from app_data_daddr
    failed,     \* history: the entries of Setup whose call failed
    refused,    \* history: resources still referenced when their turn came
    wild        \* history: was an invalid pointer ever destroyed?

vars == <<phase, step, err, ptr, live, arg, failed, refused, wild>>

-----------------------------------------------------------------------------
(* The program, as the order in which it creates resources.  An entry in   *)
(* Checks creates nothing but may fail like the others; two of them are    *)
(* RPCs, thd_ctx_init and the first packet of a thread.                    *)
Checks == {"malloc", "root", "mmap", "rqd_mkey_id", "init_dpa_rq_ring", "init_rq_dbr",
           "rq_tir_obj", "thd_ctx_init", "run", "first_pkt"}

app_setup == <<"malloc", "root", "ibv", "pd", "process", "window", "stream",
               "rx_matcher", "tx_matcher">>

cq_mem_alloc(dbr, ring) == <<dbr, ring>>
rq_mem_alloc == <<"rqd", "rqd_mkey", "rqd_mkey_id", "rq_ring", "rq_dbr">>
sq_mem_alloc == <<"sqd", "sqd_mkey", "sq_ring">>

create_app_rq == cq_mem_alloc("rq_cq_dbr", "rq_cq_ring") \o <<"rq_cq">> \o rq_mem_alloc
                     \o <<"init_dpa_rq_ring", "rq", "init_rq_dbr">>
create_app_sq == cq_mem_alloc("sq_cq_dbr", "sq_cq_ring") \o <<"sq_cq">> \o sq_mem_alloc
                     \o <<"sq">>

(* A bug thread_setup must not have: the handler runs before its data and   *)
(* its context are there.                                                  *)
thread_setup_run_first == <<"handler", "mmap", "mr">> \o create_app_rq \o create_app_sq
                    \o <<"rq_tir_obj", "rx_rule", "tx_rule", "tx_rule2", "run",
                         "app_data", "thd_ctx_init">>

(* A bug thread_setup must not have: the rules come before their queues.    *)
thread_setup_rules_first == <<"handler", "mmap", "mr", "rq_tir_obj", "rx_rule", "tx_rule",
                              "tx_rule2">> \o create_app_rq \o create_app_sq
                    \o <<"app_data", "thd_ctx_init", "run">>

thread_setup == <<"handler", "mmap", "mr">> \o create_app_rq \o create_app_sq
                    \o <<"rq_tir_obj", "rx_rule", "tx_rule", "tx_rule2", "app_data",
                         "thd_ctx_init", "run">>

(* A bug clean_up_app_rq must not have: the memory goes before the queue.   *)
clean_up_app_rq_memory_first == <<"rqd_mkey", "rq_dbr", "rq_ring", "rqd", "rq",
                                  "rq_cq", "rq_cq_ring", "rq_cq_dbr">>

(* The order in which it destroys them.                                    *)
clean_up_app_rq == <<"rq", "rqd_mkey", "rq_dbr", "rq_ring", "rqd",
                     "rq_cq", "rq_cq_ring", "rq_cq_dbr">>

(* A bug clean_up_app_sq must not have: the memory key is forgotten.       *)
clean_up_app_sq_no_mkey == <<"sq", "sq_ring", "sqd", "sq_cq", "sq_cq_ring", "sq_cq_dbr">>

clean_up_app_sq == <<"sq", "sqd_mkey", "sq_ring", "sqd",
                     "sq_cq", "sq_cq_ring", "sq_cq_dbr">>
clean_up_rules  == <<"rx_rule", "tx_rule", "tx_rule2">>
clean_up_matchers == <<"rx_matcher", "rx_matcher">>      \* sic
clean_up_queues == clean_up_app_sq \o clean_up_app_rq \o <<"handler">>
clean_up_app    == <<"stream", "window", "process", "ibv">>

ForApp(kinds) == [k \in 1 .. Len(kinds) |-> <<kinds[k], App>>]
ForThreads(kinds) ==
    [k \in 1 .. N * Len(kinds) |->
        <<kinds[((k - 1) % Len(kinds)) + 1], (k - 1) \div Len(kinds)>>]

(* A bug TearDown must not have: the rules outlive the queues they feed.    *)
TearDownRulesLast == ForThreads(<<"app_data">>) \o ForThreads(clean_up_queues)
                \o ForThreads(clean_up_rules) \o ForApp(clean_up_matchers)
                \o ForApp(clean_up_app)

Setup    == ForApp(app_setup) \o ForThreads(thread_setup) \o ForThreads(<<"first_pkt">>)
TearDown == ForThreads(<<"app_data">>) \o ForThreads(clean_up_rules)
                \o ForApp(clean_up_matchers) \o ForThreads(clean_up_queues)
                \o ForApp(clean_up_app)

(* A matcher whose creation fails half-way leaves what it had created so   *)
(* far (its domain at least) with no pointer to it.                        *)
Matchers == {"rx_matcher", "tx_matcher"}
Partial(kind) == IF kind = "rx_matcher" THEN <<"rx_partial", App>> ELSE <<"tx_partial", App>>

Created   == {r \in {Setup[k] : k \in 1 .. Len(Setup)} : r[1] \notin Checks}
Resources == Created \cup {Partial(kind) : kind \in Matchers}

(* Which kinds refer to which: the arguments of the calls, and the         *)
(* reference system main's comment speaks of.                              *)
References ==
    {"pd", "process", "rx_matcher", "tx_matcher", "rx_partial", "tx_partial"} \X {"ibv"}
    \cup {"window", "stream", "handler", "app_data"} \X {"process"}
    \cup {"rq_cq_dbr", "rq_cq_ring", "rq_cq", "rqd", "rqd_mkey", "rq_ring", "rq_dbr", "rq",
          "sq_cq_dbr", "sq_cq_ring", "sq_cq", "sqd", "sqd_mkey", "sq_ring", "sq"}
         \X {"process"}
    \cup {"window", "mr", "rqd_mkey", "sqd_mkey", "rq", "sq"} \X {"pd"}
    \cup {"rq_cq"} \X {"rq_cq_dbr", "rq_cq_ring", "handler"}
    \cup {"rq"} \X {"rq_cq", "rq_ring", "rq_dbr", "rqd_mkey"}
    \cup {"sq_cq"} \X {"sq_cq_dbr", "sq_cq_ring"}
    \cup {"sq"} \X {"sq_cq", "sq_ring"}
    \cup {<<"rqd_mkey", "rqd">>, <<"sqd_mkey", "sqd">>}
    \cup {"rx_rule"} \X {"rx_matcher", "rq"}
    \cup {"tx_rule", "tx_rule2"} \X {"tx_matcher"}

(* What flexio_buf_dev_free frees.                                         *)
Memory == {"rq_cq_dbr", "rq_cq_ring", "rqd", "rq_ring", "rq_dbr",
           "sq_cq_dbr", "sq_cq_ring", "sqd", "sq_ring", "app_data"}

Refers(r, s) == <<r[1], s[1]>> \in References /\ s[2] \in {App, r[2]}

-----------------------------------------------------------------------------
TypeInv ==
    /\ phase \in {"setup", "running", "cleanup", "exited", "crashed"}
    /\ step \in 1 .. (IF phase = "setup" THEN Len(Setup) ELSE Len(TearDown))
    /\ err \in {0, -1}
    /\ ptr \in [Created -> {"null", "garbage", "valid", "stale"}]
    /\ live \subseteq Resources
    /\ arg \in [Threads -> {"none", "app_data", "app_data.thd_id"}]
    /\ failed \subseteq {Setup[k] : k \in 1 .. Len(Setup)}
    /\ refused \subseteq {TearDown[k] : k \in 1 .. Len(TearDown)} /\ wild \in BOOLEAN

Init ==
    /\ phase = "setup" /\ step = 1 /\ err = 0
    /\ ptr = [r \in Created |-> IF r[2] = App THEN "null" ELSE "garbage"]
    /\ live = {} /\ arg = [t \in Threads |-> "none"]
    /\ failed = {} /\ refused = {} /\ wild = FALSE

Due   == Setup[step]    \* the creation that is due
Kind  == Due[1]

(* A bug Advance must not have: one iteration too many.                    *)
AdvanceOneMore == phase' = phase /\ step' = step + 1

Advance ==
    IF step = Len(Setup) THEN phase' = "running" /\ step' = 1
                         ELSE phase' = phase /\ step' = step + 1

(* Rules dereference their matcher, which main never compares with NULL:   *)
(* the RX rule once its TIR action is made, the others before all else.    *)
NoMatcher ==
    \/ Kind = "rx_rule" /\ ptr[<<"rx_matcher", App>>] = "null"
    \/ Kind \in {"tx_rule", "tx_rule2"} /\ ptr[<<"tx_matcher", App>>] = "null"

Crash ==
    /\ phase = "setup" /\ NoMatcher
    /\ phase' = "crashed" /\ step' = 1
    /\ UNCHANGED <<err, ptr, live, arg, failed, refused, wild>>

(* The creation succeeds.  The handler runs with thd_ctx.index, the device *)
(* address of the field thd_id.                                            *)
Create ==
    /\ phase = "setup" /\ ~NoMatcher
    /\ IF Kind \in Checks
          THEN UNCHANGED <<ptr, live>>
          ELSE ptr' = [ptr EXCEPT ![Due] = "valid"] /\ live' = live \cup {Due}
    /\ arg' = IF Kind = "run" THEN [arg EXCEPT ![Due[2]] = "app_data.thd_id"] ELSE arg
    /\ Advance
    /\ UNCHANGED <<err, failed, refused, wild>>

(* A bug Silent must not have: a failed create_app_rq is not an error.     *)
SilentRq == {"handler", "rq_tir_obj", "rq"}

(* A bug Ignored must not have: a CQ without its memory is not an error.    *)
IgnoredCq  == {"rx_matcher", "tx_matcher", "rx_rule", "tx_rule", "tx_rule2", "thd_ctx_init",
               "first_pkt", "rq_cq_dbr"}

(* The creation fails.  What main does about it depends on the call.       *)
Returning  == {"malloc", "root", "ibv", "mr"}            \* return -1
Silent     == {"handler", "rq_tir_obj"}                  \* goto cleanup
Ignored    == Matchers \cup {"rx_rule", "tx_rule", "tx_rule2", "thd_ctx_init", "first_pkt"}
Faulting   == {"mmap"}              \* MAP_FAILED is not NULL, and memset follows
(* Tested by their out-parameter, and not by their result.                 *)
Unchecked  == {"rqd", "rq_ring", "rq_dbr", "sqd", "sq_ring"}
(* Pointers assigned from a result, which is NULL.                         *)
ByResult   == Ignored \cup {"ibv", "pd", "mr", "rqd_mkey", "sqd_mkey"}

Fail ==
    /\ phase = "setup" /\ (NoMatcher => Kind = "rx_rule")
    /\ Cardinality(failed) < MaxFailures
    /\ failed' = failed \cup {Due}
    /\ IF Kind \in Checks THEN ptr' = ptr
       ELSE \E left \in IF Kind \in ByResult THEN {"null"} ELSE {"null", ptr[Due]} :
                ptr' = [ptr EXCEPT ![Due] = left]
    /\ \E rest \in IF Kind \in Matchers THEN {{}, {Partial(Kind)}} ELSE {{}} :
           live' = live \cup rest
    /\ \/ Kind \in Returning
          /\ phase' = "exited" /\ step' = 1 /\ err' = -1
       \/ Kind \in Ignored
          /\ Advance /\ err' = err
       \/ Kind \in Unchecked /\ ptr'[Due] = "garbage"     \* taken for a success
          /\ Advance /\ err' = err
       \/ Kind \in Faulting
          /\ phase' = "crashed" /\ step' = 1 /\ err' = err
       \/ Kind \notin Returning \cup Ignored \cup Faulting
          /\ phase' = "cleanup" /\ step' = 1
          /\ err' = IF Kind \in Silent THEN err ELSE -1
    /\ UNCHANGED <<arg, refused, wild>>

(* fread(stdin): Enter, or end of file.                                    *)
Enter ==
    /\ phase = "running"
    /\ phase' = "cleanup"
    /\ UNCHANGED <<step, err, ptr, live, arg, failed, refused, wild>>

-----------------------------------------------------------------------------
Victim == TearDown[step]

AdvanceCleanup ==
    IF step = Len(TearDown) THEN phase' = "exited" /\ step' = 1
                            ELSE phase' = phase /\ step' = step + 1

(* if (p && destroy(p)): a NULL pointer, or garbage that happens to be     *)
(* NULL, is passed over.                                                   *)
Skip ==
    /\ phase = "cleanup" /\ ptr[Victim] \in {"null", "garbage"}
    /\ AdvanceCleanup
    /\ UNCHANGED <<err, ptr, live, arg, failed, refused, wild>>

(* A resource that something live refers to is not destroyed; main prints  *)
(* a message and goes on.  Memory of the DPA heap has no such protection.  *)
(* No pointer is cleared.                                                  *)
Referenced == \E r \in live : Refers(r, Victim)

Destroy ==
    /\ phase = "cleanup" /\ ptr[Victim] = "valid"
    /\ refused' = IF Referenced THEN refused \cup {Victim} ELSE refused
    /\ IF Referenced /\ Victim[1] \notin Memory
          THEN UNCHANGED <<live, ptr>>
          ELSE /\ live' = live \ {Victim}
               /\ ptr' = [ptr EXCEPT ![Victim] = "stale"]
    /\ AdvanceCleanup
    /\ UNCHANGED <<err, arg, failed, wild>>

(* Undefined behaviour: garbage or an object already freed is destroyed.   *)
DestroyInvalid ==
    /\ phase = "cleanup" /\ ptr[Victim] \in {"garbage", "stale"}
    /\ wild' = TRUE
    /\ AdvanceCleanup \/ (phase' = "crashed" /\ step' = 1)
    /\ UNCHANGED <<err, ptr, live, arg, failed, refused>>

Next == Crash \/ Create \/ Fail \/ Enter \/ Skip \/ Destroy \/ DestroyInvalid

Spec == Init /\ [][Next]_vars

-----------------------------------------------------------------------------
FailedKinds == {r[1] : r \in failed}

(* On every path to the clean-up code, whichever call failed, resources    *)
(* are destroyed before what they refer to; only the device context is     *)
(* still referenced when main closes it.                                   *)
ReferencesRespected == refused \subseteq {<<"ibv", App>>}

(* With its pointers, its failures and its double destruction, main is a   *)
(* well-behaved client of the reference system: it neither uses what is    *)
(* not there yet nor frees what is still referred to, DPA memory included, *)
(* which nothing protects.                                                 *)
RefersTo == [r \in Resources |-> {s \in Resources : Refers(r, s)}]
RefSystem == INSTANCE ReferenceSystem WITH
    Resource <- Resources, Refs <- RefersTo, held <- live, lost <- failed \cap Created
ImplementsReferences == RefSystem!Spec

(* What main never destroys: the protection domain, the memory regions,    *)
(* the TX matcher, half-created matchers, and so the device context too.   *)
(* Nothing else outlives a clean-up, on any path.                          *)
LeftBehind ==
    {<<kind, App>> : kind \in {"ibv", "pd", "tx_matcher", "rx_partial", "tx_partial"}}
    \cup {"mr"} \X Threads
CleanUpComplete ==
    (phase = "exited" /\ FailedKinds \cap Returning = {}) => live \subseteq LeftBehind

(* An exit code of 0 hides only these failures: of flow rules, RPCs, an    *)
(* event handler, a TIR, and allocations whose result nobody looks at.     *)
FailureReported ==
    (phase = "exited" /\ err = 0) =>
        FailedKinds \subseteq Ignored \cup Unchecked \cup {"handler", "rq_tir_obj"}

(* "Clean up flow is done in reverse order of creation as there's a        *)
(* refernce system that won't allow destroying resources that has          *)
(* references to existing resources": after an undisturbed run, only       *)
(* resources that exist are destroyed.                                     *)
DestroysWhatExists == failed = {} => ~wild

(* "The DPA heap memory address will be passed as the event handler        *)
(* argument", the address app_data was copied to.                          *)
HandlerGetsAppData == \A t \in Threads : arg[t] \in {"none", "app_data"}

-----------------------------------------------------------------------------
(* Why: what set-up has passed exists, unless its call failed, and what is *)
(* ahead of it has not been tried;                                         *)
MadeInv ==
    phase = "setup" =>
        /\ \A k \in 1 .. step - 1 : Setup[k] \in Created => Setup[k] \in live \cup failed
        /\ \A k \in step .. Len(Setup) : Setup[k] \notin live \cup failed

(* what exists is pointed to, so that clean-up does not pass over it;      *)
ValidInv == \A r \in Created \cap live : ptr[r] = "valid"

(* and what clean-up has passed is gone, but for the device context.       *)
GoneInv ==
    /\ phase = "running" => step = 1
    /\ phase = "cleanup" =>
          \A k \in 1 .. step - 1 : TearDown[k] \in live => TearDown[k] = <<"ibv", App>>

RefIInv ==
    MadeInv /\ ValidInv /\ GoneInv /\ ReferencesRespected /\ CleanUpComplete
=============================================================================
