----------------------------- MODULE Coroutines -----------------------------
(***************************************************************************)
(* util/async/Coroutines.hpp, CoroCore.hpp and detail/Coroutines.hpp: jobs *)
(* at the level of their atomics.                                          *)
(*                                                                         *)
(* A parent starts the jobs 1 .. N, each of which goes on in a thread of   *)
(* its own, and suspends until all of them are ready.  A notifier for each *)
(* is its continuation, or goes on at once when the job is ready before    *)
(* that.  Viewers hold copies of the jobs that are shared, look at them or *)
(* block on them.                                                          *)
(*                                                                         *)
(* A step is one operation on an atomic, with what a thread does on its    *)
(* own around it.  The operations on one atomic are in one order; every    *)
(* use of what another thread wrote has an acquire of a release behind it. *)
(***************************************************************************)
EXTENDS Integers, FiniteSets

CONSTANTS N,        \* the jobs that the parent awaits are 1 .. N
          Shared,   \* the jobs that become a SharedJob
          Viewers,  \* who may hold a SharedJob
          Parent,   \* the coroutine that holds the others
          MaxJobs   \* bound of the jobs that are started

Awaited == 1 .. N
Jobs    == Awaited \cup Shared
Holders == Viewers \cup {Parent}
Promise == "promise"  \* the handle that a promise has of its own frame

ASSUME JobsAssumption == /\ N \in Nat \ {0} /\ MaxJobs \in Nat
                         /\ Shared \cap Nat = {}
                         /\ IsFiniteSet(Viewers)
                         /\ Parent \notin Viewers /\ Promise \notin Holders

VARIABLES
    job,        \* job[c]: where the thread that runs c is
    result,     \* result[c]: result_value_
    ready,      \* the flag of packed_state_
    continued,  \* its other bits: the notifier is the continuation
    owners,     \* owners[c]: whose handles refer to the frame of c
    refcount,   \* refcount[c]: what these share
    frames,     \* the jobs whose frame exists
    parent,     \* where the parent is
    index,      \* of the loop over the jobs, in the parent
    notifier,   \* notifier[c]: where the CompletionNotifier of c is
    state,      \* the WhenAllState, in the frame of the parent
    viewer      \* viewer[v]: the job that v looks at, and where it is

heap    == <<owners, refcount, frames>>
jobs    == <<job, result, ready, continued>>
join    == <<parent, index, notifier, state>>
vars    == <<jobs, heap, join, viewer>>

Results == {"value", "exception"}
Idle    == [at |-> "idle"]
At(place, c) == [at |-> place, of |-> c]

TypeOK ==
    /\ job \in [Jobs -> {"unborn", "running", "stored", "ready", "notified",
                    "continuing", "leaving", "done"}]
    /\ result \in [Jobs -> Results \cup {"none"}]
    /\ ready \in [Jobs -> BOOLEAN] /\ continued \in [Jobs -> BOOLEAN]
    /\ owners \in [Jobs -> SUBSET (Holders \cup {Promise})]
    /\ refcount \in [Jobs -> Nat]
    /\ frames \subseteq Jobs
    /\ parent \in {"starting", "joining", "suspended", "resumed", "passed", "failed"}
    /\ index \in 1 .. N + 1
    /\ notifier \in [Awaited -> {"unborn", "setting", "waiting", "resumed", "throwing",
                                 "storing", "counting", "gone"}]
    /\ state \in [kind : {"none", "until_all_ready", "until_all_succeed"},
                  num_remaining : 0 .. N,
                  exception_is_set : BOOLEAN, exception : BOOLEAN]
    /\ viewer \in [Viewers -> {Idle} \cup {At(place, c) :
                      place \in {"loading", "loaded", "asleep", "getting"}, c \in Shared}]

Init ==
    /\ job = [c \in Jobs |-> "unborn"]
    /\ result = [c \in Jobs |-> "none"]
    /\ ready = [c \in Jobs |-> FALSE] /\ continued = [c \in Jobs |-> FALSE]
    /\ owners = [c \in Jobs |-> {}] /\ refcount = [c \in Jobs |-> 0]
    /\ frames = {}
    /\ parent = "starting" /\ index = 1
    /\ notifier = [c \in Awaited |-> "unborn"]
    /\ state = [kind |-> "none", num_remaining |-> N,
                exception_is_set |-> FALSE, exception |-> FALSE]
    /\ viewer = [v \in Viewers |-> Idle]

-----------------------------------------------------------------------------
(* Handles *)

\* Mutant: a copy is not counted.
CopyOnly(c, h) == /\ owners' = [owners EXCEPT ![c] = owners[c] \cup {h}]
                  /\ UNCHANGED refcount

(* shared_coroutine_handle: copied, and let go of. *)
Acquire(c, h) == /\ owners' = [owners EXCEPT ![c] = owners[c] \cup {h}]
                 /\ refcount' = [refcount EXCEPT ![c] = refcount[c] + 1]

Release(c, h) ==
    /\ owners' = [owners EXCEPT ![c] = owners[c] \ {h}]
    /\ refcount' = [refcount EXCEPT ![c] = refcount[c] - 1]
    /\ frames' = IF refcount[c] = 1 THEN frames \ {c} ELSE frames

MayStart(c) == job[c] = "unborn" /\ Cardinality({d \in Jobs : job[d] # "unborn"}) < MaxJobs

\* Mutant: the promise does not own its frame.
MakeUnowned(c, h) ==
    /\ MayStart(c)
    /\ job' = [job EXCEPT ![c] = "running"]
    /\ owners' = [owners EXCEPT ![c] = {h}]
    /\ refcount' = [refcount EXCEPT ![c] = 1]
    /\ frames' = frames \cup {c}

(* Job(): the handle of the Job, and a copy of it for the promise. *)
Make(c, h) ==
    /\ MayStart(c)
    /\ job' = [job EXCEPT ![c] = "running"]
    /\ owners' = [owners EXCEPT ![c] = {h, Promise}]
    /\ refcount' = [refcount EXCEPT ![c] = 2]
    /\ frames' = frames \cup {c}

-----------------------------------------------------------------------------
(* The thread of a job *)

Goes(c, from, to) == job[c] = from /\ job' = [job EXCEPT ![c] = to]

(* return_value() or unhandled_exception(). *)
Return(c) ==
    /\ Goes(c, "running", "stored")
    /\ \E r \in Results : result' = [result EXCEPT ![c] = r]
    /\ UNCHANGED <<ready, continued, heap, join, viewer>>

became_ready(c) ==
    /\ Goes(c, "stored", "ready")
    /\ ready' = [ready EXCEPT ![c] = TRUE]
    /\ UNCHANGED <<result, continued, heap, join, viewer>>

(* notify_all() of the atomic. *)
NotifyAll(c) ==
    /\ Goes(c, "ready", "notified")
    /\ viewer' = [v \in Viewers |-> IF viewer[v] = At("asleep", c) THEN At("loading", c)
                                    ELSE viewer[v]]
    /\ UNCHANGED <<result, ready, continued, heap, join>>

(* The awaiter of final_suspend() looks for a continuation before it lets go. *)
LookForContinuation(c) ==
    /\ Goes(c, "notified", IF continued[c] THEN "continuing" ELSE "leaving")
    /\ UNCHANGED <<result, ready, continued, heap, join, viewer>>

(* It lets go of the frame, and this thread resumes the notifier. *)
FinalSuspend(c) ==
    /\ \/ Goes(c, "continuing", "done")
          /\ notifier' = [notifier EXCEPT ![c] = "resumed"]
       \/ Goes(c, "leaving", "done")
          /\ UNCHANGED notifier
    /\ Release(c, Promise)
    /\ UNCHANGED <<result, ready, continued, parent, index, state, viewer>>

JobStep(c) == \/ Return(c) \/ became_ready(c) \/ NotifyAll(c)
              \/ LookForContinuation(c) \/ FinalSuspend(c)

-----------------------------------------------------------------------------
(* The parent: starts jobs, suspends, lets go *)

StartNext ==
    /\ parent = "starting" /\ index <= N
    /\ Make(index, Parent)
    /\ index' = index + 1
    /\ UNCHANGED <<result, ready, continued, parent, notifier, state, viewer>>

(* What starts jobs may throw: the Jobs that are there go as locals do. *)
Throw ==
    /\ parent = "starting"
    /\ parent' = "failed"
    /\ UNCHANGED <<jobs, heap, index, notifier, state, viewer>>

AwaitAll(kind) ==
    /\ parent = "starting" /\ index = N + 1
    /\ parent' = "joining" /\ index' = 1
    /\ state' = [state EXCEPT !.kind = kind]
    /\ UNCHANGED <<jobs, heap, notifier, viewer>>

AwaitResume ==
    /\ parent = "resumed"
    /\ parent' = IF state.kind = "until_all_succeed" /\ state.exception THEN "failed" ELSE "passed"
    /\ UNCHANGED <<jobs, heap, index, notifier, state, viewer>>

(* The results are read, and the Jobs destroyed. *)
DropJob(c) ==
    /\ parent \in {"passed", "failed"} /\ Parent \in owners[c]
    /\ Release(c, Parent)
    /\ UNCHANGED <<jobs, join, viewer>>

-----------------------------------------------------------------------------
(* The notifiers.  The parent runs the one at index; the others are run by   *)
(* the threads of their jobs.  The loop goes on when a notifier returns.     *)

InLoop(c)  == parent = "joining" /\ index = c
NextInLoop == IF index < N THEN index' = index + 1 /\ UNCHANGED parent
              ELSE parent' = "suspended" /\ UNCHANGED index

NotifierGoes(c, from, to) == notifier[c] = from /\ notifier' = [notifier EXCEPT ![c] = to]

Notify(c) ==
    /\ InLoop(c)
    /\ NotifierGoes(c, "unborn", IF ready[c] THEN "resumed" ELSE "setting")
    /\ UNCHANGED <<jobs, heap, parent, index, state, viewer>>

\* Mutant: the continuation is stored, whatever was there.
SetUnlessThere(c) ==
    /\ NotifierGoes(c, "setting", "waiting")
    /\ continued' = [continued EXCEPT ![c] = TRUE]
    /\ NextInLoop
    /\ UNCHANGED <<job, result, ready, heap, state, viewer>>

try_set_continuation(c) ==
    /\ IF ready[c]
       THEN /\ NotifierGoes(c, "setting", "resumed")
            /\ UNCHANGED <<continued, parent, index>>
       ELSE /\ NotifierGoes(c, "setting", "waiting")
            /\ continued' = [continued EXCEPT ![c] = TRUE]
            /\ NextInLoop
    /\ UNCHANGED <<job, result, ready, heap, state, viewer>>

(* await_resume() of the Job rethrows what the job threw. *)
GetResult(c) ==
    /\ NotifierGoes(c, "resumed", IF result[c] = "exception" THEN "throwing" ELSE "counting")
    /\ UNCHANGED <<jobs, heap, parent, index, state, viewer>>

(* unhandled_exception() of the notifier: the first exception stays. *)
TestAndSet(c) ==
    /\ NotifierGoes(c, "throwing", IF state.exception_is_set THEN "counting" ELSE "storing")
    /\ state' = [state EXCEPT !.exception_is_set = TRUE]
    /\ UNCHANGED <<jobs, heap, parent, index, viewer>>

SetException(c) ==
    /\ NotifierGoes(c, "storing", "counting")
    /\ state' = [state EXCEPT !.exception = TRUE]
    /\ UNCHANGED <<jobs, heap, parent, index, viewer>>

\* Mutant: the count after the decrement is compared.
CountDownToOne(c) ==
    /\ NotifierGoes(c, "counting", "gone")
    /\ state' = [state EXCEPT !.num_remaining = state.num_remaining - 1]
    /\ IF state'.num_remaining = 1 THEN parent' = "resumed" /\ UNCHANGED index
       ELSE IF InLoop(c) THEN NextInLoop
       ELSE UNCHANGED <<parent, index>>
    /\ UNCHANGED <<jobs, heap, viewer>>

(* final_suspend() of the notifier: the last one resumes the parent. *)
CountDown(c) ==
    /\ NotifierGoes(c, "counting", "gone")
    /\ state' = [state EXCEPT !.num_remaining = state.num_remaining - 1]
    /\ IF state.num_remaining = 1 THEN parent' = "resumed" /\ UNCHANGED index
       ELSE IF InLoop(c) THEN NextInLoop
       ELSE UNCHANGED <<parent, index>>
    /\ UNCHANGED <<jobs, heap, viewer>>

NotifierStep(c) == \/ Notify(c) \/ try_set_continuation(c) \/ GetResult(c)
                   \/ TestAndSet(c) \/ SetException(c) \/ CountDown(c)

-----------------------------------------------------------------------------
(* Who holds a SharedJob *)

StartShared(v, c) ==
    /\ viewer[v] = Idle
    /\ Make(c, v)
    /\ UNCHANGED <<result, ready, continued, join, viewer>>

Copy(v, w, c) ==
    /\ viewer[v] = Idle /\ viewer[w] = Idle
    /\ v \in owners[c] /\ w \notin owners[c]
    /\ Acquire(c, w)
    /\ UNCHANGED <<jobs, frames, join, viewer>>

ViewerGoes(v, from, to, c) == viewer[v] = from /\ viewer' = [viewer EXCEPT ![v] = to]

(* is_ready(), and the result when it is. *)
Poll(v, c) ==
    /\ v \in owners[c] /\ ready[c]
    /\ ViewerGoes(v, Idle, At("getting", c), c)
    /\ UNCHANGED <<jobs, heap, join>>

(* wait_until_ready(): look, block while nothing has changed, look again. *)
Wait(v, c) ==
    /\ v \in owners[c]
    /\ ViewerGoes(v, Idle, At("loading", c), c)
    /\ UNCHANGED <<jobs, heap, join>>

Load(v, c) ==
    /\ ViewerGoes(v, At("loading", c), At(IF ready[c] THEN "getting" ELSE "loaded", c), c)
    /\ UNCHANGED <<jobs, heap, join>>

Block(v, c) ==
    /\ ViewerGoes(v, At("loaded", c), At(IF ready[c] THEN "loading" ELSE "asleep", c), c)
    /\ UNCHANGED <<jobs, heap, join>>

GetShared(v, c) ==
    /\ ViewerGoes(v, At("getting", c), Idle, c)
    /\ UNCHANGED <<jobs, heap, join>>

DropShared(v, c) ==
    /\ viewer[v] = Idle /\ v \in owners[c]
    /\ Release(c, v)
    /\ UNCHANGED <<jobs, join, viewer>>

Blocked(v, c) == Load(v, c) \/ Block(v, c) \/ GetShared(v, c)

ViewerStep(v, c) == \/ StartShared(v, c) \/ Poll(v, c) \/ Wait(v, c) \/ Blocked(v, c)
                    \/ DropShared(v, c)
                    \/ \E w \in Viewers : Copy(v, w, c)

-----------------------------------------------------------------------------

ParentStep == \/ StartNext \/ Throw \/ AwaitResume
              \/ \E kind \in {"until_all_ready", "until_all_succeed"} : AwaitAll(kind)
              \/ \E c \in Awaited : DropJob(c)

Next == \/ \E c \in Jobs : JobStep(c)
        \/ \E c \in Awaited : NotifierStep(c)
        \/ \E v \in Viewers, c \in Shared : ViewerStep(v, c)
        \/ ParentStep

(* Threads run.  A body returns, and who blocks goes on when it can.  Nobody *)
(* has to start a job, await one, or look at one.                            *)
Fairness == /\ \A c \in Jobs : WF_vars(JobStep(c))
            /\ \A c \in Awaited : WF_vars(NotifierStep(c))
            /\ \A v \in Viewers, c \in Shared : WF_vars(Blocked(v, c))
            /\ WF_vars(AwaitResume)

Spec     == Init /\ [][Next]_vars
FairSpec == Spec /\ Fairness

-----------------------------------------------------------------------------
(* Properties *)

(* Who is still to read or write the frame of c: the thread that runs it,    *)
(* the notifier, whoever is looking at its result.                           *)
Running(c)  == job[c] \notin {"unborn", "done"}
Notified(c) == \/ notifier[c] \in {"setting", "waiting", "resumed"}
               \/ notifier[c] = "unborn" /\ parent = "joining"
InUse(c)    == \/ Running(c)
               \/ c \in Awaited /\ Notified(c)
               \/ \E v \in Viewers : viewer[v] # Idle /\ viewer[v].of = c

(* A frame is there for as long as somebody has a handle of it, as many as   *)
(* the count says, and whoever still uses the frame has one, directly or     *)
(* through who waits for it.                                                 *)
FramesOutliveTheirUse ==
    \A c \in Jobs : /\ InUse(c) => c \in frames
                    /\ c \in frames <=> owners[c] # {}
                    /\ refcount[c] = Cardinality(owners[c])

(* The WhenAllState goes with the expression that the parent awaits: when it *)
(* has resumed, no notifier will touch it, nor does the loop go on.          *)
StateOutlivesNotifiers ==
    parent \notin {"joining", "suspended"} =>
        \A c \in Awaited : notifier[c] \in {"unborn", "gone"}

(* No memory of a job or a join is used after it is gone, and none is left.  *)
MemoryIsSafe == FramesOutliveTheirUse /\ StateOutlivesNotifiers

(* What is seen from outside is what JobJoin says of jobs, however the       *)
(* threads of the jobs, of the parent and of the viewers take turns.         *)
Outcome(c) == IF ready[c] THEN result[c] ELSE IF job[c] = "unborn" THEN "unborn" ELSE "running"

ParentSeen == IF state.kind = "none" THEN "free"
              ELSE CASE parent = "passed" -> "resumed"
                     [] parent = "failed" -> "failed"
                     [] OTHER -> state.kind

AsJoin == INSTANCE JobJoin WITH outcome <- [c \in Jobs |-> Outcome(c)],
                                held <- [c \in Jobs |-> owners[c] \ {Promise}],
                                parent <- ParentSeen

ImplementsJoin == AsJoin!Spec

(* A wake-up is not lost: who suspends for jobs is resumed, who blocks on    *)
(* one gets its result, and no frame stays when all Jobs are gone.           *)
EveryWaiterGoesOn ==
    /\ parent = "joining" ~> parent \in {"passed", "failed"}
    /\ \A v \in Viewers : viewer[v] # Idle ~> viewer[v] = Idle
    /\ \A c \in Jobs : owners[c] = {Promise} ~> c \notin frames

=============================================================================
