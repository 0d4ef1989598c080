------------------------------ MODULE JobJoin ------------------------------
(***************************************************************************)
(* What util/async/Coroutines.hpp:53-65 and util/async/CoroCore.hpp:325-   *)
(* and 402-410 promise: a job goes on until it ends, whoever lets go of    *)
(* it; its frame goes once, when it has ended and nobody holds it; who     *)
(* suspends until all jobs of a range have their results is resumed after  *)
(* the last of them, with an exception if it asked for success and one of  *)
(* them failed.                                                            *)
(***************************************************************************)
EXTENDS Naturals

CONSTANTS Jobs,
          Awaited,  \* the jobs that Parent suspends for
          Parent,
          Holders   \* who may hold a job, Parent among them

VARIABLES outcome,  \* outcome[c]: "unborn", "running", "value" or "exception"
          held,     \* held[c]: who holds c
          frames,   \* the jobs whose frame exists
          parent    \* what Parent does about its jobs

vars == <<outcome, held, frames, parent>>

Kinds == {"until_all_ready", "until_all_succeed"}
Ended(c) == outcome[c] \in {"value", "exception"}

-----------------------------------------------------------------------------

Init == /\ outcome = [c \in Jobs |-> "unborn"]
        /\ held = [c \in Jobs |-> {}]
        /\ frames = {}
        /\ parent = "free"

Start(c, h) == /\ outcome[c] = "unborn"
               /\ h = Parent => parent = "free"
               /\ outcome' = [outcome EXCEPT ![c] = "running"]
               /\ held' = [held EXCEPT ![c] = {h}]
               /\ frames' = frames \cup {c}
               /\ UNCHANGED parent

End(c) == /\ outcome[c] = "running"
          /\ \E result \in {"value", "exception"} :
                outcome' = [outcome EXCEPT ![c] = result]
          /\ UNCHANGED <<held, frames, parent>>

Share(c, h) == /\ held[c] # {}
               /\ held' = [held EXCEPT ![c] = held[c] \cup {h}]
               /\ UNCHANGED <<outcome, frames, parent>>

(* A frame goes when the last one lets go of an ended job, or later. *)
LetGo(c, h) == /\ h \in held[c]
               /\ h = Parent => parent \notin Kinds
               /\ held' = [held EXCEPT ![c] = held[c] \ {h}]
               /\ frames' = frames \/ (Ended(c) /\ held[c] = {h} /\ frames' = frames \ {c})
               /\ UNCHANGED <<outcome, parent>>

FrameGoes(c) == /\ c \in frames /\ Ended(c) /\ held[c] = {}
                /\ frames' = frames \ {c}
                /\ UNCHANGED <<outcome, held, parent>>

Suspend == /\ parent = "free"
           /\ \A c \in Awaited : Parent \in held[c]
           /\ parent' \in Kinds
           /\ UNCHANGED <<outcome, held, frames>>

Resume == /\ parent \in Kinds
          /\ \A c \in Awaited : Ended(c)
          /\ parent' = IF /\ parent = "until_all_succeed"
                          /\ \E c \in Awaited : outcome[c] = "exception"
                       THEN "failed" ELSE "resumed"
          /\ UNCHANGED <<outcome, held, frames>>

Next == \/ \E c \in Jobs : \/ End(c) \/ FrameGoes(c)
                           \/ \E h \in Holders : Start(c, h) \/ Share(c, h) \/ LetGo(c, h)
        \/ Suspend \/ Resume

Spec == Init /\ [][Next]_vars

=============================================================================
