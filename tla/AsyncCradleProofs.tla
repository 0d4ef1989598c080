-------------------------- MODULE AsyncCradleProofs --------------------------
(***************************************************************************)
(* Proofs about AsyncCradle, for any jobs, whatever they await and         *)
(* whomever they start, and a loading pool of any size.                    *)
(***************************************************************************)
EXTENDS AsyncCradle, FiniteSetTheorems, SequenceTheorems, TLAPS

Queues     == Threads \ {"pool"}
In(Q, e)   == {Q[e][k] : k \in 1..Len(Q[e])}
Once(Q)    == \A e \in Queues : \A f \in Queues :
                \A k \in 1..Len(Q[e]) : \A l \in 1..Len(Q[f]) :
                  Q[e][k].job = Q[f][l].job => e = f /\ k = l
Last(c)    == Steps[c][step[c] - 1]
Waits(c, op) == at[c] = "suspended" /\ step[c] > 1 /\ Last(c).op = op

\* What suspended the job of an entry of e.
Due(e, x) ==
  IF e = "completion"
  THEN \/ x.act = "again" /\ Waits(x.job, "fence")
       \/ x.act = "watch" /\ Waits(x.job, "poll")
  ELSE \/ x.act = "resume" /\ Waits(x.job, "go") /\ Last(x.job).on = e
       \/ x.act = "check" /\ Waits(x.job, "fence") /\ Last(x.job).on = e

\* Everything that will resume a job is there for what the job awaits, and for
\* nothing else: nobody resumes a job twice.
EntriesDue ==
  /\ \A x \in pool : Due("pool", x)
  /\ \A e \in Queues : \A x \in In(queue, e) : Due(e, x)
  /\ \A c \in completables :
       Waits(c, "poll") /\ \A x \in In(queue, "completion") : x.job # c
  /\ \A c \in Jobs : remaining[c] # {} => Waits(c, "join")
  /\ Once(queue)

\* A job that nobody started has done nothing, nor have its children.
UnbornAreIdle ==
  \A c \in Jobs : at[c] = "unborn" =>
    step[c] = 1 /\ \A d \in Children[c] : at[d] = "unborn"

\* The frames are those of the jobs under way and of those whose Job is held.
FramesNeeded ==
  /\ \A c \in Jobs : at[c] \in {"running", "suspended", "ready"} => c \in frames
  /\ \A c \in Jobs : at[c] = "ended" /\ Held(c) => c \in frames
  /\ \A c \in frames : at[c] # "unborn"
  /\ viewed \subseteq Roots

\* The counter counts the guards, and a guard lives in a frame.
CountIsFrames == IsFiniteSet(frames) /\ count = Cardinality(frames \cap Guarded)

IInv == TypeOK /\ EntriesDue /\ UnbornAreIdle /\ RunsWhereScheduled
        /\ FramesNeeded /\ CountIsFrames

\* What a guarded job starts has a context, and with it a guard, of its own
\* (child_context(), ResourceUnpacker.hpp:107).
GuardsInherited == \A c \in Guarded : Children[c] \subseteq Guarded

\* The main thread leaves its frames only when no job without a guard is under
\* way, and destroys what the jobs use only when no job is.
NoneLeft ==
  /\ main # "frame" => \A c \in Jobs \ Guarded : at[c] \in {"unborn", "ended"}
  /\ ~members => main # "frame"
  /\ MembersOutliveTasks

-----------------------------------------------------------------------------
(* Steps and queues *)

LEMMA KindFacts ==
    ASSUME NEW s \in StepKinds
    PROVE  /\ s.op = "go" => s.on \in Executors
           /\ s.op = "fence" => s.on \in {"offscreen", "local"}
  BY DEF StepKinds, Go, Fence, Spawn, Join, Poll

LEMMA StepFacts ==
    ASSUME TypeOK, NEW c \in Jobs
    PROVE  /\ step[c] \in Nat /\ step[c] >= 1 /\ step[c] <= Len(Steps[c]) + 1
           /\ Len(Steps[c]) \in Nat
           /\ \A k \in 1..Len(Steps[c]) : Steps[c][k] \in StepKinds
           /\ step[c] > 1 => Last(c) \in StepKinds
           /\ step[c] <= Len(Steps[c]) => Steps[c][step[c]] \in StepKinds
           /\ step[c] + 1 - 1 = step[c] /\ step[c] + 1 > 1 /\ step[c] + 1 \in Nat
           /\ step[c] <= Len(Steps[c]) => step[c] + 1 \in 1..(Len(Steps[c]) + 1)
  <1>1. /\ step[c] \in 1..(Len(Steps[c]) + 1) /\ step[c] \in Nat
        /\ Steps[c] \in Seq(StepKinds)
    BY CradleAssumption DEF TypeOK
  <1>2. /\ Len(Steps[c]) \in Nat
        /\ \A k \in 1..Len(Steps[c]) : Steps[c][k] \in StepKinds
    BY <1>1, LenProperties, ElementOfSeq
  <1>3. step[c] > 1 => step[c] - 1 \in 1..Len(Steps[c])
    BY <1>1, <1>2
  <1>4. step[c] <= Len(Steps[c]) => step[c] \in 1..Len(Steps[c])
    BY <1>1, <1>2
  <1>5. /\ step[c] >= 1 /\ step[c] <= Len(Steps[c]) + 1
        /\ step[c] + 1 - 1 = step[c] /\ step[c] + 1 > 1 /\ step[c] + 1 \in Nat
        /\ step[c] <= Len(Steps[c]) => step[c] + 1 \in 1..(Len(Steps[c]) + 1)
    BY <1>1, <1>2
  <1>6. QED
    BY <1>1, <1>2, <1>3, <1>4, <1>5 DEF Last

LEMMA AwaitsFacts ==
    ASSUME TypeOK, NEW c \in Jobs, NEW op, Awaits(c, op)
    PROVE  /\ at[c] = "running" /\ step[c] <= Len(Steps[c])
           /\ Steps[c][step[c]] \in StepKinds /\ Steps[c][step[c]].op = op
           /\ op = "go" => Steps[c][step[c]].on \in Executors
           /\ op = "fence" => Steps[c][step[c]].on \in {"offscreen", "local"}
  BY StepFacts, KindFacts DEF Awaits

LEMMA InFacts ==
    ASSUME NEW Q, NEW S, NEW e \in Queues, Q[e] \in Seq(S)
    PROVE  /\ Len(Q[e]) \in Nat
           /\ In(Q, e) \subseteq S
           /\ Q[e] = <<>> => In(Q, e) = {}
  <1>1. /\ Len(Q[e]) \in Nat
        /\ \A k \in 1..Len(Q[e]) : Q[e][k] \in S
    BY LenProperties, ElementOfSeq
  <1>2. ASSUME Q[e] = <<>> PROVE 1..Len(Q[e]) = {}
    <2>1. Len(Q[e]) = 0
      BY <1>2, EmptySeq
    <2>2. QED
      BY <2>1
  <1>3. QED
    BY <1>1, <1>2 DEF In

AllEntries == Entries({"resume", "check", "again", "watch"})

\* No entry of a queue is for c; R has at most the entries of Q, and x in e.
Fresh(Q, c)       == \A f \in Queues : \A y \in In(Q, f) : y.job # c
Within(R, Q)      == \A f \in Queues : In(R, f) \subseteq In(Q, f)
Gains(R, Q, e, x) == \A f \in Queues : \A y \in In(R, f) : y \in In(Q, f) \/ (f = e /\ y = x)

Pushes(Q, R, e, x) ==
  /\ x \in AllEntries /\ Q[e] \in Seq(AllEntries) /\ R[e] = Append(Q[e], x)
  /\ \A f \in Queues : f # e => R[f] = Q[f]

Pops(Q, R, e, x) ==
  /\ Q[e] \in Seq(AllEntries) /\ Q[e] # <<>> /\ x = Head(Q[e]) /\ R[e] = Tail(Q[e])
  /\ \A f \in Queues : f # e => R[f] = Q[f]

\* An entry for a job that has none is put into a queue.
LEMMA Pushed ==
    ASSUME NEW Q, NEW R, NEW e \in Queues, NEW x, Pushes(Q, R, e, x)
    PROVE  /\ Gains(R, Q, e, x)
           /\ Once(Q) /\ Fresh(Q, x.job) => Once(R)
  <1> DEFINE n == Len(Q[e])
  <1>1. /\ n \in Nat /\ Len(R[e]) = n + 1 /\ R[e][n + 1] = x
        /\ \A k \in 1..n : R[e][k] = Q[e][k]
        /\ \A f \in Queues : f # e => R[f] = Q[f]
    BY AppendProperties, LenProperties DEF Pushes
  <1>2. /\ 1..(n + 1) = (1..n) \cup {n + 1}
        /\ n + 1 \notin 1..n
    BY <1>1
  <1>3. In(R, e) = In(Q, e) \cup {x}
    <2>1. \A k \in 1..n : k \in 1..Len(R[e])
      BY <1>1, <1>2
    <2>2. In(Q, e) \subseteq In(R, e) /\ x \in In(R, e)
      BY <1>1, <1>2, <2>1 DEF In
    <2>3. \A k \in 1..Len(R[e]) : k \in 1..n \/ k = n + 1
      BY <1>1, <1>2
    <2>4. In(R, e) \subseteq In(Q, e) \cup {x}
      BY <1>1, <2>3 DEF In
    <2>5. QED
      BY <2>2, <2>4
  <1>4. ASSUME NEW f \in Queues, f # e PROVE In(R, f) = In(Q, f)
    BY <1>1, <1>4 DEF In
  <1>5. ASSUME Once(Q), Fresh(Q, x.job)
        PROVE  Once(R)
    <2> SUFFICES ASSUME NEW f \in Queues, NEW g \in Queues,
                        NEW k \in 1..Len(R[f]), NEW l \in 1..Len(R[g]),
                        R[f][k].job = R[g][l].job
                 PROVE  f = g /\ k = l
      BY DEF Once
    <2>1. \/ k \in 1..Len(Q[f]) /\ R[f][k] = Q[f][k] /\ Q[f][k] \in In(Q, f)
          \/ f = e /\ k = n + 1 /\ R[f][k] = x
      BY <1>1, <1>2 DEF In
    <2>2. \/ l \in 1..Len(Q[g]) /\ R[g][l] = Q[g][l] /\ Q[g][l] \in In(Q, g)
          \/ g = e /\ l = n + 1 /\ R[g][l] = x
      BY <1>1, <1>2 DEF In
    <2>3. ASSUME k \in 1..Len(Q[f]), l \in 1..Len(Q[g]), Q[f][k].job = Q[g][l].job
          PROVE  f = g /\ k = l
      BY <1>5, <2>3 DEF Once
    <2>4. QED
      BY <1>5, <2>1, <2>2, <2>3 DEF Fresh
  <1>6. QED
    BY <1>3, <1>4, <1>5 DEF Gains

\* The head of a queue is taken: its job has no other entry.
LEMMA Popped ==
    ASSUME NEW Q, NEW R, NEW e \in Queues, NEW x, Pops(Q, R, e, x)
    PROVE  /\ x \in In(Q, e)
           /\ Within(R, Q)
           /\ Once(Q) => Once(R) /\ Fresh(R, x.job)
  <1> DEFINE n == Len(Q[e])
  <1>1. /\ n \in Nat /\ n >= 1 /\ Len(R[e]) = n - 1 /\ x = Q[e][1]
        /\ \A k \in 1..(n - 1) : R[e][k] = Q[e][k + 1]
        /\ \A f \in Queues : f # e => R[f] = Q[f]
    <2>1. n \in Nat /\ n # 0
      BY LenProperties, EmptySeq DEF Pops
    <2>2. QED
      BY <2>1, HeadTailProperties DEF Pops
  <1>2. \A k \in 1..(n - 1) : k + 1 \in 1..n /\ k + 1 # 1
    BY <1>1
  <1>3. 1 \in 1..n
    BY <1>1
  <1>4. ASSUME NEW f \in Queues PROVE In(R, f) \subseteq In(Q, f)
    <2>1. CASE f # e
      BY <1>1, <1>4, <2>1 DEF In
    <2>2. ASSUME NEW k \in 1..Len(R[e]) PROVE R[e][k] \in In(Q, e)
      <3>1. k \in 1..(n - 1)
        BY <1>1, <2>2
      <3>2. R[e][k] = Q[e][k + 1] /\ k + 1 \in 1..n
        BY <1>1, <1>2, <3>1
      <3>3. QED
        BY <3>2 DEF In
    <2>3. In(R, e) \subseteq In(Q, e)
      BY <2>2 DEF In
    <2>4. QED
      BY <2>1, <2>3
  <1>5. ASSUME Once(Q)
        PROVE  Once(R) /\ Fresh(R, x.job)
    <2>1. ASSUME NEW f \in Queues, NEW k \in 1..Len(R[f])
          PROVE  \E m \in 1..Len(Q[f]) : /\ R[f][k] = Q[f][m] /\ ~(f = e /\ m = 1)
                                         /\ m = IF f = e THEN k + 1 ELSE k
      <3>1. CASE f = e
        <4>1. k \in 1..(n - 1)
          BY <1>1, <2>1, <3>1
        <4>2. QED
          BY <1>1, <1>2, <3>1, <4>1
      <3>2. CASE f # e
        BY <1>1, <3>2
      <3>3. QED
        BY <3>1, <3>2
    <2>2. ASSUME NEW f \in Queues, NEW g \in Queues,
                 NEW k \in 1..Len(R[f]), NEW l \in 1..Len(R[g]),
                 R[f][k].job = R[g][l].job
          PROVE  f = g /\ k = l
      <3>1. PICK m \in 1..Len(Q[f]) : R[f][k] = Q[f][m] /\ m = IF f = e THEN k + 1 ELSE k
        BY <2>1
      <3>2. PICK o \in 1..Len(Q[g]) : R[g][l] = Q[g][o] /\ o = IF g = e THEN l + 1 ELSE l
        BY <2>1
      <3>3. f = g /\ m = o
        BY <1>5, <2>2, <3>1, <3>2 DEF Once
      <3>4. k \in Int /\ l \in Int
        OBVIOUS
      <3>5. QED
        BY <3>1, <3>2, <3>3, <3>4
    <2>3. ASSUME NEW f \in Queues, NEW k \in 1..Len(R[f])
          PROVE  R[f][k].job # x.job
      <3>1. PICK m \in 1..Len(Q[f]) : R[f][k] = Q[f][m] /\ ~(f = e /\ m = 1)
        BY <2>1
      <3>2. Q[f][m].job # x.job
        BY <1>1, <1>3, <1>5, <3>1 DEF Once
      <3>3. QED
        BY <3>1, <3>2
    <2>4. QED
      BY <2>2, <2>3 DEF Once, In, Fresh
  <1>6. x \in In(Q, e)
    BY <1>1, <1>3 DEF In
  <1>7. QED
    BY <1>4, <1>5, <1>6 DEF Within

-----------------------------------------------------------------------------
(* What is there to resume a job *)

LEMMA EntryFacts ==
    ASSUME NEW c \in Jobs, NEW act \in {"resume", "check", "again", "watch"}
    PROVE  /\ Entry(c, act) \in AllEntries
           /\ Entry(c, act).job = c /\ Entry(c, act).act = act
           /\ \A acts : act \in acts => Entry(c, act) \in Entries(acts)
  BY DEF AllEntries, Entries, Entry

LEMMA EntriesAre ==
    ASSUME NEW acts, NEW x \in Entries(acts)
    PROVE  /\ x.job \in Jobs /\ x.act \in acts /\ x = Entry(x.job, x.act)
  BY DEF Entries, Entry

LEMMA QueuesAre ==
    /\ Queues = {"offscreen", "local", "completion"}
    /\ Threads = {"pool", "offscreen", "local", "completion"}
    /\ "pool" \notin Queues /\ Executors = {"pool", "offscreen", "local"}
    /\ Nowhere \notin Threads
  BY DEF Queues, Threads, Executors, Nowhere

LEMMA SeqIn ==
    ASSUME NEW q, NEW S, NEW T, S \subseteq T, q \in Seq(S)
    PROVE  q \in Seq(T)
  <1>1. Len(q) \in Nat /\ q \in [1..Len(q) -> S]
    BY LenProperties
  <1>2. q \in [1..Len(q) -> T]
    BY <1>1
  <1>3. QED
    BY <1>1, <1>2, SeqDef

LEMMA QueueTypes ==
    ASSUME TypeOK
    PROVE  /\ DOMAIN queue = Queues
           /\ \A f \in Queues : queue[f] \in Seq(AllEntries)
           /\ \A f \in Queues : \A x \in In(queue, f) : x \in AllEntries /\ x.job \in Jobs
           /\ \A x \in pool : x.job \in Jobs /\ x = Entry(x.job, "resume")
  <1>1. Entries({"resume", "check"}) \subseteq AllEntries /\ Entries({"again", "watch"}) \subseteq AllEntries
    BY DEF AllEntries, Entries
  <1>2. \A e \in {"offscreen", "local"} : queue[e] \in Seq(AllEntries)
    BY <1>1, SeqIn DEF TypeOK
  <1>3. queue["completion"] \in Seq(AllEntries)
    BY <1>1, SeqIn DEF TypeOK
  <1>4. \A f \in Queues : queue[f] \in Seq(AllEntries)
    BY <1>2, <1>3, QueuesAre
  <1>5. \A f \in Queues : In(queue, f) \subseteq AllEntries
    BY <1>4, InFacts
  <1>6. DOMAIN queue = Queues
    BY DEF TypeOK, Queues
  <1>7. \A x \in pool : x.job \in Jobs /\ x = Entry(x.job, "resume")
    <2>1. \A x \in pool : x \in Entries({"resume"})
      BY DEF TypeOK
    <2>2. \A x \in pool : x.act = "resume" /\ x.job \in Jobs /\ x = Entry(x.job, x.act)
      BY <2>1, EntriesAre
    <2>3. QED
      BY <2>2
  <1>8. QED
    BY <1>4, <1>5, <1>6, <1>7, EntriesAre DEF AllEntries

\* The jobs that something will resume are suspended.
LEMMA DueSuspended ==
    ASSUME EntriesDue
    PROVE  /\ \A x \in pool : at[x.job] = "suspended"
           /\ \A f \in Queues : \A x \in In(queue, f) : at[x.job] = "suspended"
           /\ \A c \in completables : at[c] = "suspended"
           /\ \A c \in Jobs : remaining[c] # {} => at[c] = "suspended"
  BY DEF EntriesDue, Due, Waits

QueuesTyped ==
  /\ pool \subseteq Entries({"resume"})
  /\ DOMAIN queue = Queues
  /\ \A e \in {"offscreen", "local"} : queue[e] \in Seq(Entries({"resume", "check"}))
  /\ queue["completion"] \in Seq(Entries({"again", "watch"}))

LEMMA QueuesTypedIs == TypeOK => QueuesTyped
  BY DEF TypeOK, QueuesTyped, Queues

\* What may be put where.
Suits(e, act) == CASE e = "pool" -> act = "resume"
                   [] e = "completion" -> act \in {"again", "watch"}
                   [] OTHER -> act \in {"resume", "check"}

LEMMA Emplaced ==
    ASSUME TypeOK, EntriesDue, NEW e \in Threads, NEW d \in Jobs, at[d] # "suspended",
           NEW act \in {"resume", "check", "again", "watch"}, Suits(e, act),
           Emplace(e, Entry(d, act))
    PROVE  /\ QueuesTyped'
           /\ \A y \in pool' : y \in pool \/ (e = "pool" /\ y = Entry(d, act))
           /\ \A f \in Queues : \A y \in In(queue', f) :
                y \in In(queue, f) \/ (f = e /\ y = Entry(d, act))
           /\ Once(queue')
  <1> DEFINE x == Entry(d, act)
  <1>1. x \in AllEntries /\ x.job = d /\ \A acts : act \in acts => x \in Entries(acts)
    BY EntryFacts
  <1>2. CASE e = "pool"
    <2>1. pool' = pool \cup {x} /\ queue' = queue
      BY <1>2 DEF Emplace
    <2>2. QueuesTyped'
      BY <1>1, <1>2, <2>1, QueuesTypedIs DEF QueuesTyped, Suits
    <2>3. QED
      BY <1>2, <2>1, <2>2 DEF EntriesDue
  <1>3. CASE e # "pool"
    <2>1. e \in Queues /\ pool' = pool /\ queue' = [queue EXCEPT ![e] = Append(@, x)]
      BY <1>3 DEF Emplace, Queues
    <2>2. /\ queue'[e] = Append(queue[e], x) /\ DOMAIN queue' = Queues
          /\ \A f \in Queues : f # e => queue'[f] = queue[f]
      BY <2>1, QueueTypes
    <2>3. Fresh(queue, x.job)
      BY <1>1, DueSuspended DEF Fresh
    <2>4. queue[e] \in Seq(AllEntries)
      BY <2>1, QueueTypes
    <2>5. Once(queue)
      BY DEF EntriesDue
    <2>6. Pushes(queue, queue', e, x)
      BY <1>1, <2>2, <2>4 DEF Pushes
    <2>8. Gains(queue', queue, e, x) /\ Once(queue')
      BY <2>1, <2>3, <2>5, <2>6, Pushed
    <2>7. QueuesTyped'
      <3>1. ASSUME NEW acts, act \in acts, queue[e] \in Seq(Entries(acts))
            PROVE  queue'[e] \in Seq(Entries(acts))
        BY <1>1, <2>2, <3>1, AppendProperties
      <3>2. e = "completion" => queue'[e] \in Seq(Entries({"again", "watch"}))
        BY <3>1, QueuesTypedIs DEF QueuesTyped, Suits
      <3>3. e # "completion" => queue'[e] \in Seq(Entries({"resume", "check"}))
        BY <1>3, <2>1, <3>1, QueuesAre, QueuesTypedIs DEF QueuesTyped, Suits
      <3>4. QED
        BY <2>1, <2>2, <3>2, <3>3, QueuesAre, QueuesTypedIs DEF QueuesTyped
    <2>9. QED
      BY <2>1, <2>7, <2>8 DEF Gains
  <1>4. QED
    BY <1>2, <1>3

\* A job that is not suspended suspends, and is due where it is put.
LEMMA EmplacedDue ==
    ASSUME TypeOK, EntriesDue, NEW e \in Threads, NEW d \in Jobs, at[d] # "suspended",
           NEW act \in {"resume", "check", "again", "watch"}, Suits(e, act),
           Emplace(e, Entry(d, act)), Due(e, Entry(d, act))',
           UNCHANGED <<completables, remaining>>,
           \A c \in Jobs : at[c] = "suspended" => at'[c] = at[c] /\ step'[c] = step[c]
    PROVE  QueuesTyped' /\ EntriesDue'
  <1> DEFINE x == Entry(d, act)
  <1>1. /\ QueuesTyped'
        /\ \A y \in pool' : y \in pool \/ (e = "pool" /\ y = x)
        /\ \A f \in Queues : \A y \in In(queue', f) : y \in In(queue, f) \/ (f = e /\ y = x)
        /\ Once(queue')
    BY Emplaced
  <1>2. \A c \in Jobs : \A op : Waits(c, op) => Waits(c, op)' /\ (Last(c) = Last(c)')
    BY DEF Waits, Last
  <1>3. \A f \in Threads : \A y : y.job \in Jobs /\ Due(f, y) => Due(f, y)'
    BY <1>2 DEF Due
  <1>4. \A y \in pool' : Due("pool", y)'
    <2>1. \A y \in pool : Due("pool", y) /\ y.job \in Jobs /\ "pool" \in Threads
      BY QueueTypes, QueuesAre DEF EntriesDue
    <2>2. QED
      BY <1>1, <1>3, <2>1
  <1>5. \A f \in Queues : \A y \in In(queue', f) : Due(f, y)'
    <2>1. \A f \in Queues : f \in Threads /\ \A y \in In(queue, f) : Due(f, y) /\ y.job \in Jobs
      BY QueueTypes DEF EntriesDue, Queues
    <2>2. QED
      BY <1>1, <1>3, <2>1
  <1>6. ASSUME NEW c \in completables'
        PROVE  Waits(c, "poll")' /\ \A y \in In(queue', "completion") : y.job # c
    <2>1. c \in completables /\ c \in Jobs /\ "completion" \in Queues /\ x.job = d
      BY QueuesAre, EntryFacts DEF TypeOK
    <2>2. Waits(c, "poll") /\ \A y \in In(queue, "completion") : y.job # c
      BY <2>1 DEF EntriesDue
    <2>3. c # d
      BY <2>2 DEF Waits
    <2>4. QED
      BY <1>1, <1>2, <2>1, <2>2, <2>3
  <1>7. \A c \in Jobs : remaining'[c] # {} => Waits(c, "join")'
    BY <1>2 DEF EntriesDue
  <1>8. QED
    BY <1>1, <1>4, <1>5, <1>6, <1>7 DEF EntriesDue

\* Nothing is put anywhere, and what is taken or dropped takes its job along.
LEMMA NoneEmplaced ==
    ASSUME TypeOK, EntriesDue, NEW S,
           \A c \in S : at'[c] = at[c] /\ step'[c] = step[c],
           \A y \in pool' : y \in pool /\ y.job \in S,
           \A f \in Queues : \A y \in In(queue', f) : y \in In(queue, f) /\ y.job \in S,
           \A c \in completables' : c \in completables /\ c \in S,
           \A c \in Jobs : remaining'[c] # {} => Waits(c, "join")',
           Once(queue')
    PROVE  EntriesDue'
  <1>1. \A c \in S : \A op : Waits(c, op) => Waits(c, op)' /\ (Last(c) = Last(c)')
    BY DEF Waits, Last
  <1>2. \A f \in Threads : \A y : y.job \in S /\ Due(f, y) => Due(f, y)'
    BY <1>1 DEF Due
  <1>3. \A f \in Queues : f \in Threads
    BY DEF Queues
  <1>4. "pool" \in Threads /\ "completion" \in Queues
    BY QueuesAre
  <1>5. \A y \in pool' : Due("pool", y)'
    BY <1>2, <1>4 DEF EntriesDue
  <1>6. \A f \in Queues : \A y \in In(queue', f) : Due(f, y)'
    BY <1>2, <1>3 DEF EntriesDue
  <1>7. \A c \in completables' :
          Waits(c, "poll")' /\ \A y \in In(queue', "completion") : y.job # c
    BY <1>1, <1>4 DEF EntriesDue
  <1>8. QED
    BY <1>5, <1>6, <1>7 DEF EntriesDue

-----------------------------------------------------------------------------
(* What a step leaves as it is *)

JobsTyped ==
  /\ at \in [Jobs -> {"unborn", "running", "suspended", "ready", "ended"}]
  /\ step \in [Jobs -> Nat] /\ \A c \in Jobs : step[c] \in 1..(Len(Steps[c]) + 1)
  /\ thread \in [Jobs -> Threads \cup {Nowhere}]
  /\ signaled \subseteq Jobs /\ completables \subseteq Jobs
  /\ remaining \in [Jobs -> SUBSET Jobs]

HeapTyped == frames \subseteq Jobs /\ viewed \subseteq frames /\ count \in Nat

MainTyped ==
  /\ main \in {"frame", "drain", "spin", "respin", "counter", "offscreen",
               "completion", "pool", "exited"}
  /\ worked \in BOOLEAN /\ members \in BOOLEAN

LEMMA TypeSplit == /\ TypeOK <=> JobsTyped /\ QueuesTyped /\ HeapTyped /\ MainTyped
                   /\ TypeOK' <=> JobsTyped' /\ QueuesTyped' /\ HeapTyped' /\ MainTyped'
  BY DEF TypeOK, JobsTyped, QueuesTyped, HeapTyped, MainTyped, Queues

Lives == UnbornAreIdle /\ FramesNeeded /\ CountIsFrames

LEMMA InvSplit ==
    IInv' <=> /\ JobsTyped' /\ QueuesTyped' /\ HeapTyped' /\ MainTyped'
              /\ EntriesDue' /\ RunsWhereScheduled' /\ Lives'
  BY TypeSplit DEF IInv, Lives

LEMMA SameLives ==
    ASSUME TypeOK, Lives, UNCHANGED heapVars,
           \A d \in Jobs : /\ at'[d] = "unborn" <=> at[d] = "unborn"
                           /\ at'[d] = "ended" <=> at[d] = "ended"
                           /\ at[d] = "unborn" => step'[d] = step[d]
    PROVE  Lives' /\ HeapTyped'
  <1>1. \A c \in Jobs : Children[c] \subseteq Jobs
    BY CradleAssumption
  <1>2. frames' = frames /\ viewed' = viewed /\ count' = count /\ frames \subseteq Jobs
    BY TypeSplit DEF heapVars, HeapTyped
  <1>3. UnbornAreIdle'
    BY <1>1 DEF Lives, UnbornAreIdle
  <1>4. FramesNeeded'
    <2>1. \A c \in Jobs : at'[c] \in {"running", "suspended", "ready"}
                          => at[c] \in {"running", "suspended", "ready"}
      BY DEF TypeOK
    <2>2. \A c \in Jobs : Held(c)' <=> Held(c)
      BY <1>2 DEF Held
    <2>3. QED
      BY <1>2, <2>1, <2>2 DEF Lives, FramesNeeded
  <1>5. CountIsFrames'
    BY <1>2 DEF Lives, CountIsFrames
  <1>6. HeapTyped'
    BY <1>2, TypeSplit DEF HeapTyped
  <1>7. QED
    BY <1>3, <1>4, <1>5, <1>6 DEF Lives

\* A job goes on where it ran, or is resumed where it is due.
LEMMA RunsKept ==
    ASSUME RunsWhereScheduled,
           \A d \in Jobs : at'[d] = "running" =>
             \/ /\ at[d] = "running" /\ thread'[d] = thread[d] /\ step'[d] = step[d]
                /\ d \in signaled => d \in signaled'
             \/ step'[d] = 1
             \/ Last(d)'.op \notin {"go", "fence"}
             \/ Last(d)'.on = thread'[d] /\ (Last(d)'.op = "fence" => d \in signaled')
    PROVE  RunsWhereScheduled'
  BY DEF RunsWhereScheduled, Last

LEMMA SuspendFacts ==
    ASSUME TypeOK, NEW c \in Jobs, NEW op, Awaits(c, op), Suspend(c)
    PROVE  /\ \A d \in Jobs : /\ at'[d] = IF d = c THEN "suspended" ELSE at[d]
                              /\ step'[d] = IF d = c THEN step[c] + 1 ELSE step[d]
                              /\ thread'[d] = IF d = c THEN Nowhere ELSE thread[d]
           /\ at' \in [Jobs -> {"unborn", "running", "suspended", "ready", "ended"}]
           /\ step' \in [Jobs -> Nat] /\ \A d \in Jobs : step'[d] \in 1..(Len(Steps[d]) + 1)
           /\ thread' \in [Jobs -> Threads \cup {Nowhere}]
           /\ Last(c)' = Steps[c][step[c]] /\ Waits(c, op)'
           /\ at[c] = "running"
  <1>1. \A d \in Jobs : /\ at'[d] = IF d = c THEN "suspended" ELSE at[d]
                        /\ step'[d] = IF d = c THEN step[c] + 1 ELSE step[d]
                        /\ thread'[d] = IF d = c THEN Nowhere ELSE thread[d]
    BY DEF Suspend, TypeOK
  <1>2. /\ at' \in [Jobs -> {"unborn", "running", "suspended", "ready", "ended"}]
        /\ thread' \in [Jobs -> Threads \cup {Nowhere}]
    BY DEF Suspend, TypeOK
  <1>3. /\ step[c] + 1 \in 1..(Len(Steps[c]) + 1) /\ step[c] + 1 \in Nat
        /\ step[c] + 1 - 1 = step[c] /\ step[c] + 1 > 1
        /\ at[c] = "running" /\ Steps[c][step[c]].op = op
    BY StepFacts, AwaitsFacts
  <1>4. step' \in [Jobs -> Nat]
    BY <1>3 DEF Suspend, TypeOK
  <1>5. \A d \in Jobs : step'[d] \in 1..(Len(Steps[d]) + 1)
    BY <1>1, <1>3 DEF TypeOK
  <1>6. Last(c)' = Steps[c][step[c]] /\ Waits(c, op)'
    <2>0. at'[c] = "suspended" /\ step'[c] = step[c] + 1
      BY <1>1
    <2>1. at'[c] = "suspended" /\ step'[c] > 1 /\ step'[c] - 1 = step[c]
      <3>1. step[c] \in Nat /\ step[c] >= 1
        BY StepFacts
      <3>2. QED
        BY ONLY <2>0, <3>1
    <2>2. QED
      BY <1>3, <2>1 DEF Last, Waits
  <1>7. QED
    BY <1>1, <1>2, <1>3, <1>4, <1>5, <1>6

LEMMA InvParts ==
    ASSUME IInv
    PROVE  /\ TypeOK /\ EntriesDue /\ RunsWhereScheduled /\ Lives
           /\ JobsTyped /\ QueuesTyped /\ HeapTyped /\ MainTyped
  BY TypeSplit DEF IInv, Lives

\* The job emplaces itself: what it awaits is an entry e takes.
LEMMA SuspendsInto ==
    ASSUME IInv, NEW c \in Jobs, NEW op, Awaits(c, op), Suspend(c),
           NEW e \in Threads, NEW act \in {"resume", "check", "again", "watch"},
           Suits(e, act), Emplace(e, Entry(c, act)), Due(e, Entry(c, act))',
           \A d \in Jobs : d # c => (d \in signaled <=> d \in signaled'),
           signaled' \subseteq Jobs,
           UNCHANGED <<remaining, completables, heapVars, mainVars>>
    PROVE  IInv'
  <1>1. /\ TypeOK /\ EntriesDue /\ RunsWhereScheduled /\ Lives /\ MainTyped
    BY InvParts
  <1>2. /\ \A d \in Jobs : /\ at'[d] = IF d = c THEN "suspended" ELSE at[d]
                           /\ step'[d] = IF d = c THEN step[c] + 1 ELSE step[d]
                           /\ thread'[d] = IF d = c THEN Nowhere ELSE thread[d]
        /\ at' \in [Jobs -> {"unborn", "running", "suspended", "ready", "ended"}]
        /\ step' \in [Jobs -> Nat] /\ \A d \in Jobs : step'[d] \in 1..(Len(Steps[d]) + 1)
        /\ thread' \in [Jobs -> Threads \cup {Nowhere}]
        /\ at[c] = "running"
    BY <1>1, SuspendFacts
  <1>3. JobsTyped'
    BY <1>1, <1>2 DEF TypeOK, JobsTyped
  <1>4. QueuesTyped' /\ EntriesDue'
    BY <1>1, <1>2, EmplacedDue
  <1>5. RunsWhereScheduled'
    BY <1>1, <1>2, RunsKept
  <1>6. Lives' /\ HeapTyped'
    BY <1>1, <1>2, SameLives
  <1>7. MainTyped'
    BY <1>1 DEF MainTyped, mainVars
  <1>8. QED
    BY <1>3, <1>4, <1>5, <1>6, <1>7, InvSplit

LEMMA RescheduleKeeps ==
    ASSUME IInv, NEW c \in Jobs, Reschedule(c)
    PROVE  IInv'
  <1>0. PICK e : e = Steps[c][step[c]].on
    OBVIOUS
  <1>1. TypeOK /\ Awaits(c, "go") /\ Suspend(c) /\ Emplace(e, Entry(c, "resume"))
    BY <1>0, InvParts DEF Reschedule
  <1>2. e \in Executors /\ e \in Threads /\ e # "completion" /\ Suits(e, "resume")
    BY <1>0, <1>1, AwaitsFacts, QueuesAre DEF Suits
  <1>3. Due(e, Entry(c, "resume"))'
    <2>1. Waits(c, "go")' /\ Last(c)'.on = e
      BY <1>0, <1>1, SuspendFacts
    <2>2. Entry(c, "resume").job = c /\ Entry(c, "resume").act = "resume"
      BY EntryFacts
    <2>3. QED
      BY <1>2, <2>1, <2>2 DEF Due
  <1>4. QED
    BY <1>1, <1>2, <1>3, SuspendsInto DEF Reschedule, TypeOK

LEMMA AwaitFenceKeeps ==
    ASSUME IInv, NEW c \in Jobs, AwaitFence(c)
    PROVE  IInv'
  <1>0. PICK e : e = Steps[c][step[c]].on
    OBVIOUS
  <1>1. TypeOK /\ Awaits(c, "fence") /\ Suspend(c) /\ Emplace(e, Entry(c, "check"))
    BY <1>0, InvParts DEF AwaitFence
  <1>2. e \in Threads /\ e # "completion" /\ Suits(e, "check")
    BY <1>0, <1>1, AwaitsFacts, QueuesAre DEF Suits
  <1>3. Due(e, Entry(c, "check"))'
    <2>1. Waits(c, "fence")' /\ Last(c)'.on = e
      BY <1>0, <1>1, SuspendFacts
    <2>2. Entry(c, "check").job = c /\ Entry(c, "check").act = "check"
      BY EntryFacts
    <2>3. QED
      BY <1>2, <2>1, <2>2 DEF Due
  <1>4. \A d \in Jobs : d # c => (d \in signaled <=> d \in signaled')
    BY DEF AwaitFence
  <1>5. signaled' \subseteq Jobs
    BY <1>1 DEF AwaitFence, TypeOK
  <1>6. QED
    BY <1>1, <1>2, <1>3, <1>4, <1>5, SuspendsInto DEF AwaitFence


\* Nothing is emplaced or taken, and who is suspended stays where it is.
LEMMA EntriesFrame ==
    ASSUME TypeOK, EntriesDue, UNCHANGED <<pool, queue, completables>>,
           \A d \in Jobs : at[d] = "suspended" => at'[d] = at[d] /\ step'[d] = step[d],
           \A d \in Jobs : remaining'[d] # {} => remaining[d] # {} \/ Waits(d, "join")'
    PROVE  EntriesDue'
  <1> DEFINE S == {d \in Jobs : at[d] = "suspended"}
  <1>1. \A d \in S : at'[d] = at[d] /\ step'[d] = step[d]
    OBVIOUS
  <1>2. /\ \A y \in pool : y.job \in S
        /\ \A f \in Queues : \A y \in In(queue, f) : y.job \in S
        /\ \A d \in completables : d \in S
    BY DueSuspended, QueueTypes DEF TypeOK
  <1>3. \A d \in Jobs : remaining'[d] # {} => Waits(d, "join")'
    <2>1. \A d \in Jobs : Waits(d, "join") => Waits(d, "join")'
      BY DEF Waits, Last
    <2>2. QED
      BY <2>1 DEF EntriesDue
  <1>4. Once(queue')
    BY DEF EntriesDue
  <1>5. QED
    BY <1>1, <1>2, <1>3, <1>4, NoneEmplaced

\* The job need not wait: it goes on to its next step.
LEMMA Advances ==
    ASSUME IInv, NEW c \in Jobs, NEW op \in {"join", "poll"}, Awaits(c, op),
           step' = [step EXCEPT ![c] = @ + 1], remaining' \in [Jobs -> SUBSET Jobs],
           \A d \in Jobs : remaining'[d] # {} => remaining[d] # {},
           UNCHANGED <<at, thread, signaled, pool, queue, completables, heapVars, mainVars>>
    PROVE  IInv'
  <1>1. /\ TypeOK /\ EntriesDue /\ RunsWhereScheduled /\ Lives /\ MainTyped
        /\ JobsTyped /\ QueuesTyped
    BY InvParts
  <1>2. QueuesTyped' /\ MainTyped'
    BY <1>1 DEF QueuesTyped, MainTyped, mainVars
  <1>3. /\ step[c] \in Nat /\ step[c] + 1 - 1 = step[c] /\ at[c] = "running"
        /\ step[c] + 1 \in Nat /\ step[c] + 1 \in 1..(Len(Steps[c]) + 1)
        /\ Steps[c][step[c]].op = op
    BY <1>1, StepFacts, AwaitsFacts
  <1>4. /\ \A d \in Jobs : step'[d] = IF d = c THEN step[c] + 1 ELSE step[d]
        /\ step' \in [Jobs -> Nat]
    BY <1>1, <1>3 DEF JobsTyped
  <1>5. JobsTyped'
    BY <1>1, <1>3, <1>4 DEF JobsTyped
  <1>6. Last(c)'.op = op
    <2>1. step'[c] - 1 = step[c]
      BY <1>3, <1>4
    <2>2. QED
      BY <1>3, <2>1 DEF Last
  <1>7. RunsWhereScheduled'
    BY <1>1, <1>4, <1>6, RunsKept
  <1>8. Lives' /\ HeapTyped'
    BY <1>1, <1>3, <1>4, SameLives
  <1>9. EntriesDue'
    BY <1>1, <1>3, <1>4, EntriesFrame
  <1>10. QED
    BY <1>2, <1>5, <1>7, <1>8, <1>9, InvSplit

LEMMA JoinKeeps ==
    ASSUME IInv, NEW c \in Jobs, JoinChildren(c)
    PROVE  IInv'
  <1> DEFINE unready == {d \in Children[c] : ~HasResult(d)}
  <1>1. /\ TypeOK /\ EntriesDue /\ RunsWhereScheduled /\ Lives /\ MainTyped
        /\ JobsTyped /\ QueuesTyped /\ Awaits(c, "join")
    BY InvParts DEF JoinChildren
  <1>2. /\ remaining' = [remaining EXCEPT ![c] = unready] /\ unready \subseteq Jobs
        /\ remaining' \in [Jobs -> SUBSET Jobs]
        /\ \A d \in Jobs : remaining'[d] = IF d = c THEN unready ELSE remaining[d]
        /\ UNCHANGED <<signaled, pool, queue, completables, heapVars, mainVars>>
    <2>1. unready \subseteq Jobs
      BY CradleAssumption
    <2>2. remaining' = [remaining EXCEPT ![c] = unready]
      BY DEF JoinChildren
    <2>3. QED
      BY <1>1, <2>1, <2>2 DEF JoinChildren, JobsTyped
  <1>3. CASE unready = {}
    <2>1. step' = [step EXCEPT ![c] = @ + 1] /\ UNCHANGED <<at, thread>>
      BY <1>3 DEF JoinChildren
    <2>2. \A d \in Jobs : remaining'[d] # {} => remaining[d] # {}
      BY <1>2, <1>3
    <2>3. QED
      BY <1>1, <1>2, <2>1, <2>2, Advances
  <1>4. CASE unready # {}
    <2>1. Suspend(c)
      BY <1>4 DEF JoinChildren
    <2>2. /\ \A d \in Jobs : /\ at'[d] = IF d = c THEN "suspended" ELSE at[d]
                             /\ step'[d] = IF d = c THEN step[c] + 1 ELSE step[d]
                             /\ thread'[d] = IF d = c THEN Nowhere ELSE thread[d]
          /\ at' \in [Jobs -> {"unborn", "running", "suspended", "ready", "ended"}]
          /\ step' \in [Jobs -> Nat] /\ \A d \in Jobs : step'[d] \in 1..(Len(Steps[d]) + 1)
          /\ thread' \in [Jobs -> Threads \cup {Nowhere}]
          /\ Waits(c, "join")' /\ at[c] = "running"
      BY <1>1, <2>1, SuspendFacts
    <2>3. JobsTyped'
      BY <1>1, <1>2, <2>2 DEF JobsTyped
    <2>4. QueuesTyped' /\ MainTyped'
      BY <1>1, <1>2 DEF QueuesTyped, MainTyped, mainVars
    <2>5. RunsWhereScheduled'
      BY <1>1, <1>2, <2>2, RunsKept
    <2>6. Lives' /\ HeapTyped'
      BY <1>1, <1>2, <2>2, SameLives
    <2>7. EntriesDue'
      BY <1>1, <1>2, <2>2, EntriesFrame
    <2>8. QED
      BY <2>3, <2>4, <2>5, <2>6, <2>7, InvSplit
  <1>5. QED
    BY <1>3, <1>4

LEMMA PollKeeps ==
    ASSUME IInv, NEW c \in Jobs, PollChildren(c)
    PROVE  IInv'
  <1>1. TypeOK /\ EntriesDue /\ JobsTyped /\ Awaits(c, "poll")
    BY InvParts DEF PollChildren
  <1>2. CASE \A d \in Children[c] : HasResult(d)
    <2>1. step' = [step EXCEPT ![c] = @ + 1] /\ UNCHANGED <<at, thread, pool, queue>>
      BY <1>2 DEF PollChildren
    <2>2. remaining' \in [Jobs -> SUBSET Jobs] /\ \A d \in Jobs : remaining'[d] = remaining[d]
      BY <1>1 DEF PollChildren, JobsTyped
    <2>3. QED
      BY <1>1, <2>1, <2>2, Advances DEF PollChildren
  <1>3. CASE ~(\A d \in Children[c] : HasResult(d))
    <2>1. Emplace("completion", Entry(c, "watch")) /\ Suspend(c)
      BY <1>3 DEF PollChildren
    <2>2. "completion" \in Threads /\ Suits("completion", "watch")
      BY DEF Suits, Threads
    <2>3. Due("completion", Entry(c, "watch"))'
      <3>1. Waits(c, "poll")'
        BY <1>1, <2>1, SuspendFacts
      <3>2. Entry(c, "watch").job = c /\ Entry(c, "watch").act = "watch"
        BY EntryFacts
      <3>3. QED
        BY <3>1, <3>2 DEF Due
    <2>4. QED
      BY <1>1, <2>1, <2>2, <2>3, SuspendsInto DEF PollChildren, JobsTyped
  <1>4. QED
    BY <1>2, <1>3

LEMMA ReturnKeeps ==
    ASSUME IInv, NEW c \in Jobs, Return(c)
    PROVE  IInv'
  <1>1. /\ TypeOK /\ EntriesDue /\ RunsWhereScheduled /\ Lives /\ MainTyped
        /\ JobsTyped /\ QueuesTyped
    BY InvParts
  <1>2. /\ at[c] = "running" /\ at' \in [Jobs -> {"unborn", "running", "suspended", "ready", "ended"}]
        /\ \A d \in Jobs : at'[d] = IF d = c THEN "ready" ELSE at[d]
        /\ UNCHANGED <<step, thread, signaled, remaining, pool, queue, completables, heapVars, mainVars>>
    BY <1>1 DEF Return, JobsTyped
  <1>3. JobsTyped' /\ QueuesTyped' /\ MainTyped'
    BY <1>1, <1>2 DEF JobsTyped, QueuesTyped, MainTyped, mainVars
  <1>4. RunsWhereScheduled'
    BY <1>1, <1>2, RunsKept
  <1>5. Lives' /\ HeapTyped'
    BY <1>1, <1>2, SameLives
  <1>6. EntriesDue'
    BY <1>1, <1>2, EntriesFrame
  <1>7. QED
    BY <1>3, <1>4, <1>5, <1>6, InvSplit

\* No job moves, and nothing but fences signaling, threads joining and the
\* state of the main thread.
LEMMA OthersKeep ==
    ASSUME IInv, UNCHANGED <<jobVars, pool, queue, completables, heapVars>>,
           signaled \subseteq signaled', signaled' \subseteq Jobs, MainTyped'
    PROVE  IInv'
  <1>1. /\ TypeOK /\ EntriesDue /\ RunsWhereScheduled /\ Lives /\ JobsTyped /\ QueuesTyped
    BY InvParts
  <1>2. at' = at /\ step' = step /\ thread' = thread /\ remaining' = remaining
    BY DEF jobVars
  <1>3. JobsTyped' /\ QueuesTyped'
    BY <1>1, <1>2 DEF JobsTyped, QueuesTyped
  <1>4. RunsWhereScheduled'
    BY <1>1, <1>2, RunsKept
  <1>5. Lives' /\ HeapTyped'
    BY <1>1, <1>2, SameLives
  <1>6. EntriesDue'
    BY <1>1, <1>2, EntriesFrame
  <1>7. QED
    BY <1>3, <1>4, <1>5, <1>6, InvSplit

LEMMA FenceSignalsKeeps ==
    ASSUME IInv, NEW c \in Jobs, FenceSignals(c)
    PROVE  IInv'
  <1>1. JobsTyped /\ MainTyped
    BY InvParts
  <1>2. signaled \subseteq signaled' /\ signaled' \subseteq Jobs /\ MainTyped'
    BY <1>1 DEF FenceSignals, JobsTyped, MainTyped, mainVars
  <1>3. QED
    BY <1>2, OthersKeep DEF FenceSignals

-----------------------------------------------------------------------------
(* The executors *)

\* A job is resumed where it is due, and nothing else will resume it.
LEMMA Resumes ==
    ASSUME IInv, NEW c \in Jobs, NEW t \in Threads, Resume(c, t),
           at[c] = "suspended", remaining[c] = {},
           Last(c).op \in {"go", "fence"} => Last(c).on = t,
           Last(c).op = "fence" => c \in signaled,
           QueuesTyped', Once(queue'), MainTyped',
           \A y \in pool' : y \in pool /\ y.job # c,
           \A f \in Queues : \A y \in In(queue', f) : y \in In(queue, f) /\ y.job # c,
           \A d \in completables' : d \in completables /\ d # c,
           UNCHANGED <<step, signaled, remaining, heapVars>>
    PROVE  IInv'
  <1>1. /\ TypeOK /\ EntriesDue /\ RunsWhereScheduled /\ Lives /\ JobsTyped
    BY InvParts
  <1>2. /\ \A d \in Jobs : /\ at'[d] = IF d = c THEN "running" ELSE at[d]
                           /\ thread'[d] = IF d = c THEN t ELSE thread[d]
        /\ at' \in [Jobs -> {"unborn", "running", "suspended", "ready", "ended"}]
        /\ thread' \in [Jobs -> Threads \cup {Nowhere}]
    BY <1>1 DEF Resume, JobsTyped
  <1>3. JobsTyped'
    BY <1>1, <1>2 DEF JobsTyped
  <1>4. RunsWhereScheduled'
    <2>1. Last(c)' = Last(c)
      BY DEF Last
    <2>2. Last(c)'.op \notin {"go", "fence"} \/ Last(c)'.on = thread'[c]
      BY <1>2, <2>1
    <2>3. QED
      BY <1>1, <1>2, <2>1, <2>2, RunsKept
  <1>5. Lives' /\ HeapTyped'
    BY <1>1, <1>2, SameLives
  <1>6. EntriesDue'
    <2> DEFINE S == {d \in Jobs : at[d] = "suspended" /\ d # c}
    <2>1. \A d \in S : at'[d] = at[d] /\ step'[d] = step[d]
      BY <1>2
    <2>2. /\ \A y \in pool' : y \in pool /\ y.job \in S
          /\ \A f \in Queues : \A y \in In(queue', f) : y \in In(queue, f) /\ y.job \in S
          /\ \A d \in completables' : d \in completables /\ d \in S
      BY <1>1, DueSuspended, QueueTypes DEF JobsTyped
    <2>3. \A d \in Jobs : remaining'[d] # {} => Waits(d, "join")'
      <3>1. \A d \in Jobs : Waits(d, "join") /\ d # c => Waits(d, "join")'
        BY <1>2 DEF Waits, Last
      <3>2. QED
        BY <1>1, <3>1 DEF EntriesDue
    <2>4. QED
      BY <1>1, <2>1, <2>2, <2>3, NoneEmplaced
  <1>7. QED
    BY <1>3, <1>4, <1>5, <1>6, InvSplit

LEMMA PoolTakeKeeps ==
    ASSUME IInv, NEW c \in Jobs, PoolTake(c)
    PROVE  IInv'
  <1> DEFINE x == Entry(c, "resume")
  <1>1. TypeOK /\ EntriesDue /\ MainTyped /\ QueuesTyped /\ JobsTyped
    BY InvParts
  <1>2. /\ x \in pool /\ x.job = c /\ x.act = "resume" /\ pool' = pool \ {x}
        /\ Resume(c, "pool") /\ "pool" \in Threads
        /\ UNCHANGED <<step, signaled, remaining, queue, completables, heapVars, mainVars>>
    BY EntryFacts DEF PoolTake, Threads, Executors
  <1>3. Waits(c, "go") /\ Last(c).on = "pool"
    <2>1. Due("pool", x)
      BY <1>1, <1>2 DEF EntriesDue
    <2>2. QED
      BY <1>2, <2>1 DEF Due
  <1>4. \A y \in pool' : y \in pool /\ y.job # c
    BY <1>1, <1>2, QueueTypes
  <1>5. \A f \in Queues : \A y \in In(queue', f) : y \in In(queue, f) /\ y.job # c
    <2>1. \A f \in Queues : \A y \in In(queue, f) : Due(f, y) /\ f # "pool"
      BY <1>1, QueuesAre DEF EntriesDue
    <2>2. QED
      BY <1>2, <1>3, <2>1 DEF Due, Waits
  <1>6. \A d \in completables' : d \in completables /\ d # c
    <2>1. \A d \in completables : Waits(d, "poll")
      BY <1>1 DEF EntriesDue
    <2>2. QED
      BY <1>2, <1>3, <2>1 DEF Waits
  <1>7. remaining[c] = {} /\ at[c] = "suspended"
    BY <1>1, <1>3 DEF EntriesDue, Waits
  <1>8. QueuesTyped' /\ MainTyped' /\ Once(queue')
    BY <1>1, <1>2 DEF QueuesTyped, MainTyped, mainVars, EntriesDue
  <1>9. Last(c).op = "go"
    BY <1>3 DEF Waits
  <1>10. QED
    BY <1>2, <1>3, <1>4, <1>5, <1>6, <1>7, <1>8, <1>9, Resumes

\* The head of queue t goes.
LEMMA TakenFacts ==
    ASSUME IInv, NEW t \in Queues, queue[t] # <<>>,
           NEW x, x = Head(queue[t]), NEW Q, Q = [queue EXCEPT ![t] = Tail(@)]
    PROVE  /\ x \in In(queue, t) /\ x.job \in Jobs
           /\ x = Entry(x.job, x.act)
           /\ Due(t, x) /\ at[x.job] = "suspended"
           /\ DOMAIN Q = Queues /\ \A f \in Queues : f # t => Q[f] = queue[f]
           /\ \A e \in {"offscreen", "local"} : Q[e] \in Seq(Entries({"resume", "check"}))
           /\ Q["completion"] \in Seq(Entries({"again", "watch"}))
           /\ \A f \in Queues : \A y \in In(Q, f) : y \in In(queue, f)
           /\ Fresh(Q, x.job)
           /\ Once(Q)
  <1>1. TypeOK /\ EntriesDue /\ QueuesTyped
    BY InvParts
  <1>2. /\ DOMAIN Q = Queues /\ \A f \in Queues : f # t => Q[f] = queue[f]
        /\ Q[t] = Tail(queue[t])
    BY <1>1, QueueTypes
  <1>3. queue[t] \in Seq(AllEntries)
    BY <1>1, QueueTypes
  <1>4. Pops(queue, Q, t, x)
    BY <1>2, <1>3 DEF Pops
  <1>5. Once(queue)
    BY <1>1 DEF EntriesDue
  <1>6. x \in In(queue, t) /\ Once(Q)
    BY <1>4, <1>5, Popped
  <1>7. Within(Q, queue) /\ Fresh(Q, x.job)
    BY <1>4, <1>5, Popped
  <1>8. x \in AllEntries /\ Due(t, x)
    BY <1>1, <1>6, QueueTypes DEF EntriesDue
  <1>9. x.job \in Jobs /\ x = Entry(x.job, x.act) /\ at[x.job] = "suspended"
    BY <1>1, <1>6, <1>8, EntriesAre, DueSuspended DEF AllEntries
  <1>10. ASSUME NEW acts, queue[t] \in Seq(Entries(acts)) PROVE Q[t] \in Seq(Entries(acts))
    BY <1>2, <1>10, HeadTailProperties
  <1>11. /\ \A e \in {"offscreen", "local"} : Q[e] \in Seq(Entries({"resume", "check"}))
         /\ Q["completion"] \in Seq(Entries({"again", "watch"}))
    BY <1>1, <1>2, <1>10, QueuesAre DEF QueuesTyped
  <1>12. QED
    BY <1>2, <1>6, <1>7, <1>8, <1>9, <1>11 DEF Within


\* A job that a queue other than the pool's will resume is not in the pool, is
\* watched by nobody who has it in a queue, and waits for no child.
LEMMA OnlyThere ==
    ASSUME IInv, NEW t \in Queues, NEW x \in In(queue, t)
    PROVE  /\ \A y \in pool : y.job # x.job
           /\ \A d \in completables : d # x.job
           /\ remaining[x.job] = {}
  <1>1. TypeOK /\ EntriesDue
    BY InvParts
  <1>2. Due(t, x) /\ t # "pool" /\ x.job \in Jobs
    BY <1>1, QueueTypes, QueuesAre DEF EntriesDue
  <1>3. ASSUME NEW y \in pool PROVE y.job # x.job
    <2>1. Due("pool", y) /\ y.act = "resume"
      <3>1. y \in Entries({"resume"})
        BY <1>1 DEF TypeOK
      <3>2. QED
        BY <1>1, <3>1, EntriesAre DEF EntriesDue
    <2>2. Waits(y.job, "go") /\ Last(y.job).on = "pool"
      BY <2>1 DEF Due
    <2>3. QED
      BY <1>2, <2>2 DEF Due, Waits
  <1>4. ASSUME NEW d \in completables PROVE d # x.job
    <2>1. Waits(d, "poll") /\ \A y \in In(queue, "completion") : y.job # d
      BY <1>1 DEF EntriesDue
    <2>2. QED
      BY <1>2, <2>1 DEF Due, Waits
  <1>5. ~Waits(x.job, "join")
    BY <1>2 DEF Due, Waits
  <1>6. QED
    BY <1>1, <1>2, <1>3, <1>4, <1>5 DEF EntriesDue

\* An entry of t goes, and another of the same job is put into e.
LEMMA Moves ==
    ASSUME IInv, NEW t \in Queues, queue[t] # <<>>,
           NEW h, h = Head(queue[t]), NEW c, c = h.job,
           NEW e \in Queues, NEW act \in {"resume", "check", "again", "watch"}, Suits(e, act),
           Due(e, Entry(c, act)),
           queue' = [[queue EXCEPT ![t] = Tail(@)] EXCEPT ![e] = Append(@, Entry(c, act))],
           UNCHANGED <<at, step, thread, remaining, signaled, pool, completables, heapVars>>,
           MainTyped'
    PROVE  IInv'
  <1>0. PICK x : x = Entry(c, act)
    OBVIOUS
  <1>1. /\ TypeOK /\ EntriesDue /\ QueuesTyped /\ RunsWhereScheduled /\ Lives /\ JobsTyped
    BY InvParts
  <1>2. PICK Q : Q = [queue EXCEPT ![t] = Tail(@)]
    OBVIOUS
  <1>3. /\ h \in In(queue, t) /\ c \in Jobs
        /\ DOMAIN Q = Queues
        /\ \A f \in {"offscreen", "local"} : Q[f] \in Seq(Entries({"resume", "check"}))
        /\ Q["completion"] \in Seq(Entries({"again", "watch"}))
        /\ \A f \in Queues : \A y \in In(Q, f) : y \in In(queue, f)
        /\ Fresh(Q, c)
        /\ Once(Q)
    BY <1>2, TakenFacts
  <1>4. x \in AllEntries /\ x.job = c /\ \A acts : act \in acts => x \in Entries(acts)
    BY <1>0, <1>3, EntryFacts
  <1>5. /\ queue'[e] = Append(Q[e], x) /\ DOMAIN queue' = Queues
        /\ \A f \in Queues : f # e => queue'[f] = Q[f]
    BY <1>0, <1>2, <1>3
  <1>6. Q[e] \in Seq(AllEntries)
    <2>1. Entries({"resume", "check"}) \subseteq AllEntries /\ Entries({"again", "watch"}) \subseteq AllEntries
      BY DEF AllEntries, Entries
    <2>2. QED
      BY <1>3, <2>1, SeqIn, QueuesAre
  <1>7. Pushes(Q, queue', e, x)
    BY <1>4, <1>5, <1>6 DEF Pushes
  <1>8. Gains(queue', Q, e, x)
    BY <1>7, Pushed
  <1>9. Once(queue')
    BY <1>3, <1>4, <1>7, Pushed
  <1>10. QueuesTyped'
    <2>1. ASSUME NEW acts, act \in acts, Q[e] \in Seq(Entries(acts))
          PROVE  queue'[e] \in Seq(Entries(acts))
      <3>1. x \in Entries(acts)
        BY <1>4, <2>1
      <3>2. Append(Q[e], x) \in Seq(Entries(acts))
        BY <2>1, <3>1, AppendProperties
      <3>3. QED
        BY <1>5, <3>2
    <2>2. e = "completion" => queue'[e] \in Seq(Entries({"again", "watch"}))
      BY <1>3, <2>1 DEF Suits
    <2>3. e # "completion" => queue'[e] \in Seq(Entries({"resume", "check"}))
      BY <1>3, <2>1, QueuesAre DEF Suits
    <2>4. QED
      BY <1>1, <1>3, <1>5, <2>2, <2>3, QueuesAre DEF QueuesTyped
  <1>11. EntriesDue'
    <2>1. \A f, y : Due(f, y) => Due(f, y)'
      BY DEF Due, Waits, Last
    <2>2. \A f \in Queues : \A y \in In(queue', f) : Due(f, y)'
      BY <1>0, <1>1, <1>3, <1>8, <2>1 DEF EntriesDue, Gains
    <2>3. \A y \in pool' : Due("pool", y)'
      BY <1>1, <2>1 DEF EntriesDue
    <2>4. ASSUME NEW d \in completables'
          PROVE  Waits(d, "poll")' /\ \A y \in In(queue', "completion") : y.job # d
      <3>1. d # c /\ "completion" \in Queues
        BY <1>3, <2>4, OnlyThere, QueuesAre
      <3>2. Waits(d, "poll") /\ \A y \in In(queue, "completion") : y.job # d
        BY <1>1, <2>4 DEF EntriesDue
      <3>3. QED
        BY <1>3, <1>4, <1>8, <3>1, <3>2 DEF Waits, Last, Gains
    <2>5. \A d \in Jobs : remaining'[d] # {} => Waits(d, "join")'
      BY <1>1 DEF EntriesDue, Waits, Last
    <2>6. QED
      BY <1>9, <2>2, <2>3, <2>4, <2>5 DEF EntriesDue
  <1>12. JobsTyped'
    BY <1>1 DEF JobsTyped
  <1>13. RunsWhereScheduled'
    BY <1>1, RunsKept
  <1>14. Lives' /\ HeapTyped'
    BY <1>1, SameLives
  <1>15. QED
    BY <1>10, <1>11, <1>12, <1>13, <1>14, InvSplit

LEMMA TakeKeeps ==
    ASSUME IInv, NEW t \in {"offscreen", "local"}, Take(t), MainTyped'
    PROVE  IInv'
  <1>1. PICK x, c : x = Head(queue[t]) /\ c = x.job
    OBVIOUS
  <1>2. PICK Q : Q = [queue EXCEPT ![t] = Tail(@)]
    OBVIOUS
  <1>3. /\ t \in Queues /\ t \in Threads /\ t # "completion" /\ queue[t] # <<>>
        /\ UNCHANGED <<step, signaled, remaining, pool, completables, heapVars>>
    BY QueuesAre DEF Take
  <1>4. /\ x \in In(queue, t) /\ c \in Jobs /\ Due(t, x) /\ at[c] = "suspended"
        /\ DOMAIN Q = Queues
        /\ \A e \in {"offscreen", "local"} : Q[e] \in Seq(Entries({"resume", "check"}))
        /\ Q["completion"] \in Seq(Entries({"again", "watch"}))
        /\ \A f \in Queues : \A y \in In(Q, f) : y \in In(queue, f)
        /\ Fresh(Q, c)
        /\ Once(Q)
    BY <1>1, <1>2, <1>3, TakenFacts
  <1>5. /\ \A y \in pool : y.job # c
        /\ \A d \in completables : d # c
        /\ remaining[c] = {}
    BY <1>1, <1>3, <1>4, OnlyThere
  <1>6. CASE /\ x.act = "resume" \/ (x.act = "check" /\ c \in signaled)
             /\ Resume(c, t) /\ queue' = Q
    <2>1. Last(c).op \in {"go", "fence"} => Last(c).on = t
      BY <1>1, <1>3, <1>4 DEF Due
    <2>2. Last(c).op = "fence" => c \in signaled
      BY <1>1, <1>3, <1>4, <1>6 DEF Due, Waits
    <2>3. QueuesTyped'
      <3>1. QueuesTyped
        BY InvParts
      <3>2. QED
        BY <1>3, <1>4, <1>6, <3>1 DEF QueuesTyped
    <2>4. QED
      <3>1. \A f \in Queues : \A y \in In(queue', f) : y \in In(queue, f) /\ y.job # c
        BY <1>4, <1>6 DEF Fresh
      <3>2. QED
        BY <1>3, <1>4, <1>5, <1>6, <2>1, <2>2, <2>3, <3>1, Resumes
  <1>7. CASE /\ x.act = "check" /\ c \notin signaled
             /\ queue' = [Q EXCEPT !["completion"] = Append(@, Entry(c, "again"))]
             /\ UNCHANGED <<at, thread>>
    <2>1. Due("completion", Entry(c, "again"))
      <3>1. Waits(c, "fence")
        BY <1>1, <1>3, <1>4, <1>7 DEF Due
      <3>2. Entry(c, "again").job = c /\ Entry(c, "again").act = "again"
        BY DEF Entry
      <3>3. QED
        BY <3>1, <3>2 DEF Due
    <2>2. Suits("completion", "again") /\ "completion" \in Queues
      BY QueuesAre DEF Suits
    <2>3. QED
      BY <1>1, <1>2, <1>3, <1>7, <2>1, <2>2, Moves
  <1>8. QED
    BY <1>1, <1>2, <1>6, <1>7 DEF Take


LEMMA CompletionTakeKeeps ==
    ASSUME IInv, CompletionTake
    PROVE  IInv'
  <1> DEFINE t == "completion"
  <1>1. PICK x, c : x = Head(queue[t]) /\ c = x.job
    OBVIOUS
  <1>2. PICK Q : Q = [queue EXCEPT ![t] = Tail(@)]
    OBVIOUS
  <1>3. /\ t \in Queues /\ queue[t] # <<>>
        /\ UNCHANGED <<at, step, thread, remaining, signaled, pool, heapVars, mainVars>>
    BY QueuesAre DEF CompletionTake, jobVars
  <1>4. /\ x \in In(queue, t) /\ c \in Jobs /\ Due(t, x) /\ at[c] = "suspended"
        /\ DOMAIN Q = Queues
        /\ \A e \in {"offscreen", "local"} : Q[e] \in Seq(Entries({"resume", "check"}))
        /\ Q["completion"] \in Seq(Entries({"again", "watch"}))
        /\ \A f \in Queues : \A y \in In(Q, f) : y \in In(queue, f)
        /\ Fresh(Q, c)
        /\ Once(Q)
    BY <1>1, <1>2, <1>3, TakenFacts
  <1>5. /\ TypeOK /\ EntriesDue /\ QueuesTyped /\ RunsWhereScheduled /\ Lives /\ JobsTyped
        /\ MainTyped
    BY InvParts
  <1>6. MainTyped'
    BY <1>3, <1>5 DEF MainTyped, mainVars
  <1>7. CASE /\ x.act = "again" /\ UNCHANGED completables
             /\ queue' = [Q EXCEPT ![Last(c).on] = Append(@, Entry(c, "check"))]
    <2>1. PICK e : e = Last(c).on
      OBVIOUS
    <2>2. Waits(c, "fence")
      BY <1>1, <1>4, <1>7 DEF Due
    <2>3. e \in {"offscreen", "local"}
      <3>1. Last(c) \in StepKinds /\ Last(c).op = "fence"
        BY <1>4, <1>5, <2>2, StepFacts DEF Waits
      <3>2. QED
        BY <2>1, <3>1, KindFacts
    <2>4. Due(e, Entry(c, "check"))
      <3>1. Entry(c, "check").job = c /\ Entry(c, "check").act = "check"
        BY DEF Entry
      <3>2. QED
        BY <2>1, <2>2, <2>3, <3>1 DEF Due
    <2>5. Suits(e, "check") /\ e \in Queues
      BY <2>3, QueuesAre DEF Suits
    <2>6. QED
      BY <1>1, <1>2, <1>3, <1>6, <1>7, <2>1, <2>4, <2>5, Moves
  <1>8. CASE x.act = "watch" /\ completables' = completables \cup {c} /\ queue' = Q
    <2>1. Waits(c, "poll")
      BY <1>1, <1>4, <1>8 DEF Due
    <2>2. JobsTyped'
      BY <1>3, <1>4, <1>5, <1>8 DEF JobsTyped
    <2>3. QueuesTyped'
      BY <1>3, <1>4, <1>5, <1>8 DEF QueuesTyped
    <2>4. RunsWhereScheduled'
      BY <1>3, <1>5, RunsKept
    <2>5. Lives' /\ HeapTyped'
      BY <1>3, <1>5, SameLives
    <2>6. EntriesDue'
      <3>1. \A f, y : Due(f, y) => Due(f, y)'
        BY <1>3 DEF Due, Waits, Last
      <3>2. \A f \in Queues : \A y \in In(queue', f) : Due(f, y)'
        BY <1>4, <1>5, <1>8, <3>1 DEF EntriesDue
      <3>3. \A y \in pool' : Due("pool", y)'
        BY <1>3, <1>5, <3>1 DEF EntriesDue
      <3>4. \A d \in completables' : Waits(d, "poll")'
        BY <1>3, <1>5, <1>8, <2>1 DEF EntriesDue, Waits, Last
      <3>5. \A d \in completables' : \A y \in In(queue', "completion") : y.job # d
        BY <1>3, <1>4, <1>5, <1>8 DEF EntriesDue, Fresh
      <3>6. \A d \in Jobs : remaining'[d] # {} => Waits(d, "join")'
        BY <1>3, <1>5 DEF EntriesDue, Waits, Last
      <3>7. QED
        BY <1>4, <1>8, <3>2, <3>3, <3>4, <3>5, <3>6 DEF EntriesDue
    <2>7. QED
      BY <1>6, <2>2, <2>3, <2>4, <2>5, <2>6, InvSplit
  <1>9. QED
    BY <1>1, <1>2, <1>7, <1>8 DEF CompletionTake, Last

LEMMA CompletionSweepKeeps ==
    ASSUME IInv, NEW c \in Jobs, CompletionSweep(c)
    PROVE  IInv'
  <1>1. TypeOK /\ EntriesDue /\ MainTyped /\ QueuesTyped
    BY InvParts
  <1>2. /\ c \in completables /\ completables' = completables \ {c}
        /\ Resume(c, "completion") /\ "completion" \in Threads /\ "completion" \in Queues
        /\ UNCHANGED <<step, signaled, remaining, pool, queue, heapVars, mainVars>>
    BY QueuesAre DEF CompletionSweep
  <1>3. Waits(c, "poll") /\ \A y \in In(queue, "completion") : y.job # c
    BY <1>1, <1>2 DEF EntriesDue
  <1>4. \A y \in pool' : y \in pool /\ y.job # c
    <2>1. \A y \in pool : Due("pool", y)
      BY <1>1 DEF EntriesDue
    <2>2. QED
      BY <1>2, <1>3, <2>1 DEF Due, Waits
  <1>5. \A f \in Queues : \A y \in In(queue', f) : y \in In(queue, f) /\ y.job # c
    BY <1>2, OnlyThere
  <1>6. \A d \in completables' : d \in completables /\ d # c
    BY <1>2
  <1>7. remaining[c] = {} /\ at[c] = "suspended" /\ Last(c).op = "poll"
    BY <1>1, <1>3 DEF EntriesDue, Waits
  <1>8. QueuesTyped' /\ MainTyped' /\ Once(queue')
    BY <1>1, <1>2 DEF QueuesTyped, MainTyped, mainVars, EntriesDue
  <1>9. QED
    BY <1>2, <1>4, <1>5, <1>6, <1>7, <1>8, Resumes

-----------------------------------------------------------------------------
(* Frames *)

LEMMA CountBirth ==
    ASSUME CountIsFrames, count \in Nat, NEW c, c \notin frames, frames' = frames \cup {c},
           count' = IF c \in Guarded THEN count + 1 ELSE count
    PROVE  CountIsFrames' /\ count' \in Nat
  <1>1. IsFiniteSet(frames) /\ IsFiniteSet(frames \cap Guarded) /\ c \notin frames \cap Guarded
    <2>1. IsFiniteSet(frames) /\ frames \cap Guarded \in SUBSET frames
      BY DEF CountIsFrames
    <2>2. QED
      BY <2>1, FS_Subset
  <1>2. IsFiniteSet(frames')
    BY <1>1, FS_AddElement
  <1>3. CASE c \in Guarded
    <2>1. frames' \cap Guarded = (frames \cap Guarded) \cup {c}
      BY <1>3
    <2>2. Cardinality((frames \cap Guarded) \cup {c}) = Cardinality(frames \cap Guarded) + 1
      BY <1>1, FS_AddElement
    <2>3. QED
      BY <1>2, <1>3, <2>1, <2>2 DEF CountIsFrames
  <1>4. CASE c \notin Guarded
    <2>1. frames' \cap Guarded = frames \cap Guarded
      BY <1>4
    <2>2. QED
      BY <1>2, <1>4, <2>1 DEF CountIsFrames
  <1>5. QED
    BY <1>3, <1>4

LEMMA CountFree ==
    ASSUME CountIsFrames, NEW freed, freed \subseteq frames, Free(freed)
    PROVE  CountIsFrames' /\ count' \in Nat /\ frames' = frames \ freed
  <1> DEFINE G == frames \cap Guarded
  <1>1. /\ IsFiniteSet(frames) /\ count = Cardinality(G)
        /\ frames' = frames \ freed /\ count' = count - Cardinality(freed \cap Guarded)
    BY DEF CountIsFrames, Free
  <1>2. /\ G \in SUBSET frames /\ frames' \in SUBSET frames
        /\ freed \cap Guarded \in SUBSET G /\ G \cap freed = freed \cap Guarded
        /\ frames' \cap Guarded = G \ freed
    BY <1>1
  <1>3. IsFiniteSet(G) /\ IsFiniteSet(frames')
    BY <1>1, <1>2, FS_Subset
  <1>4. /\ Cardinality(G) \in Nat /\ Cardinality(freed \cap Guarded) \in Nat
        /\ Cardinality(freed \cap Guarded) <= Cardinality(G)
    <2>1. IsFiniteSet(freed \cap Guarded) /\ Cardinality(freed \cap Guarded) <= Cardinality(G)
      BY <1>2, <1>3, FS_Subset
    <2>2. QED
      BY <1>3, <2>1, FS_CardinalityType
  <1>5. Cardinality(G \ freed) = Cardinality(G) - Cardinality(G \cap freed)
    BY <1>3, FS_Difference
  <1>6. count' = Cardinality(frames' \cap Guarded)
    BY <1>1, <1>2, <1>5
  <1>7. count' \in Nat
    BY <1>1, <1>4
  <1>8. QED
    BY <1>1, <1>3, <1>6, <1>7 DEF CountIsFrames

LEMMA ChildFacts ==
    ASSUME NEW c \in Jobs, NEW d \in Children[c]
    PROVE  /\ d \in Jobs /\ d # c /\ d \notin Roots
           /\ \A p \in Jobs : d \in Children[p] => p = c
           /\ Len(Steps[d]) \in Nat /\ Len(Steps[d]) >= 1
           /\ Steps[d][1] \in StepKinds /\ Steps[d][1].op = "go"
           /\ Steps[d][1].on \in Executors
  <1>1. /\ d \in Jobs /\ d # c /\ Steps[d] # <<>> /\ Steps[d][1].op = "go"
        /\ Steps[d] \in Seq(StepKinds)
    BY CradleAssumption
  <1>2. d \notin Roots
    BY DEF Roots
  <1>3. \A p \in Jobs : d \in Children[p] => p = c
    BY CradleAssumption
  <1>4. Len(Steps[d]) \in Nat /\ Len(Steps[d]) # 0
    BY <1>1, LenProperties, EmptySeq
  <1>5. Len(Steps[d]) >= 1 /\ 1 \in 1..Len(Steps[d])
    BY <1>4
  <1>6. Steps[d][1] \in StepKinds
    BY <1>1, <1>5, ElementOfSeq
  <1>7. QED
    BY <1>1, <1>2, <1>3, <1>4, <1>5, <1>6, KindFacts

\* A job is born: it is started, or it is a child of one that is under way.
LEMMA Births ==
    ASSUME IInv, NEW c \in Jobs, at[c] = "unborn",
           NEW s \in {"running", "suspended"},
           \A d \in Jobs : at'[d] = IF d = c THEN s ELSE at[d],
           \A p \in Jobs : c \in Children[p] => at[p] # "unborn",
           \A d \in Jobs : at[d] = "unborn" /\ d # c => step'[d] = step[d],
           frames' = frames \cup {c},
           viewed' = viewed \/ (c \in Roots /\ viewed' = viewed \cup {c}),
           count' = IF c \in Guarded THEN count + 1 ELSE count
    PROVE  Lives' /\ HeapTyped'
  <1>1. TypeOK /\ JobsTyped /\ HeapTyped /\ UnbornAreIdle /\ FramesNeeded /\ CountIsFrames
    BY InvParts DEF Lives
  <1>2. c \notin frames /\ count \in Nat
    BY <1>1 DEF FramesNeeded, HeapTyped
  <1>3. CountIsFrames' /\ count' \in Nat
    BY <1>1, <1>2, CountBirth
  <1>4. HeapTyped'
    BY <1>1, <1>3 DEF HeapTyped
  <1>5. UnbornAreIdle'
    <2>1. \A d \in Jobs : Children[d] \subseteq Jobs
      BY CradleAssumption
    <2>2. ASSUME NEW d \in Jobs, at'[d] = "unborn"
          PROVE  step'[d] = 1 /\ \A x \in Children[d] : at'[x] = "unborn"
      <3>1. at[d] = "unborn" /\ d # c
        BY <2>2
      <3>2. c \notin Children[d]
        BY <3>1
      <3>3. QED
        BY <1>1, <2>1, <3>1, <3>2 DEF UnbornAreIdle
    <2>3. QED
      BY <2>2 DEF UnbornAreIdle
  <1>6. ASSUME NEW d \in Jobs, at'[d] = "ended", Held(d)' PROVE d \in frames
    <2>1. at[d] = "ended" /\ d # c
      BY <1>6
    <2>2. \A p \in Jobs : d \in Children[p] /\ at'[p] \notin {"unborn", "ended"}
                          => at[p] \notin {"unborn", "ended"}
      BY <1>1, <2>1 DEF UnbornAreIdle
    <2>3. Held(d)
      BY <1>6, <2>1, <2>2 DEF Held
    <2>4. QED
      BY <1>1, <2>1, <2>3 DEF FramesNeeded
  <1>7. FramesNeeded'
    <2>1. \A d \in Jobs : at'[d] \in {"running", "suspended", "ready"} => d \in frames'
      BY <1>1 DEF FramesNeeded
    <2>2. \A d \in frames' : at'[d] # "unborn"
      BY <1>1 DEF FramesNeeded, HeapTyped
    <2>3. viewed' \subseteq Roots
      BY <1>1 DEF FramesNeeded
    <2>4. QED
      BY <1>6, <2>1, <2>2, <2>3 DEF FramesNeeded
  <1>8. QED
    BY <1>3, <1>4, <1>5, <1>7 DEF Lives

LEMMA StartKeeps ==
    ASSUME IInv, NEW c \in Jobs, Start(c)
    PROVE  IInv'
  <1>1. /\ TypeOK /\ EntriesDue /\ RunsWhereScheduled /\ Lives /\ MainTyped
        /\ JobsTyped /\ QueuesTyped
    BY InvParts
  <1>2. /\ c \in Roots /\ at[c] = "unborn" /\ "local" \in Threads
        /\ \A d \in Jobs : /\ at'[d] = IF d = c THEN "running" ELSE at[d]
                           /\ thread'[d] = IF d = c THEN "local" ELSE thread[d]
        /\ at' \in [Jobs -> {"unborn", "running", "suspended", "ready", "ended"}]
        /\ thread' \in [Jobs -> Threads \cup {Nowhere}]
        /\ UNCHANGED <<step, remaining, signaled, pool, queue, completables, mainVars>>
    BY <1>1, QueuesAre DEF Start, Resume, JobsTyped
  <1>3. JobsTyped' /\ QueuesTyped' /\ MainTyped'
    BY <1>1, <1>2 DEF JobsTyped, QueuesTyped, MainTyped, mainVars
  <1>4. RunsWhereScheduled'
    <2>1. step'[c] = 1
      BY <1>1, <1>2 DEF Lives, UnbornAreIdle
    <2>2. QED
      BY <1>1, <1>2, <2>1, RunsKept
  <1>5. EntriesDue'
    BY <1>1, <1>2, EntriesFrame
  <1>6. Lives' /\ HeapTyped'
    <2>1. \A p \in Jobs : c \in Children[p] => at[p] # "unborn"
      BY <1>2 DEF Roots
    <2>2. /\ frames' = frames \cup {c}
          /\ viewed' = viewed \/ (c \in Roots /\ viewed' = viewed \cup {c})
          /\ count' = IF c \in Guarded THEN count + 1 ELSE count
      BY <1>2 DEF Start
    <2>3. QED
      BY <1>2, <2>1, <2>2, Births
  <1>7. QED
    BY <1>3, <1>4, <1>5, <1>6, InvSplit

LEMMA SpawnKeeps ==
    ASSUME IInv, NEW c \in Jobs, SpawnChild(c)
    PROVE  IInv'
  <1>1. /\ TypeOK /\ EntriesDue /\ RunsWhereScheduled /\ Lives /\ MainTyped
        /\ JobsTyped /\ QueuesTyped /\ Awaits(c, "spawn")
    BY InvParts DEF SpawnChild
  <1>2. PICK d \in Children[c] :
          /\ at[d] = "unborn"
          /\ at' = [at EXCEPT ![d] = "suspended"]
          /\ step' = [step EXCEPT ![c] = IF \E x \in Children[c] \ {d} : at[x] = "unborn"
                                         THEN @ ELSE @ + 1,
                                  ![d] = 2]
          /\ Emplace(Steps[d][1].on, Entry(d, "resume"))
          /\ frames' = frames \cup {d}
          /\ count' = IF d \in Guarded THEN count + 1 ELSE count
    BY DEF SpawnChild
  <1>3. UNCHANGED <<thread, signaled, remaining, completables, viewed, mainVars>>
    BY DEF SpawnChild
  <1>4. /\ d \in Jobs /\ d # c /\ \A p \in Jobs : d \in Children[p] => p = c
        /\ Len(Steps[d]) \in Nat /\ Len(Steps[d]) >= 1
        /\ Steps[d][1].op = "go" /\ Steps[d][1].on \in Executors
    BY ChildFacts
  <1>5. /\ step[c] \in Nat /\ step[c] + 1 - 1 = step[c] /\ at[c] = "running"
        /\ step[c] + 1 \in Nat /\ step[c] + 1 \in 1..(Len(Steps[c]) + 1)
        /\ Steps[c][step[c]].op = "spawn"
    BY <1>1, StepFacts, AwaitsFacts
  <1>6. /\ \A x \in Jobs : x # c /\ x # d => step'[x] = step[x]
        /\ step'[d] = 2 /\ step'[c] \in {step[c], step[c] + 1}
        /\ \A x \in Jobs : at'[x] = IF x = d THEN "suspended" ELSE at[x]
        /\ at' \in [Jobs -> {"unborn", "running", "suspended", "ready", "ended"}]
        /\ step' \in [Jobs -> Nat]
    BY <1>1, <1>2, <1>4, <1>5 DEF JobsTyped
  <1>7. JobsTyped'
    <2>1. 2 \in 1..(Len(Steps[d]) + 1)
      BY <1>4
    <2>2. \A x \in Jobs : step'[x] \in 1..(Len(Steps[x]) + 1)
      BY <1>1, <1>4, <1>5, <1>6, <2>1 DEF JobsTyped
    <2>3. QED
      BY <1>1, <1>3, <1>6, <2>2 DEF JobsTyped
  <1>8. PICK e : e = Steps[d][1].on
    OBVIOUS
  <1>9. e \in Threads /\ e # "completion" /\ Suits(e, "resume")
    BY <1>4, <1>8, QueuesAre DEF Suits
  <1>10. Due(e, Entry(d, "resume"))'
    <2>1. step'[d] > 1 /\ step'[d] - 1 = 1 /\ at'[d] = "suspended"
      BY <1>4, <1>6
    <2>2. Last(d)' = Steps[d][1]
      BY <2>1 DEF Last
    <2>3. Entry(d, "resume").job = d /\ Entry(d, "resume").act = "resume"
      BY DEF Entry
    <2>4. QED
      BY <1>4, <1>8, <1>9, <2>1, <2>2, <2>3 DEF Due, Waits
  <1>11. QueuesTyped' /\ EntriesDue'
    <2>1. \A x \in Jobs : at[x] = "suspended" => at'[x] = at[x] /\ step'[x] = step[x]
      BY <1>2, <1>5, <1>6
    <2>2. Emplace(e, Entry(d, "resume")) /\ at[d] # "suspended"
      BY <1>2, <1>8
    <2>3. QED
      BY <1>1, <1>3, <1>4, <1>9, <1>10, <2>1, <2>2, EmplacedDue
  <1>12. RunsWhereScheduled'
    <2>1. step'[c] = step[c] \/ Last(c)'.op = "spawn"
      <3>1. CASE step'[c] = step[c] + 1
        <4>1. step'[c] - 1 = step[c]
          BY <1>5, <3>1
        <4>2. QED
          BY <1>5, <4>1 DEF Last
      <3>2. QED
        BY <1>6, <3>1
    <2>2. QED
      BY <1>1, <1>3, <1>6, <2>1, RunsKept
  <1>13. Lives' /\ HeapTyped'
    <2>1. \A p \in Jobs : d \in Children[p] => at[p] # "unborn"
      BY <1>4, <1>5
    <2>2. \A x \in Jobs : at[x] = "unborn" /\ x # d => step'[x] = step[x]
      BY <1>5, <1>6
    <2>3. QED
      BY <1>2, <1>3, <1>4, <1>6, <2>1, <2>2, Births
  <1>14. MainTyped'
    BY <1>1, <1>3 DEF MainTyped, mainVars
  <1>15. QED
    BY <1>7, <1>11, <1>12, <1>13, <1>14, InvSplit


\* Frames are freed, of jobs that ended and that nobody holds any more.
LEMMA Deaths ==
    ASSUME IInv, NEW freed, freed \subseteq frames, Free(freed),
           viewed' \subseteq viewed, viewed' \cap freed = {},
           \A d \in Jobs : at'[d] = "unborn" <=> at[d] = "unborn",
           \A d \in Jobs : at[d] = "unborn" => step'[d] = step[d],
           \A d \in freed : at'[d] \notin {"running", "suspended", "ready"},
           \A d \in freed : ~Held(d)',
           \A d \in Jobs : at'[d] = "ended" /\ Held(d)' => d \in frames,
           \A d \in Jobs : at'[d] \in {"running", "suspended", "ready"}
                           => at[d] \in {"running", "suspended", "ready"}
    PROVE  Lives' /\ HeapTyped'
  <1>1. HeapTyped /\ UnbornAreIdle /\ FramesNeeded /\ CountIsFrames
    BY InvParts DEF Lives
  <1>2. CountIsFrames' /\ count' \in Nat /\ frames' = frames \ freed
    BY <1>1, CountFree
  <1>3. HeapTyped'
    BY <1>1, <1>2 DEF HeapTyped
  <1>4. UnbornAreIdle'
    <2>1. \A d \in Jobs : Children[d] \subseteq Jobs
      BY CradleAssumption
    <2>2. QED
      BY <1>1, <2>1 DEF UnbornAreIdle
  <1>5. FramesNeeded'
    <2>1. \A d \in Jobs : at'[d] \in {"running", "suspended", "ready"} => d \in frames'
      BY <1>1, <1>2 DEF FramesNeeded
    <2>2. \A d \in frames' : at'[d] # "unborn"
      BY <1>1, <1>2 DEF FramesNeeded, HeapTyped
    <2>3. viewed' \subseteq Roots
      BY <1>1 DEF FramesNeeded
    <2>4. \A d \in Jobs : at'[d] = "ended" /\ Held(d)' => d \in frames'
      BY <1>2
    <2>5. QED
      BY <2>1, <2>2, <2>3, <2>4 DEF FramesNeeded
  <1>6. QED
    BY <1>2, <1>3, <1>4, <1>5 DEF Lives

LEMMA RetireKeeps ==
    ASSUME IInv, NEW c \in Jobs, Retire(c)
    PROVE  IInv'
  <1> DEFINE freed == IF at[c] = "ended" THEN {c} ELSE {}
  <1>1. /\ TypeOK /\ EntriesDue /\ RunsWhereScheduled /\ Lives /\ MainTyped
        /\ JobsTyped /\ QueuesTyped /\ HeapTyped /\ FramesNeeded
    BY InvParts DEF Lives
  <1>2. /\ c \in viewed /\ viewed' = viewed \ {c} /\ Free(freed)
        /\ at' = at /\ step' = step /\ thread' = thread /\ remaining' = remaining
        /\ UNCHANGED <<signaled, pool, queue, completables, mainVars>>
    BY DEF Retire, jobVars
  <1>3. JobsTyped' /\ QueuesTyped' /\ MainTyped'
    BY <1>1, <1>2 DEF JobsTyped, QueuesTyped, MainTyped, mainVars
  <1>4. RunsWhereScheduled'
    BY <1>1, <1>2, RunsKept
  <1>5. EntriesDue'
    BY <1>1, <1>2, EntriesFrame
  <1>6. Lives' /\ HeapTyped'
    <2>1. c \in Roots /\ c \in frames
      BY <1>1, <1>2 DEF FramesNeeded, HeapTyped
    <2>2. ~Held(c)'
      BY <1>2, <2>1 DEF Held, Roots
    <2>3. \A d \in Jobs : Held(d)' => Held(d)
      BY <1>2 DEF Held
    <2>4. \A d \in Jobs : at'[d] = "ended" /\ Held(d)' => d \in frames
      BY <1>1, <1>2, <2>3 DEF FramesNeeded
    <2>5. /\ freed \subseteq frames /\ viewed' \subseteq viewed /\ viewed' \cap freed = {}
          /\ \A d \in freed : d = c /\ at[d] = "ended"
      BY <1>2, <2>1
    <2>6. /\ \A d \in freed : at'[d] \notin {"running", "suspended", "ready"}
          /\ \A d \in freed : ~Held(d)'
      <3>1. \A d \in freed : at'[d] \notin {"running", "suspended", "ready"}
        BY <1>2, <2>5
      <3>2. ASSUME NEW d \in freed PROVE ~Held(d)'
        BY <2>2, <2>5
      <3>3. QED
        BY <3>1, <3>2
    <2>7. QED
      BY <1>2, <2>4, <2>5, <2>6, Deaths
  <1>7. QED
    BY <1>3, <1>4, <1>5, <1>6, InvSplit

LEMMA FinalSuspendKeeps ==
    ASSUME IInv, NEW c \in Jobs, FinalSuspend(c)
    PROVE  IInv'
  <1> DEFINE waiting == {p \in Jobs : remaining[p] = {c}}
  <1> DEFINE done == {d \in Children[c] : at[d] = "ended"}
  <1> DEFINE freed == done \cup (IF Held(c) THEN {} ELSE {c})
  <1>1. /\ TypeOK /\ EntriesDue /\ RunsWhereScheduled /\ Lives /\ MainTyped
        /\ JobsTyped /\ QueuesTyped /\ HeapTyped /\ FramesNeeded /\ UnbornAreIdle
    BY InvParts DEF Lives
  <1>2. /\ at[c] = "ready" /\ Free(freed)
        /\ at' = [d \in Jobs |-> IF d = c THEN "ended"
                                 ELSE IF d \in waiting THEN "running" ELSE at[d]]
        /\ thread' = [d \in Jobs |-> IF d = c THEN Nowhere
                                     ELSE IF d \in waiting THEN thread[c] ELSE thread[d]]
        /\ remaining' = [p \in Jobs |-> remaining[p] \ {c}]
        /\ UNCHANGED <<step, signaled, pool, queue, completables, viewed, mainVars>>
    BY DEF FinalSuspend
  <1>3. \A p \in waiting : Waits(p, "join") /\ p # c /\ at[p] = "suspended"
    BY <1>1, <1>2 DEF EntriesDue, Waits
  <1>4. JobsTyped'
    <2>1. thread' \in [Jobs -> Threads \cup {Nowhere}]
      BY <1>1, <1>2 DEF JobsTyped
    <2>2. at' \in [Jobs -> {"unborn", "running", "suspended", "ready", "ended"}]
      BY <1>1, <1>2 DEF JobsTyped
    <2>3. remaining' \in [Jobs -> SUBSET Jobs]
      BY <1>1, <1>2 DEF JobsTyped
    <2>4. QED
      BY <1>1, <1>2, <2>1, <2>2, <2>3 DEF JobsTyped
  <1>5. QueuesTyped' /\ MainTyped'
    BY <1>1, <1>2 DEF QueuesTyped, MainTyped, mainVars
  <1>6. /\ \A d \in Jobs : at'[d] = IF d = c THEN "ended"
                                    ELSE IF d \in waiting THEN "running" ELSE at[d]
        /\ \A d \in Jobs : d \notin waiting /\ d # c => thread'[d] = thread[d]
    BY <1>2
  <1>7. RunsWhereScheduled'
    <2>1. \A d \in waiting : Last(d)'.op = "join"
      BY <1>2, <1>3 DEF Waits, Last
    <2>2. ASSUME NEW d \in Jobs, at'[d] = "running"
          PROVE  \/ at[d] = "running" /\ thread'[d] = thread[d]
                 \/ Last(d)'.op = "join"
      BY <1>6, <2>1, <2>2
    <2>3. QED
      BY <1>1, <1>2, <2>2, RunsKept
  <1>8. EntriesDue'
    <2> DEFINE S == {d \in Jobs : at[d] = "suspended" /\ ~Waits(d, "join")}
    <2>1. \A d \in S : at'[d] = at[d] /\ step'[d] = step[d]
      BY <1>2, <1>3, <1>6
    <2>2. \A f \in Threads : \A y : y.job \in Jobs /\ Due(f, y) => y.job \in S
      BY DEF Due, Waits
    <2>3. \A y \in pool' : y \in pool /\ y.job \in S
      <3>1. "pool" \in Threads /\ \A y \in pool : Due("pool", y) /\ y.job \in Jobs
        BY <1>1, QueueTypes, QueuesAre DEF EntriesDue
      <3>2. QED
        BY <1>2, <2>2, <3>1
    <2>4. \A f \in Queues : \A y \in In(queue', f) : y \in In(queue, f) /\ y.job \in S
      <3>1. \A f \in Queues : f \in Threads /\ \A y \in In(queue, f) : Due(f, y) /\ y.job \in Jobs
        BY <1>1, QueueTypes DEF EntriesDue, Queues
      <3>2. QED
        BY <1>2, <2>2, <3>1
    <2>5. \A d \in completables' : d \in completables /\ d \in S
      BY <1>1, <1>2 DEF EntriesDue, Waits, JobsTyped
    <2>6. ASSUME NEW d \in Jobs, remaining'[d] # {} PROVE Waits(d, "join")'
      <3>1. remaining[d] # {} /\ remaining[d] # {c}
        BY <1>2, <2>6
      <3>2. Waits(d, "join") /\ d \notin waiting
        BY <1>1, <3>1 DEF EntriesDue
      <3>3. d # c
        BY <1>2, <3>2 DEF Waits
      <3>4. QED
        BY <1>2, <1>6, <3>2, <3>3 DEF Waits, Last
    <2>7. Once(queue')
      BY <1>1, <1>2 DEF EntriesDue
    <2>8. QED
      BY <1>1, <2>1, <2>3, <2>4, <2>5, <2>6, <2>7, NoneEmplaced
  <1>9. Lives' /\ HeapTyped'
    <2>1. /\ \A d \in done : d \in Jobs /\ d # c /\ d \notin Roots /\ at[d] = "ended"
          /\ \A d \in done : \A p \in Jobs : d \in Children[p] => p = c
      BY ChildFacts
    <2>2. \A d \in done : Held(d) /\ d \in frames
      BY <1>1, <1>2, <2>1 DEF Held, FramesNeeded
    <2>3. c \in frames
      BY <1>1, <1>2 DEF FramesNeeded
    <2>4. /\ \A d \in Jobs : at'[d] = "unborn" <=> at[d] = "unborn"
          /\ \A d \in Jobs : at'[d] \in {"running", "suspended", "ready"}
                             => at[d] \in {"running", "suspended", "ready"}
          /\ \A d \in Jobs : at'[d] = "ended" <=> at[d] = "ended" \/ d = c
      BY <1>3, <1>6, <1>2
    <2>5. \A d \in Jobs : Held(d)' => Held(d)
      BY <1>2, <2>4 DEF Held
    <2>6. \A d \in done : ~Held(d)'
      <3>1. ASSUME NEW d \in done, d \in viewed PROVE FALSE
        BY <1>1, <2>1, <3>1 DEF FramesNeeded
      <3>2. QED
        BY <1>2, <1>6, <2>1, <3>1 DEF Held
    <2>7. \A d \in freed : ~Held(d)'
      BY <2>5, <2>6
    <2>8. \A d \in freed : at'[d] \notin {"running", "suspended", "ready"}
      BY <1>2, <1>3, <1>6, <2>1
    <2>9. freed \subseteq frames /\ viewed' \subseteq viewed /\ viewed' \cap freed = {}
      <3>1. \A d \in viewed : d \notin done
        BY <1>1, <2>1 DEF FramesNeeded
      <3>2. c \in viewed => Held(c)
        BY DEF Held
      <3>3. QED
        BY <1>2, <2>2, <2>3, <3>1, <3>2
    <2>10. \A d \in Jobs : at'[d] = "ended" /\ Held(d)' => d \in frames
      BY <1>1, <2>3, <2>4, <2>5 DEF FramesNeeded
    <2>11. QED
      BY <1>2, <2>4, <2>7, <2>8, <2>9, <2>10, Deaths
  <1>10. QED
    BY <1>4, <1>5, <1>7, <1>8, <1>9, InvSplit

-----------------------------------------------------------------------------
(* The main thread, and the theorems *)

LEMMA MainKeeps ==
    ASSUME IInv, Quit \/ Flushed \/ Spin
    PROVE  IInv'
  <1>1. MainTyped /\ signaled \subseteq Jobs
    BY InvParts DEF JobsTyped
  <1>2. MainTyped' /\ UNCHANGED <<jobVars, signaled, pool, queue, completables, heapVars>>
    BY <1>1 DEF Quit, Flushed, Spin, MainTyped
  <1>3. QED
    BY <1>1, <1>2, OthersKeep

LEMMA EmptyIn ==
    ASSUME NEW Q, NEW e \in Queues, Q[e] = <<>>
    PROVE  1..Len(Q[e]) = {} /\ In(Q, e) = {}
  <1>1. Len(Q[e]) = 0
    BY EmptySeq
  <1>2. 1..Len(Q[e]) = {}
    BY <1>1
  <1>3. QED
    BY <1>2 DEF In

LEMMA JoinedKeeps ==
    ASSUME IInv, Joined
    PROVE  IInv'
  <1>1. /\ TypeOK /\ EntriesDue /\ RunsWhereScheduled /\ Lives /\ MainTyped
        /\ JobsTyped /\ QueuesTyped
    BY InvParts
  <1>2. /\ at' = at /\ step' = step /\ thread' = thread /\ remaining' = remaining
        /\ UNCHANGED <<signaled, pool, heapVars, worked, members>>
        /\ completables' \subseteq completables
        /\ main' \in {"offscreen", "completion", "pool", "exited"}
    BY DEF Joined, jobVars
  <1>3. queue' = queue \/ queue' = [queue EXCEPT !["offscreen"] = <<>>]
    BY DEF Joined
  <1>4. JobsTyped' /\ MainTyped'
    BY <1>1, <1>2 DEF JobsTyped, MainTyped
  <1>5. /\ DOMAIN queue' = Queues /\ \A f \in Queues : queue'[f] = queue[f] \/ queue'[f] = <<>>
        /\ QueuesTyped'
    <2>1. DOMAIN queue = Queues /\ QueuesTyped
      BY <1>1, QueueTypes
    <2>2. DOMAIN queue' = Queues /\ \A f \in Queues : queue'[f] = queue[f] \/ queue'[f] = <<>>
      BY <1>3, <2>1
    <2>3. \A acts : <<>> \in Seq(Entries(acts))
      BY EmptySeq
    <2>4. QED
      BY <1>2, <2>1, <2>2, <2>3, QueuesAre DEF QueuesTyped
  <1>6. RunsWhereScheduled'
    BY <1>1, <1>2, RunsKept
  <1>7. Lives' /\ HeapTyped'
    BY <1>1, <1>2, SameLives
  <1>8. EntriesDue'
    <2> DEFINE S == {d \in Jobs : at[d] = "suspended"}
    <2>1. \A d \in S : at'[d] = at[d] /\ step'[d] = step[d]
      BY <1>2
    <2>2. \A y \in pool' : y \in pool /\ y.job \in S
      BY <1>1, <1>2, DueSuspended, QueueTypes
    <2>3. \A f \in Queues : In(queue', f) \subseteq In(queue, f)
      <3>1. ASSUME NEW f \in Queues PROVE In(queue', f) \subseteq In(queue, f)
        <4>1. CASE queue'[f] = queue[f]
          BY <4>1 DEF In
        <4>2. CASE queue'[f] = <<>>
          BY <4>2, EmptyIn
        <4>3. QED
          BY <1>5, <4>1, <4>2
      <3>2. QED
        BY <3>1
    <2>4. \A f \in Queues : \A y \in In(queue', f) : y \in In(queue, f) /\ y.job \in S
      BY <1>1, <2>3, DueSuspended, QueueTypes
    <2>5. \A d \in completables' : d \in completables /\ d \in S
      BY <1>1, <1>2, DueSuspended DEF JobsTyped
    <2>6. \A d \in Jobs : remaining'[d] # {} => Waits(d, "join")'
      BY <1>1, <1>2 DEF EntriesDue, Waits, Last
    <2>7. Once(queue')
      <3>1. Once(queue)
        BY <1>1 DEF EntriesDue
      <3>2. ASSUME NEW f \in Queues, NEW k \in 1..Len(queue'[f])
            PROVE  queue'[f] = queue[f] /\ k \in 1..Len(queue[f])
        BY <1>5, <3>2, EmptyIn
      <3>3. QED
        BY <3>1, <3>2 DEF Once
    <2>8. QED
      BY <1>1, <2>1, <2>2, <2>4, <2>5, <2>6, <2>7, NoneEmplaced
  <1>9. QED
    BY <1>4, <1>5, <1>6, <1>7, <1>8, InvSplit


LEMMA StepCases ==
    ASSUME [Next]_vars
    PROVE  \/ \E c \in Jobs :
                \/ Reschedule(c) \/ AwaitFence(c) \/ SpawnChild(c) \/ JoinChildren(c)
                \/ PollChildren(c) \/ Return(c) \/ FinalSuspend(c)
                \/ FenceSignals(c) \/ PoolTake(c) \/ CompletionSweep(c) \/ Start(c) \/ Retire(c)
           \/ OffscreenTake \/ CompletionTake \/ FlushLocal
           \/ Quit \/ Flushed \/ Spin \/ Joined
           \/ UNCHANGED vars
  BY DEF Next, Run, Exited

LEMMA InitInv == Init => IInv
  <1> SUFFICES ASSUME Init PROVE IInv
    OBVIOUS
  <1>1. /\ at = [c \in Jobs |-> "unborn"] /\ step = [c \in Jobs |-> 1]
        /\ thread = [c \in Jobs |-> Nowhere] /\ remaining = [c \in Jobs |-> {}]
        /\ signaled = {} /\ pool = {} /\ completables = {} /\ frames = {} /\ viewed = {}
        /\ queue = [e \in Queues |-> <<>>] /\ count = 0
        /\ main = "frame" /\ worked = FALSE /\ members = TRUE
    BY DEF Init, Queues
  <1>2. JobsTyped
    <2>1. \A c \in Jobs : 1 \in 1..(Len(Steps[c]) + 1)
      <3>1. \A c \in Jobs : Len(Steps[c]) \in Nat
        BY CradleAssumption, LenProperties
      <3>2. QED
        BY <3>1
    <2>2. QED
      BY <1>1, <2>1 DEF JobsTyped
  <1>3. QueuesTyped
    <2>1. \A acts : <<>> \in Seq(Entries(acts))
      BY EmptySeq
    <2>2. QED
      BY <1>1, <2>1, QueuesAre DEF QueuesTyped
  <1>4. HeapTyped /\ MainTyped
    BY <1>1 DEF HeapTyped, MainTyped
  <1>5. \A e \in Queues : 1..Len(queue[e]) = {} /\ In(queue, e) = {}
    BY <1>1, EmptyIn
  <1>6. EntriesDue
    <2>1. Once(queue)
      BY <1>5 DEF Once
    <2>2. QED
      BY <1>1, <1>5, <2>1 DEF EntriesDue
  <1>7. RunsWhereScheduled
    BY <1>1 DEF RunsWhereScheduled
  <1>8. UnbornAreIdle /\ FramesNeeded
    <2>1. \A c \in Jobs : Children[c] \subseteq Jobs
      BY CradleAssumption
    <2>2. QED
      BY <1>1, <2>1 DEF UnbornAreIdle, FramesNeeded
  <1>9. CountIsFrames
    <2>1. frames \cap Guarded = {}
      BY <1>1
    <2>2. QED
      BY <1>1, <2>1, FS_EmptySet DEF CountIsFrames
  <1>10. QED
    BY <1>2, <1>3, <1>4, <1>6, <1>7, <1>8, <1>9, TypeSplit DEF IInv

LEMMA StepInv == IInv /\ [Next]_vars => IInv'
  <1> SUFFICES ASSUME IInv, [Next]_vars PROVE IInv'
    OBVIOUS
  <1>1. MainTyped
    BY InvParts
  <1>2. ASSUME NEW c \in Jobs,
               \/ Reschedule(c) \/ AwaitFence(c) \/ SpawnChild(c) \/ JoinChildren(c)
               \/ PollChildren(c) \/ Return(c) \/ FinalSuspend(c)
        PROVE  IInv'
    BY <1>2, RescheduleKeeps, AwaitFenceKeeps, SpawnKeeps, JoinKeeps, PollKeeps, ReturnKeeps,
       FinalSuspendKeeps
  <1>3. ASSUME NEW c \in Jobs,
               FenceSignals(c) \/ PoolTake(c) \/ CompletionSweep(c) \/ Start(c) \/ Retire(c)
        PROVE  IInv'
    BY <1>3, FenceSignalsKeeps, PoolTakeKeeps, CompletionSweepKeeps, StartKeeps, RetireKeeps
  <1>4. CASE OffscreenTake
    <2>1. Take("offscreen") /\ MainTyped'
      BY <1>1, <1>4 DEF OffscreenTake, MainTyped, mainVars
    <2>2. QED
      BY <2>1, TakeKeeps
  <1>5. CASE FlushLocal
    <2>1. Take("local") /\ MainTyped'
      BY <1>1, <1>5 DEF FlushLocal, MainTyped
    <2>2. QED
      BY <2>1, TakeKeeps
  <1>6. CASE CompletionTake
    BY <1>6, CompletionTakeKeeps
  <1>7. CASE Quit \/ Flushed \/ Spin
    BY <1>7, MainKeeps
  <1>8. CASE Joined
    BY <1>8, JoinedKeeps
  <1>9. CASE UNCHANGED vars
    <2>1. /\ UNCHANGED <<jobVars, pool, queue, completables, heapVars>>
          /\ signaled \subseteq signaled' /\ signaled' \subseteq Jobs /\ MainTyped'
      BY <1>1, <1>9, InvParts DEF vars, jobVars, heapVars, MainTyped, JobsTyped
    <2>2. QED
      BY <2>1, OthersKeep
  <1>10. QED
    BY <1>2, <1>3, <1>4, <1>5, <1>6, <1>7, <1>8, <1>9, StepCases

(***************************************************************************)
(* The inductive invariant: nobody resumes a job twice, or for another     *)
(* reason than the one it suspended for, and the counter of the local      *)
(* context counts the frames of the guarded jobs.                          *)
(***************************************************************************)
THEOREM CradleInvariant == Spec => []IInv
  BY InitInv, StepInv, PTL DEF Spec

(***************************************************************************)
(* The type invariant; that TaskCounterGuard::count_ never falls below     *)
(* zero is part of it.                                                     *)
(***************************************************************************)
THEOREM TypeCorrect == Spec => []TypeOK
  <1>1. IInv => TypeOK
    BY DEF IInv
  <1>2. QED
    BY <1>1, CradleInvariant, PTL

(***************************************************************************)
(* A job that reschedules goes on on the thread of the executor it asked   *)
(* for, and one that waits for a fence goes on there only after the fence  *)
(* has signaled: whatever the order in which the executors get to run.     *)
(***************************************************************************)
THEOREM ContinuesWhereScheduled == Spec => []RunsWhereScheduled
  <1>1. IInv => RunsWhereScheduled
    BY DEF IInv
  <1>2. QED
    BY <1>1, CradleInvariant, PTL

(***************************************************************************)
(* any_tasks_in_flight() never says that all is done while a guarded job   *)
(* is under way, with a user who quits at any moment.                      *)
(***************************************************************************)
THEOREM CounterIsRight == Spec => []CountCoversTasks
  <1>1. IInv => CountCoversTasks
    <2> SUFFICES ASSUME IInv, count = 0, NEW c \in Guarded
                 PROVE  at[c] \in {"unborn", "ended"}
      BY DEF CountCoversTasks
    <2>1. c \in Jobs /\ JobsTyped /\ FramesNeeded /\ CountIsFrames
      BY CradleAssumption, InvParts DEF Lives
    <2>2. frames \cap Guarded = {}
      <3>1. frames \cap Guarded \in SUBSET frames /\ IsFiniteSet(frames)
        BY <2>1 DEF CountIsFrames
      <3>2. IsFiniteSet(frames \cap Guarded)
        BY <3>1, FS_Subset
      <3>3. QED
        BY <2>1, <3>2, FS_EmptySet DEF CountIsFrames
    <2>3. QED
      BY <2>1, <2>2 DEF FramesNeeded, JobsTyped
  <1>2. QED
    BY <1>1, CradleInvariant, PTL

Idle(c) == at[c] \in {"unborn", "ended"}

\* Nobody is started but from a frame of the main thread or by its parent.
LEMMA Becoming ==
    ASSUME IInv, [Next]_vars, NEW d \in Jobs, Idle(d), ~Idle(d)'
    PROVE  main = "frame" \/ \E c \in Jobs : at[c] = "running" /\ d \in Children[c]
  <1>1. /\ TypeOK /\ EntriesDue /\ JobsTyped /\ at \in [Jobs -> {"unborn", "running", "suspended", "ready", "ended"}]
    BY InvParts DEF JobsTyped
  <1>2. at[d] \in {"unborn", "ended"} /\ at'[d] # at[d]
    BY DEF Idle
  <1>3. ASSUME NEW c \in Jobs, NEW op, Awaits(c, op), Suspend(c) PROVE FALSE
    BY <1>1, <1>2, <1>3 DEF Awaits, Suspend
  <1>4. ASSUME NEW c \in Jobs, NEW t, Resume(c, t), at[c] = "suspended" PROVE FALSE
    BY <1>1, <1>2, <1>4 DEF Resume
  <1>5. ASSUME NEW c \in Jobs, Reschedule(c) \/ AwaitFence(c) PROVE FALSE
    BY <1>3, <1>5 DEF Reschedule, AwaitFence
  <1>6. ASSUME NEW c \in Jobs, JoinChildren(c) \/ PollChildren(c) PROVE FALSE
    BY <1>2, <1>3, <1>6 DEF JoinChildren, PollChildren
  <1>7. ASSUME NEW c \in Jobs, Return(c) PROVE FALSE
    BY <1>1, <1>2, <1>7 DEF Return
  <1>8. ASSUME NEW c \in Jobs, FinalSuspend(c) PROVE FALSE
    <2>1. /\ at[c] = "ready"
          /\ at'[d] = IF d = c THEN "ended" ELSE IF remaining[d] = {c} THEN "running" ELSE at[d]
      BY <1>8 DEF FinalSuspend
    <2>2. remaining[d] = {}
      BY <1>1, <1>2 DEF EntriesDue, Waits
    <2>3. QED
      BY <1>2, <2>1, <2>2
  <1>9. ASSUME NEW c \in Jobs, SpawnChild(c) PROVE at[c] = "running" /\ d \in Children[c]
    <2>1. PICK x \in Children[c] : at' = [at EXCEPT ![x] = "suspended"]
      BY <1>9 DEF SpawnChild
    <2>2. x = d
      BY <1>1, <1>2, <2>1
    <2>3. QED
      BY <1>9, <2>2 DEF SpawnChild, Awaits
  <1>10. ASSUME NEW c \in Jobs, FenceSignals(c) \/ Retire(c) PROVE FALSE
    BY <1>2, <1>10 DEF FenceSignals, Retire, jobVars
  <1>11. ASSUME NEW c \in Jobs, PoolTake(c) PROVE FALSE
    <2>1. Entry(c, "resume") \in pool /\ Resume(c, "pool") /\ Entry(c, "resume").job = c
      BY <1>11 DEF PoolTake, Entry
    <2>2. at[c] = "suspended"
      BY <1>1, <2>1, DueSuspended
    <2>3. QED
      BY <1>4, <2>1, <2>2
  <1>12. ASSUME NEW c \in Jobs, CompletionSweep(c) PROVE FALSE
    <2>1. at[c] = "suspended"
      BY <1>1, <1>12, DueSuspended DEF CompletionSweep
    <2>2. QED
      BY <1>4, <1>12, <2>1 DEF CompletionSweep
  <1>13. ASSUME NEW t \in {"offscreen", "local"}, Take(t) PROVE FALSE
    <2>1. PICK x, c : x = Head(queue[t]) /\ c = x.job
      OBVIOUS
    <2>2. t \in Queues /\ queue[t] # <<>>
      BY <1>13, QueuesAre DEF Take
    <2>3. at[c] = "suspended" /\ c \in Jobs
      <3>1. PICK Q : Q = [queue EXCEPT ![t] = Tail(@)]
        OBVIOUS
      <3>2. QED
        BY <2>1, <2>2, <3>1, TakenFacts
    <2>4. Resume(c, t) \/ at' = at
      BY <1>13, <2>1 DEF Take
    <2>5. QED
      BY <1>2, <1>4, <2>3, <2>4
  <1>14. ASSUME \/ CompletionTake \/ Quit \/ Flushed \/ Spin \/ Joined \/ UNCHANGED vars PROVE FALSE
    BY <1>2, <1>14 DEF CompletionTake, Quit, Flushed, Spin, Joined, jobVars, vars
  <1>15. OffscreenTake => Take("offscreen")
    BY DEF OffscreenTake
  <1>16. FlushLocal => Take("local")
    BY DEF FlushLocal
  <1>17. \A c \in Jobs : Start(c) => main = "frame"
    BY DEF Start
  <1>18. QED
    BY <1>5, <1>6, <1>7, <1>8, <1>9, <1>10, <1>11, <1>12, <1>13, <1>14, <1>15, <1>16, <1>17, StepCases

LEMMA MainMoves ==
    ASSUME [Next]_vars
    PROVE  \/ main' = main /\ members' = members
           \/ (Quit \/ Flushed \/ Spin) /\ at' = at
           \/ main # "frame" /\ main' # "frame" /\ members' = members
  <1>1. ASSUME NEW c \in Jobs,
               \/ Reschedule(c) \/ AwaitFence(c) \/ SpawnChild(c) \/ JoinChildren(c)
               \/ PollChildren(c) \/ Return(c) \/ FinalSuspend(c)
        PROVE  UNCHANGED mainVars
    BY <1>1 DEF Reschedule, AwaitFence, SpawnChild, JoinChildren, PollChildren, Return, FinalSuspend
  <1>2. ASSUME NEW c \in Jobs,
               FenceSignals(c) \/ PoolTake(c) \/ CompletionSweep(c) \/ Start(c) \/ Retire(c)
        PROVE  UNCHANGED mainVars
    BY <1>2 DEF FenceSignals, PoolTake, CompletionSweep, Start, Retire
  <1>3. OffscreenTake \/ CompletionTake \/ UNCHANGED vars => UNCHANGED mainVars
    BY DEF OffscreenTake, CompletionTake, vars, mainVars
  <1>4. FlushLocal => main' = main /\ members' = members
    BY DEF FlushLocal
  <1>5. Quit \/ Flushed \/ Spin => at' = at
    BY DEF Quit, Flushed, Spin, jobVars
  <1>6. Joined => main # "frame" /\ main' # "frame" /\ members' = members
    BY DEF Joined
  <1>7. UNCHANGED mainVars => main' = main /\ members' = members
    BY DEF mainVars
  <1>8. QED
    BY <1>1, <1>2, <1>3, <1>4, <1>5, <1>6, <1>7, StepCases

\* Once the tasks without a guard have ended, only guarded ones go on, and once
\* the counter is zero none does.
LEMMA NoneLeftKept ==
    ASSUME ~QuitsAnytime, GuardsInherited, IInv, CountCoversTasks, NoneLeft, [Next]_vars
    PROVE  NoneLeft'
  <1>1. JobsTyped /\ Guarded \subseteq Jobs
    BY CradleAssumption, InvParts
  <1>2. ASSUME main # "frame", NEW d \in Jobs \ Guarded PROVE Idle(d)'
    <2>1. Idle(d)
      BY <1>2 DEF NoneLeft, Idle
    <2>2. ASSUME NEW c \in Jobs, at[c] = "running", d \in Children[c] PROVE FALSE
      <3>1. c \in Guarded
        BY <1>2, <2>2 DEF NoneLeft
      <3>2. QED
        BY <2>2, <3>1 DEF GuardsInherited
    <2>3. QED
      BY <1>2, <2>1, <2>2, Becoming
  <1>3. ASSUME ~members, NEW d \in Jobs PROVE Idle(d)' /\ main # "frame"
    <2>1. main # "frame" /\ \A c \in Jobs : Idle(c)
      BY <1>3 DEF NoneLeft, MembersOutliveTasks, Idle
    <2>2. \A c \in Jobs : at[c] # "running"
      BY <2>1 DEF Idle
    <2>3. QED
      BY <2>1, <2>2, Becoming
  <1>4. CASE \/ main' = main /\ members' = members
             \/ main # "frame" /\ main' # "frame" /\ members' = members
    BY <1>2, <1>3, <1>4 DEF NoneLeft, MembersOutliveTasks, Idle
  <1>5. CASE Quit /\ at' = at
    <2>1. main' # "frame" /\ members' = members /\ main = "frame"
          /\ \A c \in Jobs \ Guarded : at[c] \in {"unborn", "ended"}
      BY <1>5 DEF Quit
    <2>2. QED
      BY <1>3, <1>5, <2>1 DEF NoneLeft, MembersOutliveTasks
  <1>6. CASE Flushed /\ at' = at
    <2>1. main # "frame" /\ main' # "frame" /\ members' = members
      BY <1>6 DEF Flushed
    <2>2. QED
      BY <1>6, <2>1 DEF NoneLeft, MembersOutliveTasks
  <1>7. CASE Spin /\ at' = at
    <2>1. main # "frame" /\ main' # "frame" /\ (count = 0 \/ members' = members)
      <3>1. count \in Nat
        BY InvParts DEF HeapTyped
      <3>2. QED
        BY <1>7, <3>1 DEF Spin
    <2>2. count = 0 => \A d \in Jobs : at[d] \in {"unborn", "ended"}
      BY <2>1 DEF CountCoversTasks, NoneLeft
    <2>3. QED
      BY <1>7, <2>1, <2>2 DEF NoneLeft, MembersOutliveTasks
  <1>8. QED
    BY <1>4, <1>5, <1>6, <1>7, MainMoves

(***************************************************************************)
(* What the jobs use is destroyed only when none of them is under way, if  *)
(* the user waits for the jobs without a guard before he quits: a guarded  *)
(* job that is counted keeps drain_all_tasks() spinning, and it starts     *)
(* none but guarded ones.                                                  *)
(***************************************************************************)
THEOREM ShutdownWaitsForTasks ==
    ASSUME ~QuitsAnytime, GuardsInherited
    PROVE  Spec => []TasksAreCovered
  <1>1. Init => NoneLeft
    BY DEF Init, NoneLeft, MembersOutliveTasks
  <1>2. IInv /\ CountCoversTasks /\ NoneLeft /\ [Next]_vars => NoneLeft'
    BY NoneLeftKept
  <1>3. CountCoversTasks /\ NoneLeft => TasksAreCovered
    BY DEF NoneLeft, TasksAreCovered
  <1>4. QED
    BY <1>1, <1>2, <1>3, CradleInvariant, CounterIsRight, PTL DEF Spec

-----------------------------------------------------------------------------
(* Nobody is stranded *)

\* Something is there that will resume the job.
WillBeResumed(c) ==
  \/ \E y \in pool : y.job = c
  \/ \E f \in Queues : \E y \in In(queue, f) : y.job = c
  \/ c \in completables
  \/ remaining[c] # {}

\* The destructors of the executors have begun to drop what is left.
Dropping == main \in {"completion", "pool", "exited"}

\* Until then whoever is suspended will be resumed, and whoever waits for
\* children waits for such as have still to end, and to resume it.
NobodyIsStranded ==
  /\ \A c \in Jobs : at[c] = "suspended" /\ ~Dropping => WillBeResumed(c)
  /\ \A c \in Jobs : \A d \in remaining[c] : at[d] # "ended"

\* Nothing is lost where something is put.
LEMMA PushedKeeps ==
    ASSUME NEW Q, NEW R, NEW e \in Queues, NEW x, Pushes(Q, R, e, x)
    PROVE  Within(Q, R) /\ x \in In(R, e)
  <1> DEFINE n == Len(Q[e])
  <1>1. /\ n \in Nat /\ Len(R[e]) = n + 1 /\ R[e][n + 1] = x
        /\ \A k \in 1..n : R[e][k] = Q[e][k]
        /\ \A f \in Queues : f # e => R[f] = Q[f]
    BY AppendProperties, LenProperties DEF Pushes
  <1>2. n + 1 \in 1..(n + 1) /\ \A k \in 1..n : k \in 1..(n + 1)
    BY <1>1
  <1>3. In(Q, e) \subseteq In(R, e) /\ x \in In(R, e)
    BY <1>1, <1>2 DEF In
  <1>4. \A f \in Queues : f # e => In(Q, f) = In(R, f)
    BY <1>1 DEF In
  <1>5. QED
    BY <1>3, <1>4 DEF Within

\* Nothing is lost but the head where the head is taken.
LEMMA PoppedKeeps ==
    ASSUME NEW Q, NEW R, NEW e \in Queues, NEW x, Pops(Q, R, e, x)
    PROVE  Gains(Q, R, e, x)
  <1> DEFINE n == Len(Q[e])
  <1>1. /\ n \in Nat /\ n >= 1 /\ Len(R[e]) = n - 1 /\ x = Q[e][1]
        /\ \A k \in 1..(n - 1) : R[e][k] = Q[e][k + 1]
        /\ \A f \in Queues : f # e => R[f] = Q[f]
    <2>1. n \in Nat /\ n # 0
      BY LenProperties, EmptySeq DEF Pops
    <2>2. QED
      BY <2>1, HeadTailProperties DEF Pops
  <1>2. ASSUME NEW k \in 1..n, k # 1 PROVE Q[e][k] \in In(R, e)
    <2>1. k - 1 \in 1..(n - 1) /\ k - 1 + 1 = k
      BY <1>1, <1>2
    <2>2. Q[e][k] = R[e][k - 1] /\ k - 1 \in 1..Len(R[e])
      BY <1>1, <2>1
    <2>3. QED
      BY <2>2 DEF In
  <1>3. \A y \in In(Q, e) : y \in In(R, e) \/ y = x
    BY <1>1, <1>2 DEF In
  <1>4. \A f \in Queues : f # e => In(Q, f) = In(R, f)
    BY <1>1 DEF In
  <1>5. QED
    BY <1>3, <1>4 DEF Gains

\* A job that has been emplaced will be resumed, and nobody else is lost.
LEMMA EmplacedWill ==
    ASSUME TypeOK, NEW e \in Threads, NEW d \in Jobs,
           NEW act \in {"resume", "check", "again", "watch"}, Emplace(e, Entry(d, act))
    PROVE  pool \subseteq pool' /\ Within(queue, queue') /\ WillBeResumed(d)'
  <1> DEFINE x == Entry(d, act)
  <1>1. x \in AllEntries /\ x.job = d
    BY EntryFacts
  <1>2. CASE e = "pool"
    <2>1. pool' = pool \cup {x} /\ queue' = queue
      BY <1>2 DEF Emplace
    <2>2. QED
      BY <1>1, <2>1 DEF Within, WillBeResumed
  <1>3. CASE e # "pool"
    <2>1. e \in Queues /\ pool' = pool /\ queue' = [queue EXCEPT ![e] = Append(@, x)]
      BY <1>3 DEF Emplace, Queues
    <2>2. Pushes(queue, queue', e, x)
      BY <1>1, <2>1, QueueTypes DEF Pushes
    <2>3. Within(queue, queue') /\ x \in In(queue', e)
      BY <2>1, <2>2, PushedKeeps
    <2>4. QED
      BY <1>1, <2>1, <2>3 DEF WillBeResumed
  <1>4. QED
    BY <1>2, <1>3

\* Only c loses what would resume it, or suspends.
LEMMA NobodyElse ==
    ASSUME NobodyIsStranded, Dropping => Dropping', NEW c,
           at'[c] = "suspended" => WillBeResumed(c)',
           \A d \in Jobs : d # c /\ at'[d] = "suspended" =>
              at[d] = "suspended" /\ (remaining[d] # {} => remaining'[d] # {}),
           \A y \in pool : y.job # c => y \in pool',
           \A f \in Queues : \A y \in In(queue, f) : y.job # c => y \in In(queue', f),
           \A d \in completables : d # c => d \in completables',
           \A p \in Jobs : \A d \in remaining'[p] : at'[d] # "ended"
    PROVE  NobodyIsStranded'
  <1>1. ASSUME NEW d \in Jobs, d # c, at'[d] = "suspended", ~Dropping'
        PROVE  WillBeResumed(d)'
    <2>1. WillBeResumed(d) /\ (remaining[d] # {} => remaining'[d] # {})
      BY <1>1 DEF NobodyIsStranded
    <2>2. QED
      BY <1>1, <2>1 DEF WillBeResumed
  <1>2. QED
    BY <1>1 DEF NobodyIsStranded

LEMMA SuspendedWill ==
    ASSUME IInv, NobodyIsStranded, NEW c \in Jobs, NEW op, Awaits(c, op), Suspend(c),
           NEW e \in Threads, NEW act \in {"resume", "check", "again", "watch"},
           Emplace(e, Entry(c, act)), UNCHANGED <<remaining, completables, main>>
    PROVE  NobodyIsStranded'
  <1>1. TypeOK
    BY InvParts
  <1>2. pool \subseteq pool' /\ Within(queue, queue') /\ WillBeResumed(c)'
    BY <1>1, EmplacedWill
  <1>3. \A d \in Jobs : at'[d] = IF d = c THEN "suspended" ELSE at[d]
    BY <1>1, SuspendFacts
  <1>4. \A p \in Jobs : \A d \in remaining'[p] : at'[d] # "ended"
    BY <1>1, <1>3 DEF NobodyIsStranded, TypeOK
  <1>5. Dropping => Dropping'
    BY DEF Dropping
  <1>6. QED
    BY <1>2, <1>3, <1>4, <1>5, NobodyElse DEF Within

\* A job that was suspended is resumed, and only what resumed it has gone.
LEMMA ResumedWill ==
    ASSUME IInv, NobodyIsStranded, NEW c \in Jobs, NEW t, Resume(c, t),
           \A y \in pool : y.job # c => y \in pool',
           \A f \in Queues : \A y \in In(queue, f) : y.job # c => y \in In(queue', f),
           \A d \in completables : d # c => d \in completables',
           UNCHANGED <<remaining, main>>
    PROVE  NobodyIsStranded'
  <1>1. TypeOK
    BY InvParts
  <1>2. \A d \in Jobs : at'[d] = IF d = c THEN "running" ELSE at[d]
    BY <1>1 DEF Resume, TypeOK
  <1>3. \A p \in Jobs : \A d \in remaining'[p] : at'[d] # "ended"
    BY <1>1, <1>2 DEF NobodyIsStranded, TypeOK
  <1>4. Dropping => Dropping'
    BY DEF Dropping
  <1>5. QED
    BY <1>2, <1>3, <1>4, NobodyElse

\* Nobody is resumed or suspended.
LEMMA NoneMoved ==
    ASSUME NobodyIsStranded, Dropping => Dropping',
           UNCHANGED <<at, remaining, pool, queue, completables>>
    PROVE  NobodyIsStranded'
  <1>1. \A d \in Jobs : WillBeResumed(d) => WillBeResumed(d)'
    BY DEF WillBeResumed
  <1>2. QED
    BY <1>1 DEF NobodyIsStranded

LEMMA SpawnStrands ==
    ASSUME IInv, NobodyIsStranded, NEW c \in Jobs, SpawnChild(c)
    PROVE  NobodyIsStranded'
  <1>1. TypeOK
    BY InvParts
  <1>2. PICK d \in Children[c] : /\ at' = [at EXCEPT ![d] = "suspended"]
                                 /\ Emplace(Steps[d][1].on, Entry(d, "resume"))
    BY DEF SpawnChild
  <1>3. UNCHANGED <<remaining, completables, main>>
    BY DEF SpawnChild, mainVars
  <1>4. d \in Jobs /\ Steps[d][1].on \in Threads
    BY ChildFacts, QueuesAre
  <1>5. PICK e \in Threads : e = Steps[d][1].on
    BY <1>4
  <1>6. pool \subseteq pool' /\ Within(queue, queue') /\ WillBeResumed(d)'
    BY <1>1, <1>2, <1>4, <1>5, EmplacedWill
  <1>7. \A x \in Jobs : at'[x] = IF x = d THEN "suspended" ELSE at[x]
    BY <1>1, <1>2 DEF TypeOK
  <1>8. \A p \in Jobs : \A x \in remaining'[p] : at'[x] # "ended"
    BY <1>1, <1>3, <1>7 DEF NobodyIsStranded, TypeOK
  <1>9. Dropping => Dropping'
    BY <1>3 DEF Dropping
  <1>10. QED
    BY <1>3, <1>6, <1>7, <1>8, <1>9, NobodyElse DEF Within

LEMMA JoinStrands ==
    ASSUME IInv, NobodyIsStranded, NEW c \in Jobs, JoinChildren(c)
    PROVE  NobodyIsStranded'
  <1> DEFINE unready == {d \in Children[c] : ~HasResult(d)}
  <1>1. /\ TypeOK /\ Awaits(c, "join")
        /\ UNCHANGED <<pool, queue, completables, main>>
    BY InvParts DEF JoinChildren, mainVars
  <1>2. \A p \in Jobs : remaining'[p] = IF p = c THEN unready ELSE remaining[p]
    BY <1>1 DEF JoinChildren, TypeOK
  <1>3. \A d \in Jobs : at'[d] # at[d] => d = c /\ at'[d] = "suspended" /\ unready # {}
    BY <1>1 DEF JoinChildren, Suspend, TypeOK
  <1>4. at[c] = "running" /\ \A d \in unready : d \in Jobs /\ at[d] # "ended"
    BY <1>1, CradleAssumption DEF Awaits, HasResult
  <1>5. \A p \in Jobs : \A d \in remaining'[p] : at'[d] # "ended"
    <2>1. \A p \in Jobs : \A d \in remaining'[p] : d \in Jobs /\ at[d] # "ended"
      BY <1>1, <1>2, <1>4 DEF NobodyIsStranded, TypeOK
    <2>2. QED
      BY <1>3, <2>1
  <1>6. at'[c] = "suspended" => WillBeResumed(c)'
    BY <1>2, <1>3, <1>4 DEF WillBeResumed
  <1>7. Dropping => Dropping'
    BY <1>1 DEF Dropping
  <1>8. \A d \in Jobs : d # c => at'[d] = at[d] /\ remaining'[d] = remaining[d]
    BY <1>2, <1>3
  <1>9. QED
    BY <1>1, <1>5, <1>6, <1>7, <1>8, NobodyElse

LEMMA FinalSuspendStrands ==
    ASSUME IInv, NobodyIsStranded, NEW c \in Jobs, FinalSuspend(c)
    PROVE  NobodyIsStranded'
  <1>1. /\ TypeOK /\ UNCHANGED <<pool, queue, completables, main>>
        /\ \A d \in Jobs : at'[d] = IF d = c THEN "ended"
                                    ELSE IF remaining[d] = {c} THEN "running" ELSE at[d]
        /\ \A p \in Jobs : remaining'[p] = remaining[p] \ {c}
    BY InvParts DEF FinalSuspend, mainVars
  <1>2. \A p \in Jobs : \A d \in remaining'[p] : at'[d] # "ended"
    BY <1>1 DEF NobodyIsStranded, TypeOK
  <1>3. \A d \in Jobs : at'[d] = "suspended" =>
          at[d] = "suspended" /\ (remaining[d] # {} => remaining'[d] # {})
    BY <1>1
  <1>4. Dropping => Dropping'
    BY <1>1 DEF Dropping
  <1>5. QED
    BY <1>1, <1>2, <1>3, <1>4, NobodyElse

LEMMA PoolTakeStrands ==
    ASSUME IInv, NobodyIsStranded, NEW c \in Jobs, PoolTake(c)
    PROVE  NobodyIsStranded'
  <1>1. /\ pool' = pool \ {Entry(c, "resume")} /\ Resume(c, "pool")
        /\ UNCHANGED <<remaining, queue, completables, main>>
    BY DEF PoolTake, mainVars
  <1>2. Entry(c, "resume").job = c
    BY DEF Entry
  <1>3. \A y \in pool : y.job # c => y \in pool'
    BY <1>1, <1>2
  <1>4. QED
    BY <1>1, <1>3, ResumedWill

\* The head of a queue is taken, and what that leaves.
LEMMA TakenLeaves ==
    ASSUME IInv, NEW t \in Queues, queue[t] # <<>>,
           NEW x, x = Head(queue[t]), NEW Q, Q = [queue EXCEPT ![t] = Tail(@)]
    PROVE  /\ \A f \in Queues : \A y \in In(queue, f) : y.job # x.job => y \in In(Q, f)
           /\ \A f \in Queues : Q[f] \in Seq(AllEntries)
           /\ DOMAIN Q = Queues /\ x.job \in Jobs
  <1>1. TypeOK
    BY InvParts
  <1>2. /\ DOMAIN Q = Queues /\ Q[t] = Tail(queue[t])
        /\ \A f \in Queues : f # t => Q[f] = queue[f]
        /\ \A f \in Queues : queue[f] \in Seq(AllEntries)
    BY <1>1, QueueTypes
  <1>3. Gains(queue, Q, t, x)
    BY <1>2, PoppedKeeps DEF Pops
  <1>4. \A f \in Queues : Q[f] \in Seq(AllEntries)
    BY <1>2, HeadTailProperties
  <1>5. x.job \in Jobs
    BY TakenFacts
  <1>6. QED
    BY <1>2, <1>3, <1>4, <1>5 DEF Gains

\* An entry goes, and its job is put into another queue.
LEMMA MovedWill ==
    ASSUME IInv, NobodyIsStranded, NEW t \in Queues, queue[t] # <<>>,
           NEW c, c = Head(queue[t]).job, NEW Q, Q = [queue EXCEPT ![t] = Tail(@)],
           NEW e \in Queues, NEW act \in {"resume", "check", "again", "watch"},
           queue' = [Q EXCEPT ![e] = Append(@, Entry(c, act))],
           UNCHANGED <<at, remaining, pool, completables, main>>
    PROVE  NobodyIsStranded'
  <1> DEFINE z == Entry(c, act)
  <1>1. /\ \A f \in Queues : \A y \in In(queue, f) : y.job # c => y \in In(Q, f)
        /\ \A f \in Queues : Q[f] \in Seq(AllEntries)
        /\ DOMAIN Q = Queues /\ c \in Jobs
    BY TakenLeaves
  <1>2. z \in AllEntries /\ z.job = c
    BY <1>1, EntryFacts
  <1>3. Pushes(Q, queue', e, z)
    BY <1>1, <1>2 DEF Pushes
  <1>4. Within(Q, queue') /\ z \in In(queue', e)
    BY <1>3, PushedKeeps
  <1>5. WillBeResumed(c)'
    BY <1>2, <1>4 DEF WillBeResumed
  <1>6. \A f \in Queues : \A y \in In(queue, f) : y.job # c => y \in In(queue', f)
    BY <1>1, <1>4 DEF Within
  <1>7. \A p \in Jobs : \A d \in remaining'[p] : at'[d] # "ended"
    BY DEF NobodyIsStranded
  <1>8. Dropping => Dropping'
    BY DEF Dropping
  <1>9. QED
    BY <1>5, <1>6, <1>7, <1>8, NobodyElse

LEMMA TakeStrands ==
    ASSUME IInv, NobodyIsStranded, NEW t \in {"offscreen", "local"}, Take(t), main' = main
    PROVE  NobodyIsStranded'
  <1>1. PICK x, c : x = Head(queue[t]) /\ c = x.job
    OBVIOUS
  <1>2. PICK Q : Q = [queue EXCEPT ![t] = Tail(@)]
    OBVIOUS
  <1>3. /\ t \in Queues /\ "completion" \in Queues /\ queue[t] # <<>>
        /\ UNCHANGED <<remaining, pool, completables>>
    BY QueuesAre DEF Take
  <1>4. CASE Resume(c, t) /\ queue' = Q
    BY <1>1, <1>2, <1>3, <1>4, TakenLeaves, ResumedWill
  <1>5. CASE queue' = [Q EXCEPT !["completion"] = Append(@, Entry(c, "again"))] /\ at' = at
    <2>1. /\ c = Head(queue[t]).job
          /\ UNCHANGED <<at, remaining, pool, completables, main>>
      BY <1>1, <1>3, <1>5
    <2>2. QED
      BY <1>2, <1>3, <1>5, <2>1, MovedWill
  <1>6. QED
    BY <1>1, <1>2, <1>4, <1>5 DEF Take

LEMMA CompletionTakeStrands ==
    ASSUME IInv, NobodyIsStranded, CompletionTake
    PROVE  NobodyIsStranded'
  <1> DEFINE t == "completion"
  <1>1. PICK x, c : x = Head(queue[t]) /\ c = x.job
    OBVIOUS
  <1>2. PICK Q : Q = [queue EXCEPT ![t] = Tail(@)]
    BY Zenon
  <1>3. /\ t \in Queues /\ queue[t] # <<>> /\ TypeOK
        /\ UNCHANGED <<at, remaining, pool, main>>
    BY QueuesAre, InvParts DEF CompletionTake, jobVars, mainVars
  <1>4. CASE /\ x.act = "again" /\ UNCHANGED completables
             /\ queue' = [Q EXCEPT ![Last(c).on] = Append(@, Entry(c, "check"))]
    <2>1. PICK e : e = Last(c).on
      OBVIOUS
    <2>2. Due(t, x) /\ c \in Jobs
      BY <1>1, <1>2, <1>3, TakenFacts
    <2>3. Waits(c, "fence")
      BY <1>1, <1>4, <2>2 DEF Due
    <2>4. e \in Queues
      <3>1. Last(c) \in StepKinds /\ Last(c).op = "fence"
        BY <1>3, <2>2, <2>3, StepFacts DEF Waits
      <3>2. QED
        BY <2>1, <3>1, KindFacts, QueuesAre
    <2>5. QED
      BY <1>1, <1>2, <1>3, <1>4, <2>1, <2>4, MovedWill
  <1>5. CASE x.act = "watch" /\ completables' = completables \cup {c} /\ queue' = Q
    <2>1. \A f \in Queues : \A y \in In(queue, f) : y.job # c => y \in In(queue', f)
      BY <1>1, <1>2, <1>3, <1>5, TakenLeaves
    <2>2. WillBeResumed(c)'
      BY <1>5 DEF WillBeResumed
    <2>3. \A p \in Jobs : \A d \in remaining'[p] : at'[d] # "ended"
      BY <1>3 DEF NobodyIsStranded
    <2>4. Dropping => Dropping'
      BY <1>3 DEF Dropping
    <2>5. QED
      BY <1>3, <1>5, <2>1, <2>2, <2>3, <2>4, NobodyElse
  <1>6. QED
    BY <1>1, <1>2, <1>4, <1>5 DEF CompletionTake, Last

\* What the offscreen context drops is dropped when main says so.
LEMMA JoinedStrands ==
    ASSUME NobodyIsStranded, Joined
    PROVE  NobodyIsStranded'
  <1>1. UNCHANGED <<at, remaining>>
    BY DEF Joined, jobVars
  <1>2. CASE main' = "offscreen" /\ main = "counter" /\ UNCHANGED <<queue, pool, completables>>
    <2>1. Dropping => Dropping'
      BY <1>2 DEF Dropping
    <2>2. QED
      BY <1>1, <1>2, <2>1, NoneMoved
  <1>3. CASE Dropping'
    BY <1>1, <1>3 DEF NobodyIsStranded
  <1>4. QED
    BY <1>2, <1>3 DEF Joined, Dropping

LEMMA StrandsNobody == IInv /\ NobodyIsStranded /\ [Next]_vars => NobodyIsStranded'
  <1> SUFFICES ASSUME IInv, NobodyIsStranded, [Next]_vars PROVE NobodyIsStranded'
    OBVIOUS
  <1>1. ASSUME NEW c \in Jobs, Reschedule(c) \/ AwaitFence(c) PROVE NobodyIsStranded'
    <2>1. PICK op, act, e :
            /\ op \in {"go", "fence"} /\ act \in {"resume", "check"}
            /\ e = Steps[c][step[c]].on
            /\ Awaits(c, op) /\ Suspend(c) /\ Emplace(e, Entry(c, act))
      BY <1>1 DEF Reschedule, AwaitFence
    <2>2. e \in Threads
      BY <2>1, InvParts, AwaitsFacts, QueuesAre
    <2>3. UNCHANGED <<remaining, completables, main>>
      BY <1>1 DEF Reschedule, AwaitFence, mainVars
    <2>4. QED
      BY <2>1, <2>2, <2>3, SuspendedWill
  <1>2. ASSUME NEW c \in Jobs, PollChildren(c) PROVE NobodyIsStranded'
    <2>1. UNCHANGED <<remaining, completables, main>> /\ Awaits(c, "poll")
      BY <1>2 DEF PollChildren, mainVars
    <2>2. CASE UNCHANGED <<at, pool, queue>>
      BY <2>1, <2>2, NoneMoved DEF Dropping
    <2>3. CASE Emplace("completion", Entry(c, "watch")) /\ Suspend(c)
      BY <2>1, <2>3, QueuesAre, SuspendedWill
    <2>4. QED
      BY <1>2, <2>2, <2>3 DEF PollChildren
  <1>3. ASSUME NEW c \in Jobs, Return(c) PROVE NobodyIsStranded'
    <2>1. /\ TypeOK /\ UNCHANGED <<remaining, pool, queue, completables, main>>
          /\ \A d \in Jobs : at'[d] = IF d = c THEN "ready" ELSE at[d]
      BY <1>3, InvParts DEF Return, mainVars, TypeOK
    <2>2. \A p \in Jobs : \A d \in remaining'[p] : at'[d] # "ended"
      BY <2>1 DEF NobodyIsStranded, TypeOK
    <2>3. Dropping => Dropping'
      BY <2>1 DEF Dropping
    <2>4. QED
      BY <2>1, <2>2, <2>3, NobodyElse
  <1>4. ASSUME NEW c \in Jobs, CompletionSweep(c) PROVE NobodyIsStranded'
    BY <1>4, ResumedWill DEF CompletionSweep, mainVars
  <1>5. ASSUME NEW c \in Jobs, Start(c) PROVE NobodyIsStranded'
    BY <1>5, ResumedWill DEF Start, mainVars
  <1>6. ASSUME \/ \E c \in Jobs : FenceSignals(c) \/ Retire(c)
               \/ Quit \/ Flushed \/ Spin \/ UNCHANGED vars
        PROVE  NobodyIsStranded'
    <2>1. UNCHANGED <<at, remaining, pool, queue, completables>>
      BY <1>6 DEF FenceSignals, Retire, Quit, Flushed, Spin, vars, jobVars
    <2>2. Dropping => Dropping'
      BY <1>6 DEF FenceSignals, Retire, Quit, Flushed, Spin, vars, mainVars, Dropping
    <2>3. QED
      BY <2>1, <2>2, NoneMoved
  <1>7. ASSUME OffscreenTake \/ FlushLocal PROVE NobodyIsStranded'
    <2>1. main' = main /\ \E t \in {"offscreen", "local"} : Take(t)
      BY <1>7 DEF OffscreenTake, FlushLocal, mainVars
    <2>2. QED
      BY <2>1, TakeStrands
  <1>8. QED
    BY <1>1, <1>2, <1>3, <1>4, <1>5, <1>6, <1>7, SpawnStrands, JoinStrands,
       FinalSuspendStrands, PoolTakeStrands, CompletionTakeStrands, JoinedStrands, StepCases

(***************************************************************************)
(* No job is stranded between executors, whenever the user quits: whoever  *)
(* is suspended is in the queue of an executor, watched by the completion  *)
(* context, or waits for children each of which has still to end and will  *)
(* then take it off its list.  until_all_succeed() counts a child that     *)
(* ends while the others are being asked, reschedule_to() emplaces a job   *)
(* that is suspended already, and neither is lost: what EveryJobEnds needs *)
(* of the code besides fair executors.                                     *)
(***************************************************************************)
THEOREM NobodyStranded == Spec => []NobodyIsStranded
  <1>1. Init => NobodyIsStranded
    <2> SUFFICES ASSUME Init PROVE NobodyIsStranded
      OBVIOUS
    <2>1. \A c \in Jobs : at[c] = "unborn" /\ remaining[c] = {}
      BY DEF Init
    <2>2. QED
      BY <2>1 DEF NobodyIsStranded
  <1>2. QED
    BY <1>1, StrandsNobody, CradleInvariant, PTL DEF Spec

\* The engine is destroyed after the application.
MembersFirst ==
  main \in {"counter", "offscreen", "completion", "pool", "exited"} => ~members

LEMMA MembersFirstKept == MembersFirst /\ [Next]_vars => MembersFirst'
  <1> SUFFICES ASSUME MembersFirst, [Next]_vars PROVE MembersFirst'
    OBVIOUS
  <1>1. CASE main' = main /\ members' = members
    BY <1>1 DEF MembersFirst
  <1>2. CASE Quit \/ Flushed \/ Spin
    BY <1>2 DEF MembersFirst, Quit, Flushed, Spin
  <1>3. CASE Joined
    BY <1>3 DEF MembersFirst, Joined
  <1>4. \/ UNCHANGED mainVars \/ FlushLocal
        \/ Quit \/ Flushed \/ Spin \/ Joined
    <2>1. ASSUME NEW c \in Jobs,
                 \/ Reschedule(c) \/ AwaitFence(c) \/ SpawnChild(c) \/ JoinChildren(c)
                 \/ PollChildren(c) \/ Return(c) \/ FinalSuspend(c)
          PROVE  UNCHANGED mainVars
      BY <2>1 DEF Reschedule, AwaitFence, SpawnChild, JoinChildren, PollChildren, Return,
                  FinalSuspend
    <2>2. ASSUME NEW c \in Jobs,
                 FenceSignals(c) \/ PoolTake(c) \/ CompletionSweep(c) \/ Start(c) \/ Retire(c)
          PROVE  UNCHANGED mainVars
      BY <2>2 DEF FenceSignals, PoolTake, CompletionSweep, Start, Retire
    <2>3. OffscreenTake \/ CompletionTake \/ UNCHANGED vars => UNCHANGED mainVars
      BY DEF OffscreenTake, CompletionTake, vars, mainVars
    <2>4. QED
      BY <2>1, <2>2, <2>3, StepCases
  <1>5. QED
    BY <1>1, <1>2, <1>3, <1>4 DEF mainVars, FlushLocal

(***************************************************************************)
(* The destructors of the executors drop no job, if the user waits for     *)
(* those without a guard before he quits: whoever is suspended will be     *)
(* resumed, at any time.                                                   *)
(***************************************************************************)
THEOREM ShutdownStrandsNobody ==
    ASSUME ~QuitsAnytime, GuardsInherited
    PROVE  Spec => [](\A c \in Jobs : at[c] = "suspended" => WillBeResumed(c))
  <1>1. Init => MembersFirst
    BY DEF Init, MembersFirst
  <1>2. TasksAreCovered /\ MembersFirst /\ NobodyIsStranded
          => \A c \in Jobs : at[c] = "suspended" => WillBeResumed(c)
    BY DEF TasksAreCovered, MembersOutliveTasks, MembersFirst, NobodyIsStranded, Dropping
  <1>3. QED
    BY <1>1, <1>2, MembersFirstKept, NobodyStranded, ShutdownWaitsForTasks, PTL DEF Spec

-----------------------------------------------------------------------------
(* A result stays *)

\* Whoever has a result keeps it, and whoever has ended goes on no more.
GoesForward(d) ==
  /\ at[d] = "ready" => at'[d] \in {"ready", "ended"}
  /\ at[d] = "ended" => at'[d] = "ended"
  /\ at[d] # "unborn" => at'[d] # "unborn"

LEMMA StepForward ==
    ASSUME IInv, [Next]_vars, NEW d \in Jobs
    PROVE  GoesForward(d)
  <1>1. /\ EntriesDue /\ TypeOK
        /\ at \in [Jobs -> {"unborn", "running", "suspended", "ready", "ended"}]
    BY InvParts DEF JobsTyped
  <1>2. at'[d] = at[d] => GoesForward(d)
    BY DEF GoesForward
  <1>3. ASSUME NEW c \in Jobs, NEW op, Awaits(c, op), Suspend(c) PROVE GoesForward(d)
    BY <1>1, <1>3 DEF Awaits, Suspend, GoesForward
  <1>4. ASSUME NEW c \in Jobs, NEW t, Resume(c, t), at[c] \in {"unborn", "suspended"}
        PROVE  GoesForward(d)
    BY <1>1, <1>4 DEF Resume, GoesForward
  <1>5. ASSUME NEW c \in Jobs, Reschedule(c) \/ AwaitFence(c) PROVE GoesForward(d)
    BY <1>3, <1>5 DEF Reschedule, AwaitFence
  <1>6. ASSUME NEW c \in Jobs, JoinChildren(c) \/ PollChildren(c) PROVE GoesForward(d)
    BY <1>2, <1>3, <1>6 DEF JoinChildren, PollChildren
  <1>7. ASSUME NEW c \in Jobs, Return(c) PROVE GoesForward(d)
    BY <1>1, <1>7 DEF Return, GoesForward
  <1>8. ASSUME NEW c \in Jobs, FinalSuspend(c) PROVE GoesForward(d)
    <2>1. /\ at[c] = "ready"
          /\ at'[d] = IF d = c THEN "ended" ELSE IF remaining[d] = {c} THEN "running" ELSE at[d]
      BY <1>8 DEF FinalSuspend
    <2>2. remaining[d] # {} => at[d] = "suspended"
      BY <1>1, DueSuspended
    <2>3. QED
      BY <2>1, <2>2 DEF GoesForward
  <1>9. ASSUME NEW c \in Jobs, SpawnChild(c) PROVE GoesForward(d)
    <2>1. PICK x \in Children[c] : at[x] = "unborn" /\ at' = [at EXCEPT ![x] = "suspended"]
      BY <1>9 DEF SpawnChild
    <2>2. QED
      BY <1>1, <2>1 DEF GoesForward
  <1>10. ASSUME NEW c \in Jobs, PoolTake(c) PROVE GoesForward(d)
    <2>1. Entry(c, "resume") \in pool /\ Resume(c, "pool") /\ Entry(c, "resume").job = c
      BY <1>10 DEF PoolTake, Entry
    <2>2. at[c] = "suspended"
      BY <1>1, <2>1, DueSuspended
    <2>3. QED
      BY <1>4, <2>1, <2>2
  <1>11. ASSUME NEW c \in Jobs, CompletionSweep(c) PROVE GoesForward(d)
    <2>1. at[c] = "suspended"
      BY <1>1, <1>11, DueSuspended DEF CompletionSweep
    <2>2. QED
      BY <1>4, <1>11, <2>1 DEF CompletionSweep
  <1>12. ASSUME NEW t \in {"offscreen", "local"}, Take(t) PROVE GoesForward(d)
    <2>1. PICK x, c : x = Head(queue[t]) /\ c = x.job
      OBVIOUS
    <2>2. PICK Q : Q = [queue EXCEPT ![t] = Tail(@)]
      BY Zenon
    <2>3. t \in Queues /\ queue[t] # <<>>
      BY <1>12, QueuesAre DEF Take
    <2>4. at[c] = "suspended" /\ c \in Jobs
      BY <2>1, <2>2, <2>3, TakenFacts
    <2>5. Resume(c, t) \/ at' = at
      BY <1>12, <2>1 DEF Take
    <2>6. QED
      BY <1>2, <1>4, <2>4, <2>5
  <1>13. ASSUME NEW c \in Jobs, Start(c) PROVE GoesForward(d)
    BY <1>4, <1>13 DEF Start
  <1>14. ASSUME \/ \E c \in Jobs : FenceSignals(c) \/ Retire(c)
                \/ CompletionTake \/ Quit \/ Flushed \/ Spin \/ Joined \/ UNCHANGED vars
         PROVE  at' = at
    BY <1>14 DEF FenceSignals, Retire, CompletionTake, Quit, Flushed, Spin, Joined, jobVars, vars
  <1>15. OffscreenTake => Take("offscreen")
    BY DEF OffscreenTake
  <1>16. FlushLocal => Take("local")
    BY DEF FlushLocal
  <1>17. QED
    BY <1>2, <1>5, <1>6, <1>7, <1>8, <1>9, <1>10, <1>11, <1>12, <1>13, <1>14, <1>15, <1>16,
       StepCases

(***************************************************************************)
(* What is asked of a job before an await still holds after it: a child    *)
(* that has_result() has it when the completion context, or the parent,    *)
(* gets round to looking again, and no entry that was left behind resumes  *)
(* a job that has ended.                                                   *)
(***************************************************************************)
THEOREM ResultsStay == Spec => [][\A c \in Jobs : GoesForward(c)]_vars
  <1>1. IInv /\ [Next]_vars => [\A c \in Jobs : GoesForward(c)]_vars
    BY StepForward
  <1>2. QED
    BY <1>1, CradleInvariant, PTL DEF Spec

=============================================================================
