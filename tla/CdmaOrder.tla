------------------------------ MODULE CdmaOrder ------------------------------
(***************************************************************************)
(* The order in which the engine, the CPU and the timeout handler deal     *)
(* with the jobs of a channel, and whose timer goes off: theorems about    *)
(* Cdma in a ring with room for all jobs and while no counter wraps, on    *)
(* top of the invariants of CdmaProofs.                                    *)
(***************************************************************************)
EXTENDS CdmaProofs

-----------------------------------------------------------------------------
(* The order of what the hardware does, in a ring with room for all jobs   *)
(* and while no counter wraps.                                             *)

Commanded == {"work", "final", "release"}
Rank == [o \in Commanded |-> IF o = "work" THEN 1 ELSE IF o = "final" THEN 2 ELSE 3]
Begun(j) == job[j].step \notin {"new", "refused"}
Gone(j) == Begun(j) /\ j # sub.job /\ j \notin Elems(queue)
Value(j) == sp[Sp(j)].value

\* What the hardware has yet to fetch, and what a job has yet to do: written or not.
Ahead(k) == Off[k] >= Off[dma.get] /\ mem[k].op \in Commanded
Pending(j, o) ==
  \/ sub.job = j /\ Rank[o] >= sub.i
  \/ \E k \in Positions : Ahead(k) /\ mem[k] = [job |-> j, op |-> o]

\* Jobs of a syncpoint have two values each, one after the other.
Counted(s) ==
  /\ {sp[s].min, sp[s].value, sp[s].max} \subseteq Nat
  /\ scene.from <= sp[s].min /\ sp[s].min <= sp[s].value /\ sp[s].value <= sp[s].max
  /\ sp[s].max <= scene.from + 2 * NJobs
  /\ \A j \in Job : job[j].step = "new" => sp[s].max <= scene.from + 2 * (j - 1)
  /\ \/ sp[s].max = scene.from
     \/ \E p \in Job : Begun(p) /\ Sp(p) = s /\ job[p].end + 1 = sp[s].max
Numbered(j) ==
  /\ job[j].end \in Nat /\ scene.from < job[j].end
  /\ job[j].thresh = job[j].end + 1 /\ job[j].end < sp[Sp(j)].max
  /\ \A p \in Job : p < j /\ Begun(p) /\ Sp(p) = Sp(j) => job[p].end + 2 <= job[j].end
  /\ \/ job[j].end = scene.from + 1
     \/ \E p \in Job : p < j /\ Begun(p) /\ Sp(p) = Sp(j) /\ job[p].end + 2 = job[j].end
Numbers == (\A s \in Syncpt : Counted(s)) /\ (\A j \in Job : Begun(j) => Numbered(j))

\* Jobs begin, and are queued and retired, in their order.
Turns ==
  /\ \A i, j \in Job : i < j /\ job[i].step = "new" => job[j].step = "new"
  /\ \A i, k \in 1..Len(queue) : i < k => queue[i] < queue[k]
  /\ \A i \in Elems(queue) : Begun(i) /\ i # sub.job
  /\ \A i \in Elems(queue), j \in Job : i < j /\ Begun(j) /\ j # sub.job => j \in Elems(queue)
  /\ sub.step # "idle" => Begun(sub.job) /\ \A j \in Job : Begun(j) => j <= sub.job

\* A cancelled job takes the later ones of its syncpoint with it.
Locking ==
  /\ \A j \in Job : /\ ~Begun(j) => ~job[j].cancelled /\ ~job[j].failed /\ job[j].ran = {}
                    /\ job[j].cancelled => sp[Sp(j)].locked
                    /\ j \in Elems(queue) /\ sp[Sp(j)].locked => job[j].cancelled
                    /\ j = sub.job => ~sp[Sp(j)].locked
  /\ \A i, j \in Job : i < j /\ job[i].cancelled /\ Sp(i) = Sp(j) /\ Begun(j) => job[j].cancelled

\* The counter tells how far each job is.
Told(j) ==
  /\ \A o \in Commanded : Pending(j, o) => Begun(j) /\ ~job[j].cancelled /\ ~job[j].failed
  /\ Pending(j, "work") => Value(j) < job[j].end
  /\ Pending(j, "final") => Value(j) <= job[j].end
  /\ Begun(j) /\ ~job[j].cancelled =>
       /\ ~Pending(j, "final") \/ Gone(j) => Value(j) >= job[j].end
       /\ ~Pending(j, "work") /\ ~job[j].failed => Value(j) >= job[j].end - 1 /\ "work" \in job[j].ran
  /\ job[j].ran \cap {"final", "release"} # {} => "work" \in job[j].ran
Progress == \A j \in Job : Told(j)

\* Jobs lie in the ring in their order, from where they say.
Before(a, b) == a.job < b.job \/ (a.job = b.job /\ Rank[a.op] < Rank[b.op])
Region(i, f) == \A k \in Positions : Ahead(k) => (Off[k] >= Off[f] <=> mem[k].job >= i)
Layout ==
  /\ \A k \in Positions : Ahead(k) => mem[k].job \in Job
  /\ \A k, n \in Positions : Ahead(k) /\ Ahead(n) /\ Off[k] < Off[n] => Before(mem[k], mem[n])
  /\ sub.step # "idle" =>
       /\ Region(sub.job, sub.first)
       /\ \A k \in Positions : Ahead(k) /\ mem[k].job = sub.job => Rank[mem[k].op] < sub.i
  /\ \A i \in Elems(queue) :
       /\ Region(i, job[i].first)
       /\ \A k \in Positions : Ahead(k) => (mem[k].job = i <=> Harmless(k, i))
       /\ Off[job[i].first] + job[i].slots <= Reach

\* Nobody sleeps; nothing is unfetched while the engine is off; the timer is that of the
\* first job.
Switches ==
  /\ sub.step \in {"idle", "push", "end"} /\ (sub.step = "end" => sub.i = 4)
  /\ sub.step = "idle" => dma.put = pb.pos
  /\ ~dma.on => sub.step = "idle" /\ queue = <<>>
  /\ timer.client # 0 => timer.client = queue[1] /\ ~job[timer.client].cancelled

Ordered == Numbers /\ Turns /\ Locking /\ Progress /\ Layout /\ Switches
OInv == Roomy /\ NoWrap => Ordered
OHyp == CInv /\ WInv /\ Roomy /\ NoWrap /\ Ordered

-----------------------------------------------------------------------------
(* Room for all, and what nobody changes.                                  *)

\* Numbers are numbers.
LEMMA NumberTypes ==
  ASSUME Types
  PROVE  /\ scene.from \in Nat /\ NJobs \in Nat /\ NJobs > 0 /\ CounterMod \in Nat /\ 4 * NJobs < CounterMod
         /\ Job = 1..NJobs /\ \A j \in Job : j \in Nat /\ j >= 1 /\ j <= NJobs /\ Sp(j) \in Syncpt
<1>1. scene \in Scenarios
  BY DEF Types
<1>2. scene.from \in 0..(CounterMod - 1) /\ scene.sp \in [Job -> Syncpt] /\ CounterMod \in Nat
  BY <1>1, CdmaAssumption
<1>3. NJobs \in Nat /\ NJobs > 0 /\ CounterMod > 4 * NJobs
  BY CdmaAssumption
<1> QED BY <1>2, <1>3 DEF Job, Sp

\* host1x_syncpt_is_expired() compares what it is asked about, while nothing wraps.
LEMMA Compare ==
  ASSUME NEW N \in Nat, N > 0, NEW M \in Nat, 4 * N < M, NEW f \in Nat, f + 2 * N < M, M = CounterMod,
         NEW v \in f..(f + 2 * N), NEW e \in f..(f + 2 * N), f < e
  PROVE  Expired(v, e) <=> v >= e
<1> DEFINE h == M \div 2
<1>1. h \in Nat /\ 2 * h <= M /\ M <= 2 * h + 1
  OBVIOUS
<1>2. h >= 2 * N
  <2> HIDE DEF h
  <2> QED BY <1>1
<1>3. Expired(v, e) <=> (v - e) % M < h
  BY DEF Expired
<1> HIDE DEF h
<1>4. CASE v >= e
  <2>1. (v - e) % M = v - e
    <3>1. 0 <= v - e /\ v - e < M /\ v - e \in Int
      BY <1>4
    <3> QED BY <3>1, RingFacts
  <2>2. v < e + 2 * N /\ v \in Int /\ e \in Int /\ h \in Int
    BY <1>1
  <2>3. v - e < h
    BY <1>2, <2>2
  <2> QED BY <1>3, <1>4, <2>1, <2>3
<1>5. CASE v < e
  <2>1. (v - e) % M = v - e + M
    <3>1. 0 - M <= v - e /\ v - e < 0 /\ v - e \in Int /\ M > 0
      BY <1>5
    <3> QED BY <3>1, RingFacts
  <2>2. v - e + M >= h
    BY <1>1, <1>2
  <2> QED BY <1>1, <1>3, <1>5, <2>1, <2>2
<1> QED BY <1>4, <1>5

\* Jobs of at most five slots have at most five times as many as they are.
LEMMA SlotsBound ==
  ASSUME NEW jb, Counts(jb), NEW S \in SUBSET Job, \A j \in S : jb[j].slots <= 5
  PROVE  SlotsOf(jb, S) <= 5 * Cardinality(S)
<1> DEFINE C == {T \in SUBSET S : ~(SlotsOf(jb, T) <= 5 * Cardinality(T))}
<1> SUFFICES ASSUME C # {} PROVE FALSE
  OBVIOUS
<1>0. C \in SUBSET (SUBSET Job)
  OBVIOUS
<1>1. PICK T \in C : \A t \in C : t \subseteq T => t = T
  <2> HIDE DEF C
  <2> QED BY <1>0, SmallestJobs
<1>2. T # {}
  <2>1. Cardinality({}) = 0
    BY FS_EmptySet
  <2> QED BY <2>1, SlotsOne
<1> DEFINE p == Pick(T)
           U == T \ {p}
<1>3. p \in T /\ U # T /\ U \in SUBSET S
  BY <1>1, <1>2, Picked
<1>4. SlotsOf(jb, U) <= 5 * Cardinality(U)
  BY <1>1, <1>3
<1>5. SlotsOf(jb, T) = jb[p].slots + SlotsOf(jb, U) /\ SlotsOf(jb, U) \in Nat /\ jb[p].slots \in Nat /\ jb[p].slots <= 5
  BY <1>2, <1>3, SlotsOne, SlotsNat DEF Counts
<1>6. Cardinality(U) = Cardinality(T) - 1 /\ Cardinality(T) \in Nat /\ Cardinality(U) \in Nat
  <2>1. IsFiniteSet(T) /\ IsFiniteSet(U)
    BY FiniteJobs
  <2> QED BY <1>3, <2>1, FS_RemoveElement, FS_CardinalityType
<1>7. SlotsOf(jb, T) <= 5 * Cardinality(T)
  <2> HIDE DEF p, U
  <2> QED BY <1>4, <1>5, <1>6
<1> QED BY <1>1, <1>7

\* A submission finds the slots that it needs.
LEMMA Spacious ==
  ASSUME OHyp, sub.step # "idle"
  PROVE  Space + sub.used >= 5 /\ Space \in Nat /\ sub.used \in Nat
<1> DEFINE S == Elems(queue)
           m == sub.job - 1
<1>1. /\ Space \in 0..(Ring - 1) /\ Counts(job) /\ S \in SUBSET Job /\ SlotsOf(job, S) \in Nat
      /\ sub.used \in Nat /\ Ring - 1 - Space = sub.used + SlotsOf(job, S)
  BY SpaceFacts DEF OHyp
<1>2. sub.job \in 1..NJobs /\ NJobs \in Nat /\ Job = 1..NJobs /\ Ring \in Nat
  BY ReachFacts DEF OHyp
<1>3. S \subseteq 1..m
  <2> SUFFICES ASSUME NEW i \in S PROVE i \in 1..m
    OBVIOUS
  <2>1. i \in Job /\ Begun(i) /\ i # sub.job
    BY <1>1 DEF OHyp, Ordered, Turns
  <2>2. i <= sub.job
    BY <2>1 DEF OHyp, Ordered, Turns
  <2> QED BY <1>2, <2>1, <2>2
<1>4. Cardinality(S) <= m /\ Cardinality(S) \in Nat
  <2>1. 1 \in Int /\ m \in Int /\ m >= 0
    BY <1>2
  <2>2. IsFiniteSet(1..m) /\ Cardinality(1..m) = m
    <3> HIDE DEF m
    <3> QED BY <2>1, FS_Interval
  <2> QED BY <1>3, <2>2, FS_Subset, FS_CardinalityType
<1>5. SlotsOf(job, S) <= 5 * Cardinality(S)
  <2>1. \A j \in S : job[j].slots <= 5
    BY DEF OHyp, WInv, Marks
  <2> HIDE DEF S
  <2> QED BY <1>1, <2>1, SlotsBound
<1>6. Ring > 5 * NJobs
  BY DEF OHyp, Roomy
<1> HIDE DEF S
<1>7. SlotsOf(job, S) <= 5 * (NJobs - 1)
  <2>1. m <= NJobs - 1 /\ m \in Int
    BY <1>2
  <2> QED BY <1>1, <1>2, <1>4, <1>5, <2>1
<1> QED BY <1>1, <1>2, <1>6, <1>7

\* What all but the first step leave of a job, what most leave, ...
Alike(j) ==
  /\ job'[j].step \notin {"new", "refused"} <=> Begun(j)
  /\ job'[j].step = "new" => job[j].step = "new"
  /\ job'[j].end = job[j].end /\ job'[j].thresh = job[j].thresh
Kept(j) == Alike(j) /\ job'[j].first = job[j].first /\ job'[j].slots = job[j].slots
\* ... and of its fate.
Spared(j) ==
  job'[j].cancelled = job[j].cancelled /\ job'[j].failed = job[j].failed /\ job'[j].ran = job[j].ran

\* The queue loses its first n jobs.
Shorter(n) == n \in 0..Len(queue) /\ queue' = SubSeq(queue, n + 1, Len(queue))

\* Values may grow up to what jobs have reserved.
LEMMA NumbersKept ==
  ASSUME Types, Numbers, scene' = scene, \A j \in Job : Alike(j),
         \A s \in Syncpt : /\ sp'[s].max = sp[s].max /\ {sp'[s].min, sp'[s].value} \subseteq Nat
                           /\ scene.from <= sp'[s].min /\ sp'[s].min <= sp'[s].value
                           /\ sp'[s].value <= sp[s].max
  PROVE  Numbers'
<1>1. \A j \in Job : Sp(j) \in Syncpt /\ Sp(j)' = Sp(j) /\ (Begun(j)' <=> Begun(j))
  BY NumberTypes DEF Sp, Alike, Begun
<1>2. ASSUME NEW s \in Syncpt PROVE Counted(s)'
  <2>1. Counted(s)
    BY DEF Numbers
  <2>2. \A j \in Job : job'[j].step = "new" => sp'[s].max <= scene'.from + 2 * (j - 1)
    BY <2>1 DEF Counted, Alike
  <2>3. sp'[s].max = scene'.from \/ \E p \in Job : Begun(p)' /\ Sp(p)' = s /\ job'[p].end + 1 = sp'[s].max
    BY <1>1, <2>1 DEF Counted, Alike
  <2>4. sp'[s].max \in Nat /\ sp'[s].max <= scene'.from + 2 * NJobs
    BY <2>1 DEF Counted
  <2> QED BY <2>2, <2>3, <2>4 DEF Counted
<1>3. ASSUME NEW j \in Job, Begun(j)' PROVE Numbered(j)'
  <2>1. Numbered(j) /\ job'[j].end = job[j].end /\ job'[j].thresh = job[j].thresh /\ Sp(j)' = Sp(j)
    BY <1>1, <1>3 DEF Numbers, Alike
  <2>2. \A p \in Job : p < j /\ Begun(p)' /\ Sp(p)' = Sp(j)' => job'[p].end + 2 <= job'[j].end
    BY <1>1, <2>1 DEF Numbered, Alike
  <2>3. \/ job'[j].end = scene'.from + 1
        \/ \E p \in Job : p < j /\ Begun(p)' /\ Sp(p)' = Sp(j)' /\ job'[p].end + 2 = job'[j].end
    BY <1>1, <2>1 DEF Numbered, Alike
  <2>4. job'[j].end < sp'[Sp(j)'].max
    BY <1>1, <2>1 DEF Numbered
  <2> QED BY <2>1, <2>2, <2>3, <2>4 DEF Numbered
<1> QED BY <1>2, <1>3 DEF Numbers

\* The jobs of a queue whose first n have left.
LEMMA ShorterFacts ==
  ASSUME CInv, NEW n, Shorter(n)
  PROVE  /\ queue \in Seq(Job) /\ Len(queue) \in Nat /\ queue' \in Seq(Job) /\ Len(queue') = Len(queue) - n
         /\ n \in Nat /\ \A i \in 1..Len(queue') : queue'[i] = queue[n + i]
         /\ Elems(queue') = {queue[i] : i \in (n + 1)..Len(queue)}
         /\ Elems(queue') \subseteq Elems(queue) /\ Elems(queue) \subseteq Job
         /\ n = 0 => queue' = queue
<1>1. queue \in Seq(Job) /\ Distinct(queue) /\ Len(queue) \in Nat /\ n \in 0..Len(queue)
  BY LenProperties DEF CInv, Types, Submission, Shorter
<1>2. /\ queue' \in Seq(Job) /\ Len(queue') = Len(queue) - n
      /\ \A i \in 1..(Len(queue) - n) : queue'[i] = queue[n + i]
  BY <1>1, SubSeqProperties DEF Shorter
<1>3. Elems(queue') = {queue[i] : i \in (n + 1)..Len(queue)}
  <2>1. ASSUME NEW i \in 1..Len(queue') PROVE \E k \in (n + 1)..Len(queue) : queue'[i] = queue[k]
    <3>1. n + i \in (n + 1)..Len(queue) /\ queue'[i] = queue[n + i]
      BY <1>1, <1>2
    <3> QED BY <3>1
  <2>2. ASSUME NEW k \in (n + 1)..Len(queue) PROVE \E i \in 1..Len(queue') : queue'[i] = queue[k]
    <3>1. k - n \in 1..Len(queue') /\ n + (k - n) = k
      BY <1>1, <1>2
    <3>2. queue'[k - n] = queue[n + (k - n)]
      BY <1>2, <3>1
    <3> QED BY <3>1, <3>2
  <2> QED BY <2>1, <2>2 DEF Elems
<1>4. Elems(queue') \subseteq Elems(queue) /\ Elems(queue) \subseteq Job
  <2>1. (n + 1)..Len(queue) \subseteq 1..Len(queue) /\ Elems(queue) = {queue[i] : i \in 1..Len(queue)}
    BY <1>1 DEF Elems
  <2>2. Elems(queue) \subseteq Job
    BY SpaceFacts
  <2> QED BY <1>3, <2>1, <2>2
<1>5. n = 0 => queue' = queue
  <2> DEFINE rest == SubSeq(queue, n + 1, Len(queue))
  <2>1. n = 0 => rest = queue
    BY <1>1, RestFacts
  <2>2. queue' = rest
    BY DEF Shorter
  <2> HIDE DEF rest
  <2> QED BY <2>1, <2>2
<1> QED BY <1>1, <1>2, <1>3, <1>4, <1>5

\* Jobs that leave from the front leave the others in their order.
LEMMA TurnsKept ==
  ASSUME CInv, Turns, \A j \in Job : Kept(j), NEW n, Shorter(n),
         \A i, j \in Job : i < j /\ job'[i].step = "new" => job'[j].step = "new",
         sub'.job = sub.job, sub'.step = "idle" <=> sub.step = "idle"
  PROVE  Turns'
<1>1. /\ queue \in Seq(Job) /\ Len(queue) \in Nat /\ queue' \in Seq(Job) /\ Len(queue') = Len(queue) - n
      /\ n \in Nat /\ \A i \in 1..Len(queue') : queue'[i] = queue[n + i]
      /\ Elems(queue') = {queue[i] : i \in (n + 1)..Len(queue)}
      /\ Elems(queue') \subseteq Elems(queue) /\ Elems(queue) \subseteq Job
  BY ShorterFacts
<1>2. Elems(queue)' = Elems(queue')
  BY DEF Elems
<1>3. \A j \in Job : Begun(j)' <=> Begun(j)
  BY DEF Kept, Alike, Begun
<1>4. ASSUME NEW i \in 1..Len(queue'), NEW k \in 1..Len(queue'), i < k PROVE queue'[i] < queue'[k]
  <2>1. n + i \in 1..Len(queue) /\ n + k \in 1..Len(queue) /\ n + i < n + k
    BY <1>1, <1>4
  <2> QED BY <1>1, <2>1 DEF Turns
<1>5. ASSUME NEW i \in Elems(queue'), NEW j \in Job, i < j, Begun(j), j # sub.job PROVE j \in Elems(queue')
  <2>1. PICK b \in (n + 1)..Len(queue) : i = queue[b]
    BY <1>1
  <2>2. i \in Elems(queue) /\ j \in Elems(queue)
    BY <1>1, <1>5 DEF Turns
  <2>3. PICK a \in 1..Len(queue) : j = queue[a]
    BY <2>2 DEF Elems
  <2>4. ~(a < b) /\ a # b
    <3>1. b \in 1..Len(queue) /\ i \in Nat /\ j \in Nat
      BY <1>1, <2>2, NumberTypes DEF CInv
    <3>2. a < b => j < i
      BY <2>1, <2>3, <3>1 DEF Turns
    <3> QED BY <1>5, <2>1, <2>3, <3>1, <3>2
  <2>5. a \in (n + 1)..Len(queue)
    BY <1>1, <2>4
  <2> QED BY <1>1, <2>3, <2>5
<1>6. \A i \in Elems(queue') : Begun(i)' /\ i # sub'.job
  BY <1>1, <1>3 DEF Turns
<1>7. sub'.step # "idle" => Begun(sub.job)' /\ \A j \in Job : Begun(j)' => j <= sub'.job
  <2> SUFFICES ASSUME sub'.step # "idle" PROVE Begun(sub.job)' /\ \A j \in Job : Begun(j)' => j <= sub'.job
    OBVIOUS
  <2>1. sub.job \in Job /\ Begun(sub.job) /\ \A j \in Job : Begun(j) => j <= sub.job
    BY ReachFacts DEF Turns
  <2>2. job'[sub.job].step \notin {"new", "refused"}
    BY <2>1 DEF Kept, Alike
  <2> QED BY <1>3, <2>1, <2>2 DEF Begun
<1> QED BY <1>2, <1>3, <1>4, <1>5, <1>6, <1>7 DEF Turns, Begun

\* Nobody is cancelled, no syncpoint locked, nothing queued.
LEMMA LockingKept ==
  ASSUME Types, Locking, scene' = scene, \A j \in Job : Kept(j),
         \A j \in Job : /\ job'[j].cancelled = job[j].cancelled
                        /\ ~Begun(j) => job'[j].failed = job[j].failed /\ job'[j].ran = job[j].ran,
         \A s \in Syncpt : sp'[s].locked = sp[s].locked,
         Elems(queue') \subseteq Elems(queue), sub'.job = sub.job
  PROVE  Locking'
<1>1. \A j \in Job : Sp(j) \in Syncpt /\ Sp(j)' = Sp(j) /\ (Begun(j)' <=> Begun(j))
  BY NumberTypes DEF Sp, Kept, Alike, Begun
<1>2. Elems(queue)' = Elems(queue')
  BY DEF Elems
<1>3. ASSUME NEW j \in Job
      PROVE  /\ ~Begun(j)' => ~job'[j].cancelled /\ ~job'[j].failed /\ job'[j].ran = {}
             /\ job'[j].cancelled => sp'[Sp(j)'].locked
             /\ j \in Elems(queue') /\ sp'[Sp(j)'].locked => job'[j].cancelled
             /\ j = sub'.job => ~sp'[Sp(j)'].locked
  BY <1>1, <1>3 DEF Locking
<1>4. ASSUME NEW i \in Job, NEW j \in Job, i < j, job'[i].cancelled, Sp(i)' = Sp(j)', Begun(j)'
      PROVE  job'[j].cancelled
  BY <1>1, <1>4 DEF Locking
<1> QED BY <1>2, <1>3, <1>4 DEF Locking

\* What is ahead was, and says the same.
Fewer == \A k \in Positions : Ahead(k)' => Ahead(k) /\ mem'[k] = mem[k]

\* Then jobs are in their order, where they were ...
LEMMA LayoutFewer ==
  ASSUME Types, Layout, scene' = scene, pb'.pos = pb.pos, Fewer,
         \A j \in Elems(queue) : job'[j].first = job[j].first /\ job'[j].slots = job[j].slots,
         Elems(queue') \subseteq Elems(queue), Elems(queue) \subseteq Job,
         sub'.step # "idle" =>
           \A k \in Positions : Ahead(k)' => /\ Off[k] >= Off[sub'.first] <=> mem'[k].job >= sub'.job
                                             /\ mem'[k].job = sub'.job => Rank[mem'[k].op] < sub'.i
  PROVE  Layout'
<1>1. Ring' = Ring /\ Positions' = Positions /\ Off' = Off /\ Elems(queue)' = Elems(queue')
      /\ Reach' = Reach /\ \A c, d : Dist(c, d)' = Dist(c, d)
  BY DEF Ring, Positions, Off, Reach, Dist, Elems
<1>2. \A i, f, k : Region(i, f) /\ k \in Positions /\ Ahead(k)' => (Off[k] >= Off[f] <=> mem'[k].job >= i)
  BY DEF Region, Fewer
<1>3. \A k \in Positions : Ahead(k)' => mem'[k].job \in Job
  BY DEF Fewer, Layout
<1>4. \A k, n \in Positions : Ahead(k)' /\ Ahead(n)' /\ Off[k] < Off[n] => Before(mem'[k], mem'[n])
  BY DEF Fewer, Layout
<1>5. ASSUME NEW i \in Elems(queue')
      PROVE  /\ \A k \in Positions : Ahead(k)' => (Off[k] >= Off[job'[i].first] <=> mem'[k].job >= i)
             /\ \A k \in Positions :
                  Ahead(k)' => (mem'[k].job = i <=> Dist(k, job'[i].first) < job'[i].slots)
             /\ Off[job'[i].first] + job'[i].slots <= Reach
  <2>1. i \in Elems(queue) /\ i \in Job /\ job'[i].first = job[i].first /\ job'[i].slots = job[i].slots
    OBVIOUS
  <2>2. /\ Region(i, job[i].first)
        /\ \A k \in Positions : Ahead(k) => (mem[k].job = i <=> Dist(k, job[i].first) < job[i].slots)
        /\ Off[job[i].first] + job[i].slots <= Reach
    BY <2>1 DEF Layout, Harmless
  <2>3. \A k \in Positions : Ahead(k)' => Ahead(k) /\ mem'[k] = mem[k]
    BY DEF Fewer
  <2>4. \A k \in Positions : Ahead(k)' => (Off[k] >= Off[job'[i].first] <=> mem'[k].job >= i)
    BY <1>2, <2>1, <2>2
  <2>5. \A k \in Positions : Ahead(k)' => (mem'[k].job = i <=> Dist(k, job'[i].first) < job'[i].slots)
    BY <2>1, <2>2, <2>3
  <2>6. Off[job'[i].first] + job'[i].slots <= Reach
    BY <2>1, <2>2
  <2> QED BY <2>4, <2>5, <2>6
<1>6. \A i, k : Harmless(k, i)' <=> Dist(k, job'[i].first) < job'[i].slots
  BY <1>1 DEF Harmless
<1>7. ASSUME NEW i \in Elems(queue')
      PROVE  /\ Region(i, job[i].first)'
             /\ \A k \in Positions : Ahead(k)' => (mem'[k].job = i <=> Harmless(k, i)')
             /\ Off[job'[i].first] + job'[i].slots <= Reach
  BY <1>1, <1>5, <1>6 DEF Region
<1>8. sub'.step # "idle" =>
        /\ Region(sub.job, sub.first)'
        /\ \A k \in Positions : Ahead(k)' /\ mem'[k].job = sub'.job => Rank[mem'[k].op] < sub'.i
  BY <1>1 DEF Region
<1> QED BY <1>1, <1>3, <1>4, <1>7, <1>8 DEF Layout, Before

\* ... and so is the submission.
LEMMA LayoutKept ==
  ASSUME Types, Layout, scene' = scene, pb'.pos = pb.pos, Fewer, \A j \in Job : Kept(j),
         Elems(queue') \subseteq Elems(queue), Elems(queue) \subseteq Job,
         sub'.step # "idle" => /\ sub.step # "idle" /\ sub'.job = sub.job /\ sub'.first = sub.first
                               /\ sub'.i = sub.i
  PROVE  Layout'
<1>1. sub'.step # "idle" =>
        \A k \in Positions : Ahead(k)' => /\ Off[k] >= Off[sub'.first] <=> mem'[k].job >= sub'.job
                                          /\ mem'[k].job = sub'.job => Rank[mem'[k].op] < sub'.i
  BY DEF Fewer, Layout, Region
<1>2. \A j \in Elems(queue) : job'[j].first = job[j].first /\ job'[j].slots = job[j].slots
  BY DEF Kept
<1> QED BY <1>1, <1>2, LayoutFewer

\* The hardware has done nothing and is asked for nothing more.
LEMMA PendingKept ==
  ASSUME scene' = scene, mem' = mem, dma'.get = dma.get, sub'.job = sub.job, sub'.i = sub.i
  PROVE  Fewer /\ \A j, o : Pending(j, o)' <=> Pending(j, o)
<1>1. Ring' = Ring /\ Positions' = Positions /\ Off' = Off
  BY DEF Ring, Positions, Off, Dist
<1>2. \A k : Ahead(k)' <=> Ahead(k)
  BY <1>1 DEF Ahead
<1> QED BY <1>1, <1>2 DEF Pending, Fewer

\* Jobs are as far as they were.
LEMMA ProgressKept ==
  ASSUME Types, Progress, scene' = scene, \A j \in Job : Alike(j) /\ Spared(j),
         \A s \in Syncpt : sp'[s].value = sp[s].value,
         \A j \in Job, o \in Commanded : Pending(j, o)' <=> Pending(j, o),
         \A j \in Job : Gone(j)' => Gone(j) \/ job[j].cancelled \/ Value(j) >= job[j].end
  PROVE  Progress'
<1>1. \A j \in Job : Sp(j) \in Syncpt /\ Sp(j)' = Sp(j) /\ (Begun(j)' <=> Begun(j)) /\ Value(j)' = Value(j)
  BY NumberTypes DEF Sp, Alike, Begun, Value
<1> SUFFICES ASSUME NEW j \in Job PROVE Told(j)'
  BY DEF Progress
<1>2. Told(j) /\ Alike(j) /\ Spared(j)
  BY DEF Progress
<1>3. {"work", "final"} \subseteq Commanded
  BY DEF Commanded
<1> QED BY <1>1, <1>2, <1>3 DEF Told, Alike, Spared

-----------------------------------------------------------------------------
(* Steps that leave the ring and the queue alone.                          *)

\* The invariants, and what they say of types.
LEMMA OrderTypes ==
  ASSUME OHyp
  PROVE  /\ Types /\ Numbers /\ Turns /\ Locking /\ Progress /\ Layout /\ Switches /\ Commands /\ Marks /\ Budget
         /\ CInv /\ job \in [Job -> Jobs] /\ queue \in Seq(Job) /\ Elems(queue) \subseteq Job /\ Len(queue) \in Nat
         /\ sp \in [Syncpt -> [value : Int, min : Int, max : Int, locked : BOOLEAN]]
         /\ dma \in [get : Positions, put : Positions, on : BOOLEAN]
BY SpaceFacts, TypedJobs, LenProperties DEF OHyp, Ordered, WInv, CInv, Types

\* Steps that touch neither the ring nor the queue, and of the counters only what is cached.
LEMMA QuietOrder ==
  ASSUME OHyp, UNCHANGED <<scene, mem, queue, sub>>, pb'.pos = pb.pos, dma'.get = dma.get, dma'.put = dma.put,
         ~dma'.on => sub.step = "idle" /\ queue = <<>>, timer'.client = timer.client,
         \A j \in Job : Kept(j) /\ Spared(j),
         \A i, j \in Job : i < j /\ job'[i].step = "new" => job'[j].step = "new",
         \A s \in Syncpt : /\ sp'[s].max = sp[s].max /\ sp'[s].value = sp[s].value
                           /\ sp'[s].locked = sp[s].locked /\ sp'[s].min \in {sp[s].min, sp[s].value}
  PROVE  Ordered'
<1>1. /\ Types /\ Numbers /\ Turns /\ Locking /\ Progress /\ Layout /\ Switches /\ CInv
      /\ queue \in Seq(Job) /\ Elems(queue) \subseteq Job /\ Len(queue) \in Nat
  BY OrderTypes
<1>2. Shorter(0)
  BY <1>1, RestFacts DEF Shorter, CInv, Submission
<1>3. Fewer /\ \A j, o : Pending(j, o)' <=> Pending(j, o)
  BY PendingKept
<1>4. Elems(queue') = Elems(queue) /\ Elems(queue)' = Elems(queue)
  BY DEF Elems
<1>5. Numbers'
  <2>1. ASSUME NEW s \in Syncpt
        PROVE  /\ {sp'[s].min, sp'[s].value} \subseteq Nat
               /\ scene.from <= sp'[s].min /\ sp'[s].min <= sp'[s].value
               /\ sp'[s].value <= sp[s].max
    <3>1. /\ {sp[s].min, sp[s].value, sp[s].max} \subseteq Nat /\ scene.from \in Nat
          /\ scene.from <= sp[s].min /\ sp[s].min <= sp[s].value /\ sp[s].value <= sp[s].max
      BY <1>1, NumberTypes DEF Numbers, Counted
    <3> QED BY <3>1
  <2> QED BY <1>1, <2>1, NumbersKept DEF Kept
<1>6. Turns'
  BY <1>1, <1>2, TurnsKept
<1>7. Locking'
  BY <1>1, <1>4, LockingKept DEF Spared
<1>8. Progress'
  <2>1. \A j \in Job : Gone(j)' => Gone(j)
    BY <1>4 DEF Gone, Begun, Kept, Alike
  <2> QED BY <1>1, <1>3, <2>1, ProgressKept DEF Kept
<1>9. Layout'
  BY <1>1, <1>3, <1>4, LayoutKept
<1>10. Switches'
  <2>1. timer.client # 0 => timer.client \in Job
    BY <1>1, TypedJobs
  <2>2. timer'.client # 0 => ~job'[timer'.client].cancelled
    BY <1>1, <2>1 DEF Switches, Spared
  <2> QED BY <1>1, <2>2 DEF Switches
<1> QED BY <1>5, <1>6, <1>7, <1>8, <1>9, <1>10 DEF Ordered

\* Nothing happens.
LEMMA SameOrder == ASSUME OHyp, UNCHANGED vars PROVE Ordered'
<1>1. Turns /\ Switches /\ \A s \in Syncpt : sp[s].min = sp[s].min
  BY OrderTypes
<1>2. \A j \in Job : Kept(j) /\ Spared(j)
  BY DEF Kept, Alike, Spared, Begun, vars
<1> QED BY <1>1, <1>2, QuietOrder DEF vars, Turns, Switches

\* host1x_job_put() and the timeouts of fences concern no order.
LEMMA FencesOrder == ASSUME OHyp, NEW j \in Job, Put(j) \/ FenceTimeout(j) PROVE Ordered'
<1>1. /\ UNCHANGED <<scene, sp, pb, mem, dma, queue, sub, timer>> /\ Turns /\ Switches /\ job \in [Job -> Jobs]
  BY OrderTypes DEF Put, FenceTimeout
<1>2. \A i \in Job : Kept(i) /\ Spared(i) /\ (job'[i].step = "new" <=> job[i].step = "new")
  <2> SUFFICES ASSUME NEW i \in Job
               PROVE  Kept(i) /\ Spared(i) /\ (job'[i].step = "new" <=> job[i].step = "new")
    OBVIOUS
  <2>1. CASE Put(j)
    BY <1>1, <2>1 DEF Put, Kept, Alike, Spared, Begun, Jobs
  <2>2. CASE FenceTimeout(j)
    BY <1>1, <2>2 DEF FenceTimeout, Kept, Alike, Spared, Begun, Jobs
  <2> QED BY <2>1, <2>2
<1>3. ~dma'.on => sub.step = "idle" /\ queue = <<>>
  BY <1>1 DEF Switches
<1>4. \A i, k \in Job : i < k /\ job'[i].step = "new" => job'[k].step = "new"
  BY <1>1, <1>2 DEF Turns
<1> QED BY <1>1, <1>2, <1>3, <1>4, QuietOrder

\* Reading the counter, in an interrupt or not.
LEMMA CounterOrder == ASSUME OHyp, NEW s \in Syncpt, Interrupt(s) \/ Look(s) PROVE Ordered'
<1>1. /\ UNCHANGED <<scene, pb, mem, dma, queue, sub, timer>> /\ Turns /\ Switches /\ job \in [Job -> Jobs]
      /\ Load(s) /\ sp \in [Syncpt -> [value : Int, min : Int, max : Int, locked : BOOLEAN]]
  BY OrderTypes DEF Interrupt, Look
<1>2. \A i \in Job : Kept(i) /\ Spared(i) /\ (job'[i].step = "new" <=> job[i].step = "new")
  <2> SUFFICES ASSUME NEW i \in Job
               PROVE  Kept(i) /\ Spared(i) /\ (job'[i].step = "new" <=> job[i].step = "new")
    OBVIOUS
  <2>1. CASE Interrupt(s)
    BY <1>1, <2>1 DEF Interrupt, Kept, Alike, Spared, Begun, Jobs
  <2>2. CASE Look(s)
    BY <1>1, <2>2 DEF Look, Kept, Alike, Spared, Begun
  <2> QED BY <2>1, <2>2
<1>3. ~dma'.on => sub.step = "idle" /\ queue = <<>>
  BY <1>1 DEF Switches
<1>4. \A t \in Syncpt : /\ sp'[t].max = sp[t].max /\ sp'[t].value = sp[t].value
                        /\ sp'[t].locked = sp[t].locked /\ sp'[t].min \in {sp[t].min, sp[t].value}
  BY <1>1 DEF Load
<1> QED BY <1>1, <1>2, <1>3, <1>4, QuietOrder DEF Turns

\* The timer goes off; cdma_stop() turns the hardware off when nothing is left to do.
LEMMA TimerStopsOrder ==
  ASSUME OHyp, TimerFires \/ StopCall \/ StopCheck \/ StopWake PROVE Ordered'
<1>1. /\ UNCHANGED <<scene, sp, pb, mem, queue, sub>> /\ Turns /\ Switches /\ job \in [Job -> Jobs]
      /\ dma \in [get : Positions, put : Positions, on : BOOLEAN]
      /\ timer \in [client : Job \cup {0}, pending : BOOLEAN]
  BY OrderTypes, TypedJobs DEF TimerFires, StopCall, StopCheck, StopWake
<1>2. \A i \in Job : Kept(i) /\ Spared(i) /\ (job'[i].step = "new" <=> job[i].step = "new")
  <2> SUFFICES ASSUME NEW i \in Job
               PROVE  Kept(i) /\ Spared(i) /\ (job'[i].step = "new" <=> job[i].step = "new")
    OBVIOUS
  <2>1. CASE TimerFires
    BY <1>1, <2>1 DEF TimerFires, Kept, Alike, Spared, Begun, Jobs
  <2>2. CASE StopCall \/ StopCheck \/ StopWake
    BY <1>1, <2>2 DEF StopCall, StopCheck, StopWake, Kept, Alike, Spared, Begun
  <2> QED BY <2>1, <2>2
<1>3. /\ timer'.client = timer.client /\ dma'.get = dma.get /\ dma'.put = dma.put
      /\ ~dma'.on => sub.step = "idle" /\ queue = <<>>
  <2>1. CASE TimerFires
    BY <1>1, <2>1 DEF TimerFires, Switches
  <2>2. CASE StopCall \/ StopWake
    BY <1>1, <2>2 DEF StopCall, StopWake, Switches
  <2>3. CASE StopCheck
    BY <1>1, <2>3 DEF StopCheck, Switches, Locked
  <2> QED BY <2>1, <2>2, <2>3
<1> QED BY <1>1, <1>2, <1>3, QuietOrder DEF Turns

-----------------------------------------------------------------------------
(* Completion.                                                             *)

\* update_cdma_locked() takes jobs from the front of the queue, which are over, and
\* restarts the timer for the next.
LEMMA RetiresFirst ==
  ASSUME CInv, NEW jb \in [Job -> Jobs], NEW sy, UpdateLocked(jb, sy),
         timer.client # 0 => timer.client = queue[1]
  PROVE  /\ \E n : /\ Shorter(n) /\ \A i \in 1..n : Over(jb, sy, queue[i])
                   /\ \A j \in Elems(queue) \ Elems(queue') : Over(jb, sy, j)
         /\ timer'.client # 0 => timer'.client = queue'[1] /\ ~Over(jb, sy, timer'.client)
         /\ pb'.pos = pb.pos
         /\ \A j \in Job : job'[j] = [jb[j] EXCEPT !.fence = job'[j].fence]
<1> DEFINE n == Retired(jb, sy)
           out == {queue[i] : i \in 1..n}
           rest == SubSeq(queue, n + 1, Len(queue))
           hangs == n > 0 /\ Hangs(jb, queue[n])
<1>1. /\ n \in 0..Len(queue) /\ \A i \in 1..n : Over(jb, sy, queue[i])
      /\ n < Len(queue) => ~Over(jb, sy, queue[n + 1]) \/ hangs
  <2>1. queue \in Seq(Job)
    BY TypedJobs DEF Types
  <2> QED BY <2>1, RetiredFacts
<1>2. /\ queue' = rest /\ pb'.pos = pb.pos
      /\ job' = [j \in Job |-> IF j \in out /\ jb[j].step = "done" THEN [jb[j] EXCEPT !.fence = "gone"]
                               ELSE jb[j]]
      /\ timer' = [client |-> 0, pending |-> FALSE] \/ (timer' = TimerAfter(jb, rest, n) /\ ~hangs)
  <2>1. pb \in [pos : Positions, fence : Positions]
    BY SubFacts
  <2> QED BY <2>1 DEF UpdateLocked
<1> HIDE DEF n, out, hangs
<1>3. Shorter(n)
  BY <1>1, <1>2 DEF Shorter
<1>4. \A j \in Job : job'[j] = [jb[j] EXCEPT !.fence = job'[j].fence]
  BY <1>2 DEF Jobs
<1>5. /\ queue \in Seq(Job) /\ Len(queue) \in Nat /\ queue' \in Seq(Job)
      /\ Elems(queue') = {queue[i] : i \in (n + 1)..Len(queue)} /\ n \in Nat /\ (n = 0 => queue' = queue)
  BY <1>3, ShorterFacts
<1>6. ASSUME NEW j \in Elems(queue), j \notin Elems(queue') PROVE Over(jb, sy, j)
  <2>1. PICK i \in 1..Len(queue) : j = queue[i]
    BY DEF Elems
  <2>2. ~(i \in (n + 1)..Len(queue))
    BY <1>5, <1>6, <2>1
  <2>3. i \in 1..n
    BY <1>5, <2>2
  <2> QED BY <1>1, <2>1, <2>3
<1>7. timer'.client # 0 => timer'.client = queue'[1] /\ ~Over(jb, sy, timer'.client)
  <2>1. CASE timer' = [client |-> 0, pending |-> FALSE]
    BY <2>1
  <2>2. CASE timer' = TimerAfter(jb, rest, n) /\ ~hangs
    <3>1. n < Len(queue) => queue'[1] = queue[n + 1] /\ ~Over(jb, sy, queue'[1])
      <4>1. Len(queue') = Len(queue) - n /\ \A i \in 1..Len(queue') : queue'[i] = queue[n + i]
        BY <1>3, ShorterFacts
      <4> QED BY <1>1, <1>5, <2>2, <4>1
    <3>2. CASE n = 0 /\ timer.client # 0
      <4>1. n < Len(queue)
        BY <1>5, <3>2 DEF CInv, Submission
      <4> QED BY <1>5, <2>2, <3>1, <3>2, <4>1 DEF TimerAfter
    <3>3. CASE ~(n = 0 /\ timer.client # 0)
      <4>1. Head(queue') = queue'[1]
        OBVIOUS
      <4>2. timer'.client # 0 => timer'.client = Head(queue') /\ queue' # <<>>
        BY <1>2, <2>2, <3>3 DEF TimerAfter
      <4>3. queue' # <<>> => n < Len(queue)
        <5>1. Len(queue') = Len(queue) - n
          BY <1>3, ShorterFacts
        <5> QED BY <1>1, <1>5, <5>1
      <4> QED BY <3>1, <4>1, <4>2, <4>3
    <3> QED BY <3>2, <3>3
  <2> QED BY <1>2, <2>1, <2>2
<1> QED BY <1>1, <1>2, <1>3, <1>4, <1>6, <1>7

\* A job is over at a value when it has reached the job's end.
LEMMA Reached ==
  ASSUME Types, Numbers, NoWrap, NEW j \in Job, Begun(j), NEW v \in scene.from..sp[Sp(j)].max
  PROVE  /\ Expired(v, job[j].end) <=> v >= job[j].end
         /\ job[j].end \in Nat /\ scene.from < job[j].end /\ sp[Sp(j)].max \in Nat
         /\ v \in Nat /\ scene.from \in Nat /\ job[j].end < sp[Sp(j)].max /\ sp[Sp(j)].max < CounterMod
<1>1. scene.from \in Nat /\ NJobs \in Nat /\ NJobs > 0 /\ CounterMod \in Nat /\ 4 * NJobs < CounterMod
      /\ Sp(j) \in Syncpt
  BY NumberTypes
<1>2. /\ job[j].end \in Nat /\ scene.from < job[j].end /\ job[j].end < sp[Sp(j)].max
  BY DEF Numbers, Numbered
<1>3. sp[Sp(j)].max \in Nat /\ sp[Sp(j)].max <= scene.from + 2 * NJobs
  BY <1>1 DEF Numbers, Counted
<1>4. scene.from + 2 * NJobs < CounterMod
  BY DEF NoWrap
<1>5. v \in scene.from..(scene.from + 2 * NJobs) /\ job[j].end \in scene.from..(scene.from + 2 * NJobs)
  BY <1>1, <1>2, <1>3
<1>6. Expired(v, job[j].end) <=> v >= job[j].end
  BY <1>1, <1>2, <1>4, <1>5, Compare
<1> QED BY <1>1, <1>2, <1>3, <1>4, <1>6

\* What the counters tell lies between what they began with and what jobs have reserved.
LEMMA Between ==
  ASSUME Types, Numbers, NEW s \in Syncpt
  PROVE  sp[s].value \in scene.from..sp[s].max /\ sp[s].min \in scene.from..sp[s].max /\ sp[s].min <= sp[s].value
         /\ sp[s].value \in Nat /\ sp[s].min \in Nat /\ sp[s].max \in Nat /\ scene.from \in Nat
<1>1. scene.from \in Nat
  BY NumberTypes
<1>2. {sp[s].min, sp[s].value, sp[s].max} \subseteq Nat /\ scene.from <= sp[s].min
      /\ sp[s].min <= sp[s].value /\ sp[s].value <= sp[s].max
  BY DEF Numbers, Counted
<1> QED BY <1>1, <1>2

\* cdma_update_work() retires jobs whose counter has reached them, or that were cancelled.
LEMMA UpdateOrder == ASSUME OHyp, Update PROVE Ordered'
<1>1. /\ Types /\ Numbers /\ Turns /\ Locking /\ Progress /\ Layout /\ Switches /\ CInv /\ NoWrap
      /\ queue \in Seq(Job) /\ Elems(queue) \subseteq Job /\ Len(queue) \in Nat /\ job \in [Job -> Jobs]
  BY OrderTypes DEF OHyp
<1>2. UNCHANGED <<scene, sp, mem, dma, sub>> /\ UpdateLocked(job, sp)
  BY DEF Update
<1>3. PICK n : /\ Shorter(n) /\ \A i \in 1..n : Over(job, sp, queue[i])
               /\ \A j \in Elems(queue) \ Elems(queue') : Over(job, sp, j)
  BY <1>1, <1>2, RetiresFirst DEF Switches
<1>4. /\ timer'.client # 0 => timer'.client = queue'[1] /\ ~Over(job, sp, timer'.client)
      /\ pb'.pos = pb.pos /\ \A j \in Job : job'[j] = [job[j] EXCEPT !.fence = job'[j].fence]
  BY <1>1, <1>2, RetiresFirst DEF Switches
<1>5. \A j \in Job : Kept(j) /\ Spared(j) /\ (job'[j].step = "new" <=> job[j].step = "new")
  <2> SUFFICES ASSUME NEW j \in Job
               PROVE  Kept(j) /\ Spared(j) /\ (job'[j].step = "new" <=> job[j].step = "new")
    OBVIOUS
  <2>1. job[j] \in Jobs /\ job'[j] = [job[j] EXCEPT !.fence = job'[j].fence]
    BY <1>1, <1>4
  <2> QED BY <2>1 DEF Kept, Alike, Spared, Begun, Jobs
<1>6. Fewer /\ \A j, o : Pending(j, o)' <=> Pending(j, o)
  BY <1>2, PendingKept
<1>7. Elems(queue') \subseteq Elems(queue) /\ Elems(queue)' = Elems(queue')
  BY <1>1, <1>3, ShorterFacts DEF Elems
<1>8. Numbers'
  <2>1. \A s \in Syncpt : /\ {sp'[s].min, sp'[s].value} \subseteq Nat
                          /\ scene.from <= sp'[s].min /\ sp'[s].min <= sp'[s].value
                          /\ sp'[s].value <= sp[s].max /\ sp'[s].max = sp[s].max
    BY <1>1, <1>2, Between
  <2> QED BY <1>1, <1>2, <1>5, <2>1, NumbersKept DEF Kept
<1>9. Turns'
  <2>1. \A i, j \in Job : i < j /\ job'[i].step = "new" => job'[j].step = "new"
    BY <1>1, <1>5 DEF Turns
  <2> QED BY <1>1, <1>2, <1>3, <1>5, <2>1, TurnsKept
<1>10. Locking'
  BY <1>1, <1>2, <1>5, <1>7, LockingKept DEF Spared
<1>11. Progress'
  <2>1. ASSUME NEW j \in Job, Gone(j)', ~Gone(j), ~job[j].cancelled PROVE Value(j) >= job[j].end
    <3>1. Begun(j) /\ j \in Elems(queue) /\ j \notin Elems(queue')
      BY <1>2, <1>5, <1>7, <2>1 DEF Gone, Begun, Kept, Alike
    <3>2. Over(job, sp, j)
      BY <1>3, <3>1
    <3>3. Expired(sp[Sp(j)].min, job[j].end)
      BY <2>1, <3>2 DEF Over
    <3>4. Sp(j) \in Syncpt
      BY <1>1, NumberTypes
    <3>5. sp[Sp(j)].min >= job[j].end /\ job[j].end \in Nat
      BY <1>1, <3>1, <3>3, <3>4, Between, Reached
    <3> QED BY <1>1, <3>4, <3>5, Between DEF Value
  <2> QED BY <1>1, <1>2, <1>5, <1>6, <2>1, ProgressKept DEF Kept
<1>12. Layout'
  BY <1>1, <1>2, <1>4, <1>5, <1>6, <1>7, LayoutKept
<1>13. Switches'
  <2>1. ~dma.on => queue' = <<>>
    BY <1>1, <1>3, ShorterFacts DEF Switches
  <2>2. timer'.client # 0 => ~job'[timer'.client].cancelled
    <3>1. timer'.client # 0 => timer'.client \in Job /\ ~job[timer'.client].cancelled
      BY <1>1, <1>2, <1>4, UpdateFacts DEF Over
    <3> QED BY <1>5, <3>1 DEF Spared
  <2> QED BY <1>1, <1>2, <1>4, <2>1, <2>2 DEF Switches
<1> QED BY <1>8, <1>9, <1>10, <1>11, <1>12, <1>13 DEF Ordered

-----------------------------------------------------------------------------
(* Submission: a job begins, ...                                           *)

\* channel_submit() is refused for a failed syncpoint ...
LEMMA RefusedOrder == ASSUME OHyp, NEW j \in Job, Begin(j), sp[Sp(j)].locked PROVE Ordered'
<1>1. /\ UNCHANGED <<scene, sp, pb, mem, dma, queue, sub, timer>> /\ Turns /\ Switches /\ job \in [Job -> Jobs]
      /\ job' = [job EXCEPT ![j].step = "refused"] /\ job[j].step = "new"
      /\ \A i \in 1..(j - 1) : job[i].step # "new"
  BY OrderTypes DEF Begin
<1>2. \A i \in Job : /\ Kept(i) /\ Spared(i)
                     /\ job'[i].step = (IF i = j THEN "refused" ELSE job[i].step)
  BY <1>1 DEF Kept, Alike, Spared, Begun, Jobs
<1>3. ASSUME NEW i \in Job, NEW k \in Job, i < k, job'[i].step = "new" PROVE job'[k].step = "new"
  <2>1. i # j /\ job[i].step = "new" /\ job[k].step = "new"
    BY <1>1, <1>2, <1>3 DEF Turns
  <2>2. k # j
    BY <1>1, <1>3, <2>1 DEF Job
  <2> QED BY <1>2, <2>1, <2>2
<1>4. ~dma'.on => sub.step = "idle" /\ queue = <<>>
  BY <1>1 DEF Switches
<1> QED BY <1>1, <1>2, <1>3, <1>4, QuietOrder

\* Does the hardware go on with job j at the write position?
Enters(j) ==
  /\ UNCHANGED <<scene, pb, mem, queue, timer>>
  /\ job[j].step = "new" /\ ~Begun(j) /\ ~sp[Sp(j)].locked /\ sub.step = "idle" /\ sub.job = 0
  /\ sub' = [step |-> "push", job |-> j, i |-> 1, free |-> 0, used |-> 0, first |-> pb.pos]
  /\ job'[j].end = sp[Sp(j)].max + 1 /\ job'[j].thresh = sp[Sp(j)].max + 2 /\ Begun(j)'
  /\ job'[j].step # "new"
  /\ \A i \in Job \ {j} : job'[i] = job[i]
  /\ \A i \in Job : Spared(i)
  /\ \A s \in Syncpt : /\ sp'[s].min = sp[s].min /\ sp'[s].value = sp[s].value /\ sp'[s].locked = sp[s].locked
                       /\ sp'[s].max = IF s = Sp(j) THEN sp[s].max + 2 ELSE sp[s].max
  /\ dma' = IF dma.on THEN dma ELSE [get |-> pb.pos, put |-> pb.pos, on |-> TRUE]
  /\ sp[Sp(j)].max + 2 <= scene.from + 2 * j
  /\ \A i \in Job : i < j => job[i].step # "new"
  /\ \A i \in Job : Begun(i) => i < j

\* ... and otherwise reserves two values for the job.
LEMMA BeginEnters ==
  ASSUME CInv, NoWrap, Numbers, Turns, NEW j \in Job, Begin(j), ~sp[Sp(j)].locked
  PROVE  Enters(j)
<1> DEFINE s == Sp(j)
           m == sp[s].max
<1>1. /\ Types /\ Numbers /\ Turns /\ CInv /\ job \in [Job -> Jobs] /\ NoWrap
      /\ sp \in [Syncpt -> [value : Int, min : Int, max : Int, locked : BOOLEAN]]
  BY TypedJobs
<1>2. /\ UNCHANGED <<scene, pb, mem, queue, timer>> /\ sub.step = "idle" /\ job[j].step = "new"
      /\ \A i \in 1..(j - 1) : job[i].step # "new"
      /\ sub' = [step |-> "push", job |-> j, i |-> 1, free |-> 0, used |-> 0, first |-> pb.pos]
      /\ job' = [job EXCEPT ![j].step = "submit", ![j].end = (m + 1) % CounterMod,
                            ![j].thresh = (m + 2) % CounterMod]
      /\ sp' = [sp EXCEPT ![s].max = (m + 2) % CounterMod]
      /\ dma' = IF dma.on THEN dma ELSE [get |-> pb.pos, put |-> pb.pos, on |-> TRUE]
  BY DEF Begin
<1>3. /\ s \in Syncpt /\ j \in Nat /\ j >= 1 /\ j <= NJobs /\ NJobs \in Nat /\ CounterMod \in Nat
      /\ CounterMod > 0 /\ scene.from \in Nat
  BY <1>1, NumberTypes
<1>4. m \in Nat /\ m <= scene.from + 2 * (j - 1)
  BY <1>1, <1>2, <1>3 DEF Numbers, Counted
<1>5. scene.from + 2 * NJobs < CounterMod
  BY <1>1 DEF NoWrap
<1> HIDE DEF m, s
<1>6. m + 2 <= scene.from + 2 * j /\ m + 2 < CounterMod
  BY <1>3, <1>4, <1>5
<1>7. (m + 1) % CounterMod = m + 1 /\ (m + 2) % CounterMod = m + 2
  BY <1>3, <1>4, <1>6, RingFacts
<1>8. /\ \A i \in Job \ {j} : job'[i] = job[i]
      /\ job'[j] = [job[j] EXCEPT !.step = "submit", !.end = m + 1, !.thresh = m + 2]
  BY <1>1, <1>2, <1>7
<1>9. job'[j].step = "submit" /\ job'[j].end = m + 1 /\ job'[j].thresh = m + 2
      /\ job'[j].cancelled = job[j].cancelled /\ job'[j].failed = job[j].failed /\ job'[j].ran = job[j].ran
  <2>1. job[j] \in Jobs
    BY <1>1
  <2> QED BY <1>8, <2>1 DEF Jobs
<1>10. \A t \in Syncpt : /\ sp'[t].min = sp[t].min /\ sp'[t].value = sp[t].value /\ sp'[t].locked = sp[t].locked
                         /\ sp'[t].max = IF t = s THEN m + 2 ELSE sp[t].max
  BY <1>1, <1>2, <1>3, <1>7 DEF m
<1>11. ~Begun(j) /\ Begun(j)' /\ sub.job = 0
  BY <1>1, <1>2, <1>9 DEF Begun, CInv, Submission
<1>12. \A i \in Job : i < j => job[i].step # "new"
  BY <1>2, <1>3 DEF Job
<1>13. ASSUME NEW i \in Job, Begun(i) PROVE i < j
  <2>1. i # j /\ ~(j < i)
    BY <1>1, <1>2, <1>11, <1>13 DEF Turns, Begun
  <2>2. i \in Nat
    BY <1>1, NumberTypes
  <2> QED BY <1>3, <2>1, <2>2
<1>14. \A i \in Job : Spared(i)
  BY <1>8, <1>9 DEF Spared
<1>15. \A t \in Syncpt : /\ sp'[t].min = sp[t].min /\ sp'[t].value = sp[t].value
                         /\ sp'[t].locked = sp[t].locked
                         /\ sp'[t].max = IF t = Sp(j) THEN sp[t].max + 2 ELSE sp[t].max
  BY <1>10 DEF m, s
<1>16. job'[j].end = sp[Sp(j)].max + 1 /\ job'[j].thresh = sp[Sp(j)].max + 2
       /\ sp[Sp(j)].max + 2 <= scene.from + 2 * j
  BY <1>6, <1>9 DEF m, s
<1>17. job'[j].step # "new"
  BY <1>9
<1>18. \A i \in Job \ {j} : job'[i] = job[i]
  BY <1>8
<1> QED BY <1>2, <1>11, <1>12, <1>13, <1>14, <1>15, <1>16, <1>17, <1>18 DEF Enters

\* The values lie behind those of all earlier jobs.
LEMMA EntersNumbers == ASSUME Types, Numbers, NEW j \in Job, Enters(j) PROVE Numbers'
<1>1. Types /\ Numbers
  OBVIOUS
<1>2. scene.from \in Nat /\ NJobs \in Nat /\ \A i \in Job : i \in Nat /\ i >= 1 /\ i <= NJobs /\ Sp(i) \in Syncpt
  BY <1>1, NumberTypes
<1>3. \A i \in Job : Sp(i)' = Sp(i) /\ (i # j => (Begun(i)' <=> Begun(i)))
  BY DEF Enters, Sp, Begun
<1>4. ASSUME NEW s \in Syncpt PROVE Counted(s)'
  <2>1. /\ Counted(s) /\ sp[s].max \in Nat /\ sp[s].value \in Nat /\ sp[s].min \in Nat
        /\ scene.from <= sp[s].min /\ sp[s].min <= sp[s].value /\ sp[s].value <= sp[s].max
    BY <1>1 DEF Numbers, Counted
  <2>2. sp'[s].min = sp[s].min /\ sp'[s].value = sp[s].value /\ scene' = scene
    BY DEF Enters
  <2>3. CASE s = Sp(j)
    <3>1. sp'[s].max = sp[s].max + 2 /\ sp'[s].max <= scene.from + 2 * j
      BY <2>3 DEF Enters
    <3>2. sp'[s].max \in Nat /\ sp'[s].max <= scene.from + 2 * NJobs /\ sp'[s].value <= sp'[s].max
      BY <1>2, <2>1, <2>2, <3>1
    <3>3. ASSUME NEW i \in Job, job'[i].step = "new" PROVE sp'[s].max <= scene.from + 2 * (i - 1)
      <4>1. i # j /\ job[i].step = "new"
        BY <3>3 DEF Enters
      <4>2. i > j
        BY <1>2, <4>1 DEF Enters
      <4> QED BY <1>2, <3>1, <3>2, <4>2
    <3>4. Begun(j)' /\ Sp(j)' = s /\ job'[j].end + 1 = sp'[s].max
      BY <1>3, <2>1, <2>3, <3>1 DEF Enters
    <3> QED BY <2>1, <2>2, <3>2, <3>3, <3>4 DEF Counted
  <2>4. CASE s # Sp(j)
    <3>1. sp'[s].max = sp[s].max
      BY <2>4 DEF Enters
    <3>2. \A i \in Job : job'[i].step = "new" => job[i].step = "new"
      BY DEF Enters
    <3>3. sp'[s].max = scene.from \/ \E p \in Job : Begun(p)' /\ Sp(p)' = s /\ job'[p].end + 1 = sp'[s].max
      <4>1. CASE sp[s].max = scene.from
        BY <3>1, <4>1
      <4>2. ASSUME NEW p \in Job, Begun(p), Sp(p) = s, job[p].end + 1 = sp[s].max
            PROVE  Begun(p)' /\ Sp(p)' = s /\ job'[p].end + 1 = sp'[s].max
        BY <1>3, <2>4, <3>1, <4>2 DEF Enters
      <4> QED BY <2>1, <4>1, <4>2 DEF Counted
    <3> QED BY <2>1, <2>2, <3>1, <3>2, <3>3 DEF Counted
  <2> QED BY <2>3, <2>4
<1>5. ASSUME NEW i \in Job, Begun(i)', i # j PROVE Numbered(i)'
  <2>1. Begun(i) /\ Numbered(i) /\ i < j /\ job'[i] = job[i] /\ scene' = scene
    BY <1>1, <1>3, <1>5 DEF Numbers, Enters
  <2>2. ASSUME NEW p \in Job, p < i PROVE p # j /\ job'[p] = job[p] /\ (Begun(p)' <=> Begun(p))
    BY <1>2, <1>3, <2>1, <2>2 DEF Enters
  <2>3. job'[i].end < sp'[Sp(i)'].max
    <3>1. sp[Sp(i)].max \in Nat /\ job[i].end \in Nat /\ job[i].end < sp[Sp(i)].max
      BY <1>1, <1>2, <2>1 DEF Numbers, Counted, Numbered
    <3>2. sp'[Sp(i)].max \in {sp[Sp(i)].max, sp[Sp(i)].max + 2}
      BY <1>2 DEF Enters
    <3> QED BY <1>3, <2>1, <3>1, <3>2
  <2>4. \A p \in Job : p < i /\ Begun(p)' /\ Sp(p)' = Sp(i)' => job'[p].end + 2 <= job'[i].end
    BY <1>3, <2>1, <2>2 DEF Numbered
  <2>5. job'[i].end = scene'.from + 1
        \/ \E p \in Job : p < i /\ Begun(p)' /\ Sp(p)' = Sp(i)' /\ job'[p].end + 2 = job'[i].end
    BY <1>3, <2>1, <2>2 DEF Numbered
  <2> QED BY <2>1, <2>3, <2>4, <2>5 DEF Numbered
<1>6. Numbered(j)'
  <2> DEFINE m == sp[Sp(j)].max
  <2>1. m \in Nat /\ scene.from <= m
    <3>1. Counted(Sp(j))
      BY <1>1, <1>2 DEF Numbers
    <3>2. {sp[Sp(j)].min, sp[Sp(j)].value, m} \subseteq Nat /\ scene.from <= sp[Sp(j)].min
          /\ sp[Sp(j)].min <= sp[Sp(j)].value /\ sp[Sp(j)].value <= m
      BY <3>1 DEF Counted
    <3> QED BY <1>2, <3>2
  <2>2. job'[j].end = m + 1 /\ job'[j].thresh = m + 2 /\ sp'[Sp(j)].max = m + 2 /\ scene' = scene
    BY <1>2 DEF Enters
  <2>3. ASSUME NEW p \in Job, p < j, Begun(p)', Sp(p)' = Sp(j)' PROVE job'[p].end + 2 <= job'[j].end
    <3>1. p # j /\ Begun(p) /\ Sp(p) = Sp(j) /\ job'[p] = job[p]
      BY <1>2, <1>3, <2>3 DEF Enters
    <3>2. job[p].end \in Nat /\ job[p].end < m
      BY <1>1, <3>1 DEF Numbers, Numbered
    <3> HIDE DEF m
    <3> QED BY <2>1, <2>2, <3>1, <3>2
  <2>4. \/ job'[j].end = scene'.from + 1
        \/ \E p \in Job : p < j /\ Begun(p)' /\ Sp(p)' = Sp(j)' /\ job'[p].end + 2 = job'[j].end
    <3>1. CASE m = scene.from
      BY <2>2, <3>1
    <3>2. ASSUME NEW p \in Job, Begun(p), Sp(p) = Sp(j), job[p].end + 1 = m
          PROVE  p < j /\ Begun(p)' /\ Sp(p)' = Sp(j)' /\ job'[p].end + 2 = job'[j].end
      <4>1. p < j /\ p # j /\ job'[p] = job[p]
        BY <1>2, <3>2 DEF Enters
      <4>2. job[p].end \in Nat
        BY <1>1, <3>2 DEF Numbers, Numbered
      <4> HIDE DEF m
      <4> QED BY <1>3, <2>2, <3>2, <4>1, <4>2
    <3>3. Counted(Sp(j))
      BY <1>1, <1>2 DEF Numbers
    <3> QED BY <3>1, <3>2, <3>3 DEF Counted
  <2> HIDE DEF m
  <2>5. job'[j].end \in Nat /\ scene'.from < job'[j].end /\ job'[j].thresh = job'[j].end + 1
        /\ job'[j].end < sp'[Sp(j)'].max
    BY <1>2, <1>3, <2>1, <2>2
  <2> QED BY <2>3, <2>4, <2>5 DEF Numbered
<1> QED BY <1>4, <1>5, <1>6 DEF Numbers

\* Whose command is ahead has it pending; nothing is ahead of what was written.
LEMMA AheadFacts ==
  ASSUME OHyp
  PROVE  /\ \A k \in Positions : Ahead(k) => /\ Off[k] < Reach /\ mem[k].op \in Commanded /\ mem[k].job \in Job
                                             /\ Pending(mem[k].job, mem[k].op) /\ Begun(mem[k].job)
                                             /\ mem[k] = [job |-> mem[k].job, op |-> mem[k].op]
         /\ \A k \in Positions : Off[k] \in Nat
         /\ Reach \in Nat /\ pb.pos \in Positions
<1>1. Layout /\ Commands /\ Progress /\ CInv /\ Types
  BY OrderTypes
<1>2. Reach \in Nat /\ pb.pos \in Positions /\ \A k \in Positions : Off[k] \in Nat
  BY <1>1, ReachFacts, OffFacts
<1>3. ASSUME NEW k \in Positions, Ahead(k)
      PROVE  /\ Off[k] < Reach /\ mem[k].op \in Commanded /\ mem[k].job \in Job
             /\ Pending(mem[k].job, mem[k].op) /\ Begun(mem[k].job)
             /\ mem[k] = [job |-> mem[k].job, op |-> mem[k].op]
  <2>1. mem[k].op \in Commanded /\ mem[k].job \in Job
    BY <1>1, <1>3 DEF Ahead, Layout
  <2>2. mem[k] = [job |-> mem[k].job, op |-> mem[k].op]
    BY <1>1 DEF Commands
  <2>3. Pending(mem[k].job, mem[k].op)
    BY <1>3, <2>2 DEF Pending
  <2>4. Begun(mem[k].job)
    BY <1>1, <2>1, <2>3 DEF Progress, Told
  <2>5. ~(Off[k] >= Reach)
    BY <1>1, <2>1 DEF Commands, Commanded
  <2> QED BY <1>2, <2>1, <2>2, <2>3, <2>4, <2>5
<1> QED BY <1>2, <1>3

\* What is ahead then was before, and others have as much to do as they had, unless they
\* have left the queue.
LEMMA EntersPending ==
  ASSUME OHyp, NEW j \in Job, Enters(j)
  PROVE  /\ Fewer /\ \A p \in Job \ {j} : Gone(p)' => Gone(p)
         /\ \A p \in Job, o \in Commanded : p # j =>
              /\ Pending(p, o)' => Pending(p, o)
              /\ Pending(p, o) /\ ~Pending(p, o)' /\ Begun(p) => Gone(p)
<1>1. /\ Types /\ Numbers /\ Turns /\ Locking /\ Progress /\ Layout /\ Switches /\ CInv
      /\ Elems(queue) \subseteq Job /\ queue \in Seq(Job)
      /\ dma \in [get : Positions, put : Positions, on : BOOLEAN]
  BY OrderTypes
<1>2. /\ \A i \in Job : i \in Nat /\ i >= 1 /\ i # 0 /\ Sp(i) \in Syncpt
  BY <1>1, NumberTypes
<1>3. \A i \in Job : Sp(i)' = Sp(i) /\ (i # j => (Begun(i)' <=> Begun(i)))
  BY DEF Enters, Sp, Begun
<1>4. /\ scene' = scene /\ mem' = mem /\ queue' = queue /\ timer' = timer /\ pb' = pb
      /\ ~Begun(j) /\ Begun(j)' /\ sub.job = 0 /\ sub'.job = j /\ sub'.i = 1 /\ sub'.step = "push"
      /\ sub'.first = pb.pos /\ job[j].step = "new" /\ job'[j].step # "new" /\ sub.step = "idle"
      /\ dma' = (IF dma.on THEN dma ELSE [get |-> pb.pos, put |-> pb.pos, on |-> TRUE])
  BY DEF Enters
<1>5. Elems(queue)' = Elems(queue) /\ Ring' = Ring /\ Positions' = Positions /\ Off' = Off
  BY <1>4 DEF Elems, Ring, Positions, Off, Dist
<1>6. Fewer
  <2> SUFFICES ASSUME NEW k \in Positions, Ahead(k)' PROVE Ahead(k)
    BY <1>4 DEF Fewer
  <2>1. Off[k] >= Off[dma'.get] /\ mem[k].op \in Commanded
    BY <1>4, <1>5 DEF Ahead
  <2>2. CASE dma.on
    BY <1>4, <2>1, <2>2 DEF Ahead
  <2>3. CASE ~dma.on
    <3>1. dma'.get = pb.pos
      BY <1>4, <2>3
    <3>2. Off[k] >= Reach /\ Commands
      BY <2>1, <3>1, OrderTypes DEF Reach
    <3> QED BY <2>1, <3>2 DEF Commands, Commanded
  <2> QED BY <2>2, <2>3
<1>7. \A p \in Job \ {j} : Gone(p)' => Gone(p)
  BY <1>2, <1>3, <1>4, <1>5 DEF Gone
<1>8. ASSUME NEW p \in Job, NEW o \in Commanded, p # j
      PROVE  /\ Pending(p, o)' => Pending(p, o)
             /\ Pending(p, o) /\ ~Pending(p, o)' /\ Begun(p) => Gone(p)
  <2>1. sub.job # p /\ sub'.job # p
    BY <1>2, <1>4, <1>8
  <2>2. Pending(p, o)' <=> \E k \in Positions : Ahead(k)' /\ mem[k] = [job |-> p, op |-> o]
    BY <1>4, <1>5, <2>1 DEF Pending
  <2>3. Pending(p, o) <=> \E k \in Positions : Ahead(k) /\ mem[k] = [job |-> p, op |-> o]
    BY <2>1 DEF Pending
  <2>4. dma.on => \A k : Ahead(k)' <=> Ahead(k)
    BY <1>4, <1>5 DEF Ahead
  <2>5. ~dma.on /\ Begun(p) => Gone(p)
    BY <1>1, <2>1, EmptyFacts DEF Switches, Gone
  <2> QED BY <1>6, <2>2, <2>3, <2>4, <2>5 DEF Fewer
<1> QED BY <1>6, <1>7, <1>8

\* The job that begins is the last.
LEMMA EntersTurns == ASSUME CInv, Turns, NEW j \in Job, Enters(j) PROVE Turns'
<1>1. Types /\ Turns
  BY DEF CInv
<1>2. /\ \A i \in Job : i \in Nat /\ i >= 1 /\ i # 0 /\ Sp(i) \in Syncpt
  BY <1>1, NumberTypes
<1>3. \A i \in Job : Sp(i)' = Sp(i) /\ (i # j => (Begun(i)' <=> Begun(i)))
  BY DEF Enters, Sp, Begun
<1>4. /\ queue' = queue /\ ~Begun(j) /\ Begun(j)' /\ sub.job = 0 /\ sub'.job = j /\ sub'.step = "push"
      /\ job[j].step = "new" /\ job'[j].step # "new"
  BY DEF Enters
<1>5. Elems(queue)' = Elems(queue) /\ Elems(queue) \subseteq Job
  BY <1>4, SpaceFacts DEF Elems
<1>6. ASSUME NEW i \in Job, NEW k \in Job, i < k, job'[i].step = "new" PROVE job'[k].step = "new"
  <2>1. i # j /\ job[i].step = "new" /\ ~(i < j)
    BY <1>4, <1>6 DEF Enters
  <2>2. k # j /\ job[k].step = "new"
    BY <1>1, <1>6, <2>1 DEF Turns
  <2> QED BY <2>2 DEF Enters
<1>7. \A i \in Elems(queue) : Begun(i)' /\ i # j
  BY <1>1, <1>3, <1>4, <1>5 DEF Turns
<1>8. ASSUME NEW i \in Elems(queue), NEW k \in Job, i < k, Begun(k)', k # j PROVE k \in Elems(queue)
  BY <1>1, <1>2, <1>3, <1>4, <1>8 DEF Turns
<1>9. \A k \in Job : Begun(k)' => k <= j
  BY <1>2, <1>3 DEF Enters
<1>10. \A i, k \in 1..Len(queue) : i < k => queue[i] < queue[k]
  BY <1>1 DEF Turns
<1>11. Begun(sub.job)'
  BY <1>4 DEF Begun
<1> QED BY <1>4, <1>5, <1>6, <1>7, <1>8, <1>9, <1>10, <1>11 DEF Turns

\* The job has everything to do yet, and lies behind what the others have written.
LEMMA EntersOrder == ASSUME OHyp, NEW j \in Job, Enters(j) PROVE Ordered'
<1>1. /\ Types /\ Numbers /\ Turns /\ Locking /\ Progress /\ Layout /\ Switches /\ CInv
      /\ Elems(queue) \subseteq Job /\ queue \in Seq(Job)
      /\ dma \in [get : Positions, put : Positions, on : BOOLEAN]
  BY OrderTypes
<1>2. /\ \A i \in Job : i \in Nat /\ i >= 1 /\ i # 0 /\ Sp(i) \in Syncpt
  BY <1>1, NumberTypes
<1>3. \A i \in Job : Sp(i)' = Sp(i) /\ (i # j => (Begun(i)' <=> Begun(i)))
  BY DEF Enters, Sp, Begun
<1>4. /\ scene' = scene /\ mem' = mem /\ queue' = queue /\ timer' = timer /\ pb' = pb
      /\ ~Begun(j) /\ Begun(j)' /\ sub.job = 0 /\ sub'.job = j /\ sub'.i = 1 /\ sub'.step = "push"
      /\ sub'.first = pb.pos /\ job[j].step = "new" /\ job'[j].step # "new" /\ sub.step = "idle"
      /\ dma' = (IF dma.on THEN dma ELSE [get |-> pb.pos, put |-> pb.pos, on |-> TRUE])
  BY DEF Enters
<1>5. Elems(queue)' = Elems(queue) /\ Ring' = Ring /\ Positions' = Positions /\ Off' = Off
  BY <1>4 DEF Elems, Ring, Positions, Off, Dist
<1>6. Fewer
  BY EntersPending
<1>7. \A p \in Job \ {j} : Gone(p)' => Gone(p)
  BY EntersPending
<1>8. ASSUME NEW p \in Job, NEW o \in Commanded, p # j
      PROVE  /\ Pending(p, o)' => Pending(p, o)
             /\ Pending(p, o) /\ ~Pending(p, o)' /\ Begun(p) => Gone(p)
  BY <1>8, EntersPending
<1>9. Numbers'
  BY <1>1, EntersNumbers
<1>10. Turns'
  BY <1>1, EntersTurns
<1>11. Locking'
  <2>1. \A i \in Job : /\ job'[i].cancelled = job[i].cancelled /\ job'[i].failed = job[i].failed
                       /\ job'[i].ran = job[i].ran /\ sp'[Sp(i)].locked = sp[Sp(i)].locked
    BY <1>2 DEF Enters, Spared
  <2>2. ~sp[Sp(j)].locked
    BY DEF Enters
  <2>3. ASSUME NEW i \in Job
        PROVE  /\ ~Begun(i)' => ~job'[i].cancelled /\ ~job'[i].failed /\ job'[i].ran = {}
               /\ job'[i].cancelled => sp'[Sp(i)'].locked
               /\ i \in Elems(queue) /\ sp'[Sp(i)'].locked => job'[i].cancelled
               /\ i = j => ~sp'[Sp(i)'].locked
    BY <1>1, <1>3, <1>4, <2>1, <2>2 DEF Locking
  <2>4. ASSUME NEW i \in Job, NEW k \in Job, i < k, job'[i].cancelled, Sp(i)' = Sp(k)', Begun(k)'
        PROVE  job'[k].cancelled
    <3>1. job[i].cancelled /\ Sp(i) = Sp(k) /\ sp[Sp(i)].locked
      BY <1>1, <1>3, <2>1, <2>4 DEF Locking
    <3>2. k # j /\ Begun(k)
      BY <1>3, <2>2, <2>4, <3>1
    <3> QED BY <1>1, <2>1, <2>4, <3>1, <3>2 DEF Locking
  <2> QED BY <1>4, <1>5, <2>3, <2>4 DEF Locking
<1>12. Progress'
  <2> SUFFICES ASSUME NEW p \in Job PROVE Told(p)'
    BY DEF Progress
  <2>1. Value(p)' = Value(p) /\ Spared(p) /\ Told(p) /\ {"work", "final"} \subseteq Commanded
    BY <1>1, <1>2, <1>3 DEF Value, Enters, Progress, Commanded
  <2>2. CASE p # j
    <3>1. job'[p] = job[p] /\ (Begun(p)' <=> Begun(p)) /\ (Gone(p)' => Gone(p))
      BY <1>3, <1>7, <2>2 DEF Enters
    <3>2. Begun(p) /\ ~job[p].cancelled /\ Pending(p, "work") => ~Gone(p)
      <4>1. Begun(p) => job[p].end \in Nat /\ Value(p) \in Nat
        BY <1>1, <1>2, Between DEF Numbers, Numbered, Value
      <4> QED BY <2>1, <4>1 DEF Told
    <3>3. \A o \in Commanded : Pending(p, o)' => Begun(p)' /\ ~job'[p].cancelled /\ ~job'[p].failed
      BY <1>8, <2>1, <2>2, <3>1 DEF Told
    <3>4. /\ Pending(p, "work")' => Value(p)' < job'[p].end
          /\ Pending(p, "final")' => Value(p)' <= job'[p].end
      BY <1>8, <2>1, <2>2, <3>1 DEF Told
    <3>5. Begun(p)' /\ ~job'[p].cancelled =>
            /\ ~Pending(p, "final")' \/ Gone(p)' => Value(p)' >= job'[p].end
            /\ ~Pending(p, "work")' /\ ~job'[p].failed => Value(p)' >= job'[p].end - 1 /\ "work" \in job'[p].ran
      BY <1>8, <2>1, <2>2, <3>1, <3>2 DEF Told
    <3>6. job'[p].ran \cap {"final", "release"} # {} => "work" \in job'[p].ran
      BY <2>1, <3>1 DEF Told
    <3> QED BY <3>3, <3>4, <3>5, <3>6 DEF Told
  <2>3. CASE p = j
    <3>1. \A o \in Commanded : Pending(j, o)'
      BY <1>4 DEF Pending, Commanded, Rank
    <3>2. ~job[j].cancelled /\ ~job[j].failed /\ job[j].ran = {}
      BY <1>1, <1>4 DEF Locking
    <3>3. ~job'[j].cancelled /\ ~job'[j].failed /\ job'[j].ran = {}
      BY <2>1, <2>3, <3>2 DEF Spared
    <3>4. Value(j)' < job'[j].end /\ Value(j)' <= job'[j].end
      <4>1. Value(j) \in Nat /\ sp[Sp(j)].max \in Nat /\ Value(j) <= sp[Sp(j)].max
        BY <1>1, <1>2, Between DEF Value
      <4>2. job'[j].end = sp[Sp(j)].max + 1
        BY DEF Enters
      <4> QED BY <2>1, <2>3, <4>1, <4>2
    <3>5. ~Gone(j)'
      BY <1>4 DEF Gone
    <3> QED BY <1>4, <2>1, <2>3, <3>1, <3>3, <3>4, <3>5 DEF Told
  <2> QED BY <2>2, <2>3
<1>13. Layout'
  <2>1. ASSUME NEW k \in Positions, Ahead(k)'
        PROVE  /\ Off[k] >= Off[sub'.first] <=> mem'[k].job >= sub'.job
               /\ mem'[k].job = sub'.job => Rank[mem'[k].op] < sub'.i
    <3>1. Off[k] < Reach /\ Off[k] \in Nat /\ Reach \in Nat /\ mem[k].job \in Job /\ Begun(mem[k].job)
      BY <1>6, <2>1, AheadFacts DEF Fewer
    <3>2. mem[k].job < j
      BY <3>1 DEF Enters
    <3> QED BY <1>2, <1>4, <3>1, <3>2 DEF Reach
  <2>2. \A i \in Elems(queue) : job'[i].first = job[i].first /\ job'[i].slots = job[i].slots
    BY <1>1, <1>4 DEF Enters, Turns
  <2> QED BY <1>1, <1>4, <1>5, <1>6, <2>1, <2>2, LayoutFewer
<1>14. Switches'
  <2>1. timer.client # 0 => timer.client \in Job
    BY <1>1, TypedJobs
  <2>2. timer'.client # 0 => ~job'[timer'.client].cancelled
    BY <1>1, <1>4, <2>1 DEF Switches, Enters, Spared
  <2> QED BY <1>1, <1>4, <2>2 DEF Switches
<1> QED BY <1>9, <1>10, <1>11, <1>12, <1>13, <1>14 DEF Ordered

\* A job begins behind all that have.
LEMMA BeginOrder == ASSUME OHyp, NEW j \in Job, Begin(j) PROVE Ordered'
BY RefusedOrder, BeginEnters, EntersOrder, OrderTypes DEF OHyp

-----------------------------------------------------------------------------
(* ... is pushed, ...                                                      *)

\* Distances along the walk around the ring.
LEMMA WalkDist ==
  ASSUME Types, NEW f \in Positions, NEW k \in Positions, Off[f] <= Off[k]
  PROVE  Dist(k, f) = Off[k] - Off[f]
<1>1. /\ Off[k] = (IF k >= scene.at THEN k - scene.at ELSE k - scene.at + Ring) /\ k \in 0..(Ring - 1)
      /\ Off[f] = (IF f >= scene.at THEN f - scene.at ELSE f - scene.at + Ring) /\ f \in 0..(Ring - 1)
      /\ Ring \in Nat /\ Ring > 5 /\ scene.at \in 0..(Ring - 1)
  BY OffFacts
<1> DEFINE N == Ring
           a == scene.at
           d == Off[k] - Off[f]
<1>2. /\ d \in 0..(N - 1) /\ (d = k - f \/ d = k - f + N) /\ N \in Nat /\ N > 5 /\ k - f \in Int
      /\ k - f > 0 - N /\ k - f < N
  <2> HIDE DEF N, a
  <2> QED BY <1>1 DEF N, a
<1> HIDE DEF N, a, d
<1>3. (k - f) % N = d
  <2>1. CASE d = k - f
    BY <1>2, <2>1, RingFacts
  <2>2. CASE d = k - f + N
    <3>1. 0 - N <= k - f /\ k - f < 0
      BY <1>2, <2>2
    <3> QED BY <1>2, <2>2, <3>1, RingFacts
  <2> QED BY <1>2, <2>1, <2>2
<1> QED BY <1>3 DEF Dist, N, d

\* ... and against it.
LEMMA WalkBack ==
  ASSUME Types, NEW f \in Positions, NEW k \in Positions, Off[k] < Off[f]
  PROVE  Dist(k, f) = Off[k] - Off[f] + Ring
<1>1. /\ Off[k] = (IF k >= scene.at THEN k - scene.at ELSE k - scene.at + Ring) /\ k \in 0..(Ring - 1)
      /\ Off[f] = (IF f >= scene.at THEN f - scene.at ELSE f - scene.at + Ring) /\ f \in 0..(Ring - 1)
      /\ Ring \in Nat /\ Ring > 5 /\ scene.at \in 0..(Ring - 1)
  BY OffFacts
<1> DEFINE N == Ring
           a == scene.at
           d == Off[k] - Off[f] + N
<1>2. /\ d \in 0..(N - 1) /\ (d = k - f \/ d = k - f + N) /\ N \in Nat /\ N > 5 /\ k - f \in Int
      /\ k - f > 0 - N /\ k - f < N
  <2> HIDE DEF N, a
  <2> QED BY <1>1 DEF N, a
<1> HIDE DEF N, a, d
<1>3. (k - f) % N = d
  <2>1. CASE d = k - f
    BY <1>2, <2>1, RingFacts
  <2>2. CASE d = k - f + N
    <3>1. 0 - N <= k - f /\ k - f < 0
      BY <1>2, <2>2
    <3> QED BY <1>2, <2>2, <3>1, RingFacts
  <2> QED BY <1>2, <2>1, <2>2
<1> QED BY <1>3 DEF Dist, N, d

\* One of the slots that a push writes is the command; the others are none.
Command(k0) ==
  /\ k0 \in Positions /\ Off[k0] >= Reach
  /\ mem'[k0] = [job |-> sub.job, op |-> Ops[sub.i]]
  /\ \A k \in Positions \ {k0} :
       mem'[k] = mem[k] \/ (mem'[k].op \notin Commanded /\ mem[k].op \notin Commanded)

\* host1x_pushbuffer_push() writes one, before its argument.
Ending(i) == IF i = 1 THEN 2 ELSE 1
LEMMA WritesCommand ==
  ASSUME CInv, WInv, Roomy, sub.step = "push", NEW ops, NextOps(ops), Write(ops)
  PROVE  \E k0 : Command(k0) /\ Off[k0] + Ending(sub.i) = Reach + Len(ops)
<1> DEFINE p == pb.pos
           q == After(p)
           r == After(q)
           C == {"pad", "work", "arg", "final", "release"}
<1>1. /\ Commands /\ Reach \in Nat /\ \A k \in Positions : Off[k] >= Reach => mem[k].op = "nop"
      /\ Reach + Len(ops) < Ring
  BY ReachFacts, Fits DEF WInv, Commands
<1>2. Commanded = {"work", "final", "release"} /\ "nop" \notin Commanded /\ "pad" \notin Commanded /\ "arg" \notin Commanded
  BY DEF Commanded
<1>3. Ops[1] = "work" /\ Ops[2] = "final" /\ Ops[3] = "release"
  BY DEF Ops
<1>4. CASE sub.i = 1 /\ ops = <<"work", "arg">>
  <2>1. /\ ops \in Seq(C) /\ Len(ops) = 2 /\ ops[1] = "work" /\ ops[2] = "arg"
    BY <1>4
  <2>2. /\ p \in Positions /\ q \in Positions /\ Off[p] = Reach /\ Off[q] = Reach + 1
        /\ mem' = [k \in Positions |-> IF k = p THEN [job |-> sub.job, op |-> "work"]
                                       ELSE IF k = q THEN [job |-> sub.job, op |-> "arg"] ELSE mem[k]]
    <3>1. Len(ops) \in 1..3 /\ Len(ops) > 1 /\ ~(Len(ops) > 2)
      BY <2>1
    <3> HIDE DEF p, q, r, C
    <3> QED BY <1>1, <2>1, <3>1, WritesTo DEF p, q, r, C
  <2> HIDE DEF p, q, r, C
  <2>3. Command(p)
    BY <1>1, <1>2, <1>3, <1>4, <2>2 DEF Command
  <2> QED BY <1>4, <2>1, <2>2, <2>3 DEF Ending
<1>5. CASE sub.i = 1 /\ ops = <<"pad", "work", "arg">>
  <2>1. /\ ops \in Seq(C) /\ Len(ops) = 3 /\ ops[1] = "pad" /\ ops[2] = "work" /\ ops[3] = "arg"
    BY <1>5
  <2>2. /\ p \in Positions /\ q \in Positions /\ Off[p] = Reach /\ Off[q] = Reach + 1
        /\ r \in Positions /\ Off[r] = Reach + 2
        /\ mem' = [k \in Positions |-> IF k = p THEN [job |-> sub.job, op |-> "pad"]
                                       ELSE IF k = q THEN [job |-> sub.job, op |-> "work"]
                                       ELSE IF k = r THEN [job |-> sub.job, op |-> "arg"] ELSE mem[k]]
    <3>1. Len(ops) \in 1..3 /\ Len(ops) > 1 /\ Len(ops) > 2
      BY <2>1
    <3> HIDE DEF p, q, r, C
    <3> QED BY <1>1, <2>1, <3>1, WritesTo DEF p, q, r, C
  <2> HIDE DEF p, q, r, C
  <2>3. p # q /\ Off[q] >= Reach /\ Off[r] >= Reach /\ Off[p] >= Reach
    BY <1>1, <2>2
  <2>4. mem'[q] = [job |-> sub.job, op |-> Ops[sub.i]]
    BY <1>3, <1>5, <2>2, <2>3
  <2>5. \A k \in Positions \ {q} :
          mem'[k] = mem[k] \/ (mem'[k].op \notin Commanded /\ mem[k].op \notin Commanded)
    BY <1>1, <1>2, <2>2, <2>3
  <2>6. Command(q)
    BY <2>2, <2>3, <2>4, <2>5 DEF Command
  <2>7. Off[q] + 2 = Reach + Len(ops)
    BY <1>1, <2>1, <2>2
  <2> QED BY <1>5, <2>6, <2>7 DEF Ending
<1>6. CASE (sub.i = 2 /\ ops = <<"final">>) \/ (sub.i = 3 /\ ops = <<"release">>)
  <2>1. /\ ops \in Seq(C) /\ Len(ops) = 1 /\ ops[1] = Ops[sub.i]
    <3>1. CASE sub.i = 2 /\ ops = <<"final">>
      BY <1>3, <3>1
    <3>2. CASE sub.i = 3 /\ ops = <<"release">>
      BY <1>3, <3>2
    <3> QED BY <1>6, <3>1, <3>2
  <2>2. /\ p \in Positions /\ Off[p] = Reach
        /\ mem' = [k \in Positions |-> IF k = p THEN [job |-> sub.job, op |-> Ops[sub.i]] ELSE mem[k]]
    <3>1. Len(ops) \in 1..3 /\ ~(Len(ops) > 1) /\ ~(Len(ops) > 2)
      BY <2>1
    <3> HIDE DEF p, q, r, C
    <3> QED BY <1>1, <2>1, <3>1, WritesTo DEF p, q, r, C
  <2> HIDE DEF p, q, r, C
  <2>3. Command(p)
    BY <1>1, <2>2 DEF Command
  <2> QED BY <1>6, <2>1, <2>2, <2>3 DEF Ending
<1> QED BY <1>4, <1>5, <1>6 DEF NextOps

\* What a push writes is one more command to fetch, and as much is left to do.
LEMMA PushedFacts ==
  ASSUME OHyp, sub.step = "push", NEW ops, NextOps(ops), Write(ops), NEW free, Pushed(free, Len(ops)),
         dma'.get = dma.get, UNCHANGED scene
  PROVE  /\ \E k0 : /\ Command(k0) /\ Off[k0] + Ending(sub.i) = Reach + Len(ops)
                    /\ Ahead(k0)' /\ ~Ahead(k0)
                    /\ \A k \in Positions : k # k0 => (Ahead(k)' <=> Ahead(k)) /\ (Ahead(k) => mem'[k] = mem[k])
         /\ \A j \in Job, x \in Commanded : Pending(j, x)' <=> Pending(j, x)
<1> DEFINE J == sub.job
           o == Ops[sub.i]
<1>1. /\ Types /\ Numbers /\ Turns /\ Locking /\ Progress /\ Layout /\ Switches /\ CInv /\ WInv /\ Roomy
      /\ Marks /\ Commands /\ Elems(queue) \subseteq Job /\ queue \in Seq(Job)
  BY OrderTypes DEF OHyp
<1>2. /\ sub'.step \in {"push", "end"} /\ (sub'.step = "end" => sub.i = 3) /\ sub'.i = sub.i + 1
      /\ J \in Job /\ sub'.job = J /\ sub'.first = sub.first /\ sub.i \in 1..3 /\ (sub'.step = "idle" <=> sub.step = "idle")
  <2>1. sub \in Subs /\ sub.i \in 1..3
    BY <1>1, SubFacts
  <2>2. Len(Ops) = 3
    BY DEF Ops
  <2>3. J \in Job
    BY <1>1, ReachFacts
  <2> QED BY <2>1, <2>2, <2>3 DEF Pushed, Subs
<1>3. PICK k0 : Command(k0) /\ Off[k0] + Ending(sub.i) = Reach + Len(ops)
  BY <1>1, WritesCommand
<1>4. k0 \in Positions /\ Off[k0] >= Reach /\ mem'[k0] = [job |-> J, op |-> o]
  BY <1>3 DEF Command
<1>5. o \in Commanded /\ Rank[o] = sub.i /\ \A x \in Commanded : Rank[x] \in 1..3 /\ (Rank[x] = sub.i <=> x = o)
  BY <1>2 DEF Ops, Commanded, Rank
<1>6. Ring' = Ring /\ Positions' = Positions /\ Off' = Off
  BY DEF Ring, Positions, Off, Dist
<1>7. /\ \A k \in Positions : Off[k] \in Nat
      /\ Reach \in Nat /\ dma.get \in Positions /\ Off[dma.get] <= Reach
      /\ Off[sub.first] <= Reach /\ sub.first \in Positions
      /\ \A i \in Elems(queue) : job[i].first \in Positions /\ Off[job[i].first] <= Reach
  <2>1. dma.get \in Starts /\ sub.first \in Starts /\ \A i \in Elems(queue) : job[i].first \in Starts
    BY <1>1 DEF Marks, Fetching
  <2> QED BY <2>1, AheadFacts DEF Starts
<1>8. \A k \in Positions : Ahead(k) => Off[k] < Reach /\ mem[k].job \in Job /\ Begun(mem[k].job)
  BY AheadFacts
<1>9. Ahead(k0)' /\ ~Ahead(k0)
  <2>1. Off[k0] >= Off[dma.get]
    BY <1>4, <1>7
  <2>2. Ahead(k0)'
    BY <1>4, <1>5, <1>6, <2>1 DEF Ahead
  <2> QED BY <1>4, <1>7, <1>8, <2>2
<1>10. ASSUME NEW k \in Positions, k # k0 PROVE (Ahead(k)' <=> Ahead(k)) /\ (Ahead(k) => mem'[k] = mem[k])
  <2>1. mem'[k] = mem[k] \/ (mem'[k].op \notin Commanded /\ mem[k].op \notin Commanded)
    BY <1>3, <1>10 DEF Command
  <2> QED BY <1>6, <2>1 DEF Ahead
<1> HIDE DEF J, o
<1>11. ASSUME NEW j \in Job, NEW x \in Commanded PROVE Pending(j, x)' <=> Pending(j, x)
  <2> DEFINE here(k) == Ahead(k) /\ mem[k] = [job |-> j, op |-> x]
             there(k) == Ahead(k)' /\ mem'[k] = [job |-> j, op |-> x]
  <2>1. Pending(j, x)' <=> ((J = j /\ Rank[x] >= sub.i + 1) \/ \E k \in Positions : there(k))
    BY <1>2, <1>6 DEF Pending
  <2>2. Pending(j, x) <=> ((J = j /\ Rank[x] >= sub.i) \/ \E k \in Positions : here(k))
    BY DEF Pending, J
  <2>3. \A k \in Positions \ {k0} : here(k) <=> there(k)
    BY <1>10
  <2>4. ~here(k0) /\ (there(k0) <=> (j = J /\ x = o))
    BY <1>4, <1>9
  <2>5. Rank[x] \in 1..3 /\ (Rank[x] = sub.i <=> x = o)
    BY <1>5
  <2>6. Rank[x] >= sub.i <=> (Rank[x] >= sub.i + 1 \/ x = o)
    BY <1>2, <2>5
  <2> HIDE DEF here, there
  <2> QED BY <1>4, <2>1, <2>2, <2>3, <2>4, <2>6
<1> QED BY <1>3, <1>9, <1>10, <1>11

\* A push brings the next command of the job, behind all others.
LEMMA PushedOrder ==
  ASSUME OHyp, sub.step = "push", NEW ops, NextOps(ops), Write(ops), NEW free, Pushed(free, Len(ops)),
         dma'.get = dma.get, dma'.on = dma.on, UNCHANGED <<scene, sp, job, queue, timer>>
  PROVE  Ordered'
<1> DEFINE J == sub.job
           o == Ops[sub.i]
<1>1. /\ Types /\ Numbers /\ Turns /\ Locking /\ Progress /\ Layout /\ Switches /\ CInv /\ WInv /\ Roomy
      /\ Marks /\ Commands /\ Elems(queue) \subseteq Job /\ queue \in Seq(Job)
  BY OrderTypes DEF OHyp
<1>2. /\ sub'.step \in {"push", "end"} /\ (sub'.step = "end" => sub.i = 3) /\ sub'.i = sub.i + 1
      /\ J \in Job /\ sub'.job = J /\ sub'.first = sub.first /\ sub.i \in 1..3 /\ (sub'.step = "idle" <=> sub.step = "idle")
  <2>1. sub \in Subs /\ sub.i \in 1..3
    BY <1>1, SubFacts
  <2>2. Len(Ops) = 3
    BY DEF Ops
  <2>3. J \in Job
    BY <1>1, ReachFacts
  <2> QED BY <2>1, <2>2, <2>3 DEF Pushed, Subs
<1>3. PICK k0 : /\ Command(k0) /\ Ahead(k0)' /\ ~Ahead(k0)
                /\ \A k \in Positions : k # k0 => (Ahead(k)' <=> Ahead(k)) /\ (Ahead(k) => mem'[k] = mem[k])
  BY PushedFacts
<1>4. k0 \in Positions /\ Off[k0] >= Reach /\ mem'[k0] = [job |-> J, op |-> o]
  BY <1>3 DEF Command
<1>5. o \in Commanded /\ Rank[o] = sub.i /\ \A x \in Commanded : Rank[x] \in 1..3 /\ (Rank[x] = sub.i <=> x = o)
  BY <1>2 DEF Ops, Commanded, Rank
<1>6. Ring' = Ring /\ Positions' = Positions /\ Off' = Off /\ Elems(queue)' = Elems(queue)
  BY DEF Ring, Positions, Off, Dist, Elems
<1>7. /\ \A k \in Positions : Off[k] \in Nat
      /\ Reach \in Nat /\ dma.get \in Positions /\ Off[dma.get] <= Reach
      /\ Off[sub.first] <= Reach /\ sub.first \in Positions
      /\ \A i \in Elems(queue) : job[i].first \in Positions /\ Off[job[i].first] <= Reach
  <2>1. dma.get \in Starts /\ sub.first \in Starts /\ \A i \in Elems(queue) : job[i].first \in Starts
    BY <1>1 DEF Marks, Fetching
  <2> QED BY <2>1, AheadFacts DEF Starts
<1>8. \A k \in Positions : Ahead(k) => Off[k] < Reach /\ mem[k].job \in Job /\ Begun(mem[k].job)
  BY AheadFacts
<1>9. Ahead(k0)' /\ ~Ahead(k0)
  BY <1>3
<1>10. ASSUME NEW k \in Positions, k # k0 PROVE (Ahead(k)' <=> Ahead(k)) /\ (Ahead(k) => mem'[k] = mem[k])
  BY <1>3, <1>10
<1>11. \A j \in Job : Begun(j) => j <= J /\ j \in Nat
  BY <1>1, NumberTypes DEF Turns
<1>12. J \in Nat
  BY <1>1, <1>2, NumberTypes
<1> HIDE DEF J, o
<1>13. \A j \in Job : Kept(j) /\ Spared(j) /\ (Begun(j)' <=> Begun(j))
  BY DEF Kept, Alike, Spared, Begun
<1>14. Shorter(0)
  BY <1>1, RestFacts, LenProperties DEF Shorter, CInv, Submission
<1>15. Numbers'
  <2>1. \A s \in Syncpt : /\ {sp[s].min, sp[s].value} \subseteq Nat
                          /\ scene.from <= sp[s].min /\ sp[s].min <= sp[s].value
                          /\ sp[s].value <= sp[s].max
    BY <1>1, Between
  <2> QED BY <1>1, <1>13, <2>1, NumbersKept DEF Kept
<1>16. Turns'
  <2>1. \A i, j \in Job : i < j /\ job'[i].step = "new" => job'[j].step = "new"
    BY <1>1 DEF Turns
  <2> QED BY <1>1, <1>2, <1>13, <1>14, <2>1, TurnsKept DEF J
<1>17. Locking'
  BY <1>1, <1>2, <1>13, LockingKept DEF Spared, J
<1>18. Progress'
  <2>1. \A j \in Job, x \in Commanded : Pending(j, x)' <=> Pending(j, x)
    BY PushedFacts
  <2>2. \A j \in Job : Gone(j)' => Gone(j)
    BY <1>2, <1>6, <1>13 DEF Gone, J
  <2> QED BY <1>1, <1>2, <1>13, <2>1, <2>2, ProgressKept DEF Kept, J
<1>19. Layout'
  <2>1. \A k \in Positions : Ahead(k)' => mem'[k].job \in Job
    BY <1>2, <1>4, <1>8, <1>10
  <2>2. ASSUME NEW k \in Positions, NEW n \in Positions, Ahead(k)', Ahead(n)', Off[k] < Off[n]
        PROVE  Before(mem'[k], mem'[n])
    <3>1. k # k0
      BY <1>4, <1>7, <1>8, <1>9, <1>10, <2>2
    <3>2. Ahead(k) /\ mem'[k] = mem[k]
      BY <1>10, <2>2, <3>1
    <3>3. CASE n = k0
      <4>1. mem[k].job <= J /\ mem[k].job \in Nat /\ mem[k].op \in Commanded
        BY <1>8, <1>11, <3>2 DEF Ahead
      <4>2. mem[k].job = J => Rank[mem[k].op] < Rank[o]
        BY <1>1, <1>5, <3>2 DEF Layout, J
      <4> QED BY <1>4, <1>12, <3>2, <3>3, <4>1, <4>2 DEF Before
    <3>4. CASE n # k0
      BY <1>1, <1>10, <2>2, <3>2, <3>4 DEF Layout
    <3> QED BY <3>3, <3>4
  <2>3. ASSUME NEW k \in Positions, Ahead(k)'
        PROVE  /\ Off[k] >= Off[sub.first] <=> mem'[k].job >= J
               /\ mem'[k].job = J => Rank[mem'[k].op] < sub.i + 1
    <3>1. CASE k = k0
      BY <1>2, <1>4, <1>5, <1>7, <1>12, <3>1
    <3>2. CASE k # k0
      <4>1. Ahead(k) /\ mem'[k] = mem[k]
        BY <1>10, <2>3, <3>2
      <4>2. Region(J, sub.first) /\ (mem[k].job = J => Rank[mem[k].op] < sub.i)
        BY <1>1, <4>1 DEF Layout, J
      <4>3. mem[k].job = J => Rank[mem[k].op] < sub.i + 1
        BY <1>2, <1>5, <4>1, <4>2 DEF Ahead
      <4> QED BY <4>1, <4>2, <4>3 DEF Region
    <3> QED BY <3>1, <3>2
  <2>4. ASSUME NEW i \in Elems(queue), NEW k \in Positions, Ahead(k)'
        PROVE  /\ Off[k] >= Off[job[i].first] <=> mem'[k].job >= i
               /\ mem'[k].job = i <=> Dist(k, job[i].first) < job[i].slots
    <3>1. i \in Job /\ Begun(i) /\ i # J /\ i <= J /\ i \in Nat
      BY <1>1, <1>11 DEF Turns, J
    <3>2. CASE k = k0
      <4>1. Off[job[i].first] + job[i].slots <= Reach /\ job[i].slots \in Nat
        BY <1>1, <3>1 DEF Layout, Jobs, Types
      <4>2. Off[job[i].first] \in Nat /\ Off[job[i].first] <= Off[k0] /\ job[i].first \in Positions
            /\ Off[k0] \in Nat /\ Reach \in Nat
        BY <1>4, <1>7
      <4>3. Dist(k0, job[i].first) = Off[k0] - Off[job[i].first]
        BY <1>1, <1>4, <4>2, WalkDist
      <4>4. ~(Dist(k0, job[i].first) < job[i].slots)
        BY <1>4, <4>1, <4>2, <4>3
      <4> QED BY <1>4, <1>7, <1>12, <3>1, <3>2, <4>4
    <3>3. CASE k # k0
      <4>1. Ahead(k) /\ mem'[k] = mem[k]
        BY <1>10, <2>4, <3>3
      <4> QED BY <1>1, <4>1 DEF Layout, Region, Harmless
    <3> QED BY <3>2, <3>3
  <2>5. \A a, b : Dist(a, b)' = Dist(a, b)
    BY <1>6 DEF Dist
  <2>6. ASSUME NEW i \in Elems(queue) PROVE Off[job[i].first] + job[i].slots <= Reach'
    <3>1. Off[job[i].first] + job[i].slots <= Reach /\ job[i].slots \in Nat /\ Off[job[i].first] \in Nat
      BY <1>1, <1>7 DEF Layout, Jobs, Types
    <3>2. Reach' = Reach + Len(ops) /\ Len(ops) \in Nat
      BY <1>1, Fits, WritesWhole DEF NextOps
    <3> QED BY <1>7, <3>1, <3>2
  <2> QED BY <1>2, <1>6, <2>1, <2>2, <2>3, <2>4, <2>5, <2>6 DEF Layout, Region, Before, Harmless
<1>20. Switches'
  BY <1>1, <1>2 DEF Switches
<1> QED BY <1>15, <1>16, <1>17, <1>18, <1>19, <1>20 DEF Ordered

\* The command and its argument are written, and nothing else is done.
Pushing(ops) ==
  /\ sub.step = "push" /\ NextOps(ops) /\ Write(ops) /\ \E free : Pushed(free, Len(ops))
  /\ dma'.get = dma.get /\ dma'.on = dma.on /\ dma'.put \in {dma.put, pb.pos}
  /\ UNCHANGED <<scene, sp, job, queue, timer, handler, update, hung>>

\* host1x_cdma_push_wide(), for which there is space.
LEMMA PushWideNext == ASSUME OHyp, PushWide PROVE \E ops : Pushing(ops)
<1> DEFINE ops == Padding \o <<"work", "arg">>
<1>1. sub.step = "push" /\ Ops[sub.i] = "work" /\ CInv /\ WInv /\ Roomy /\ Budget
  BY OrderTypes DEF PushWide, OHyp
<1>2. NextOps(ops)
  BY <1>1, PushesWide
<1>3. sub.i = 1
  BY <1>1, SubFacts DEF Ops
<1>4. Len(ops) \in 1..3
  BY <1>1, <1>2, Fits
<1> HIDE DEF ops
<1>5. ~(Space < Len(ops))
  <2>1. Space + sub.used >= 5 /\ Space \in Nat
    BY <1>1, Spacious
  <2>2. sub.used = 0
    BY <1>1, <1>3 DEF Budget
  <2>3. Space \in Nat /\ Space >= 5
    BY <2>1, <2>2
  <2> DEFINE n == Len(ops)
             left == Space
  <2>4. n \in 1..3 /\ left \in Nat /\ left >= 5
    BY <1>4, <2>3
  <2> HIDE DEF n, left
  <2>5. ~(left < n)
    BY <2>4
  <2> QED BY <2>5 DEF n, left
<1>6. /\ Write(ops) /\ Pushed(Space - Len(ops), Len(ops)) /\ UNCHANGED dma
      /\ UNCHANGED <<scene, sp, job, queue, timer, handler, update, hung>>
  BY <1>5 DEF PushWide, ops
<1> QED BY <1>1, <1>2, <1>6 DEF Pushing

\* host1x_cdma_push(), for which there is space.
LEMMA PushNext == ASSUME OHyp, Push PROVE \E ops : Pushing(ops)
<1> DEFINE ops == <<Ops[sub.i]>>
           had == IF sub.free = 0 THEN Space ELSE sub.free
<1>1. /\ sub.step = "push" /\ Ops[sub.i] # "work" /\ CInv /\ WInv /\ Roomy /\ Budget
      /\ dma \in [get : Positions, put : Positions, on : BOOLEAN]
  BY OrderTypes DEF Push, OHyp
<1>2. NextOps(ops) /\ Len(ops) = 1 /\ sub.i \in {2, 3}
  <2>1. sub.i \in 1..3
    BY <1>1, SubFacts
  <2>2. sub.i \in {2, 3}
    BY <1>1, <2>1 DEF Ops
  <2> QED BY <2>2 DEF NextOps, Ops
<1>3. Space # 0
  <2>1. sub.used <= sub.i + 1 /\ Space + sub.used >= 5 /\ Space \in Nat /\ sub.used \in Nat
    BY <1>1, Spacious DEF Budget
  <2> QED BY <1>2, <2>1
<1>4. /\ Write(ops) /\ Pushed(had - 1, 1) /\ (Flush \/ UNCHANGED dma)
      /\ UNCHANGED <<scene, sp, job, queue, timer, handler, update, hung>>
  BY <1>3 DEF Push
<1>5. dma'.get = dma.get /\ dma'.on = dma.on /\ dma'.put \in {dma.put, pb.pos}
  BY <1>1, <1>4 DEF Flush
<1> HIDE DEF ops, had
<1> QED BY <1>1, <1>2, <1>4, <1>5 DEF Pushing

LEMMA PushesOrder == ASSUME OHyp, PushWide \/ Push PROVE Ordered'
BY PushWideNext, PushNext, PushedOrder DEF Pushing

\* Nobody sleeps.
LEMMA WakeOrder == ASSUME OHyp, Wake \/ Relock PROVE FALSE
BY OrderTypes DEF Wake, Relock, Switches

-----------------------------------------------------------------------------
(* ... and queued.                                                         *)

\* The slots of a submission reach from its first to the write position ...
LEMMA SubmissionEnds ==
  ASSUME OHyp, sub.step # "idle", sub.used <= 5
  PROVE  /\ Off[sub.first] + sub.used = Reach /\ sub.first \in Positions /\ sub.used \in Nat
         /\ Off[sub.first] \in Nat /\ Reach \in 0..(Ring - 1) /\ Ring \in Nat
<1> DEFINE f == sub.first
           u == sub.used
           N == Ring
<1>1. CInv /\ Types /\ Marks
  BY OrderTypes
<1>2. f \in Positions /\ pb.pos \in Positions /\ (f + u) % N = pb.pos /\ u \in Nat /\ N \in Nat /\ N > 5
  BY <1>1, ReachFacts, SubFacts DEF Marks, Starts, Subs
<1>3. Off[f] \in Nat /\ Reach \in 0..(N - 1)
  BY <1>1, <1>2, OffFacts DEF Reach
<1>4. Dist(pb.pos, f) = Reach - Off[f]
  <2>1. Off[f] <= Off[pb.pos]
    BY <1>1 DEF Marks, Starts, Reach
  <2> QED BY <1>1, <1>2, <2>1, WalkDist DEF Reach
<1>5. Dist(pb.pos, f) = u
  <2>1. f \in 0..(N - 1)
    BY <1>2 DEF Positions
  <2> HIDE DEF f, u, N
  <2>2. (f - f) % N = 0
    BY <1>2, <2>1, RingFacts
  <2>3. u + ((f - f) % N) < N
    BY <1>2, <2>2 DEF u
  <2>4. (((f + u) % N) - f) % N = ((f - f) % N) + u
    BY <1>2, <2>1, <2>3, Moves
  <2> QED BY <1>2, <2>2, <2>4 DEF Dist, N
<1> HIDE DEF f, u, N
<1>6. Off[f] + u = Reach
  BY <1>2, <1>3, <1>4, <1>5
<1> QED BY <1>2, <1>3, <1>6 DEF f, u, N

\* ... and nowhere else.
LEMMA SubmissionSpan ==
  ASSUME OHyp, sub.step # "idle", NEW k \in Positions, Off[k] < Reach, sub.used <= 5
  PROVE  Off[sub.first] <= Off[k] <=> Dist(k, sub.first) < sub.used
<1> DEFINE f == sub.first
           u == sub.used
<1>1. /\ Off[f] + u = Reach /\ f \in Positions /\ u \in Nat /\ Off[f] \in Nat /\ Reach \in 0..(Ring - 1)
      /\ Ring \in Nat /\ Off[k] \in Nat /\ Types
  BY SubmissionEnds, AheadFacts, OrderTypes
<1> HIDE DEF f, u
<1>2. CASE Off[f] <= Off[k]
  <2>1. Dist(k, f) = Off[k] - Off[f]
    BY <1>1, <1>2, WalkDist
  <2> QED BY <1>1, <1>2, <2>1 DEF f, u
<1>3. CASE Off[k] < Off[f]
  <2>1. Dist(k, f) = Off[k] - Off[f] + Ring
    BY <1>1, <1>3, WalkBack
  <2> QED BY <1>1, <1>3, <2>1 DEF f, u
<1> QED BY <1>1, <1>2, <1>3

\* The job that ends its submission is the last of the queue.
LEMMA EndQueues == ASSUME CInv, Numbers, Turns, End PROVE Numbers' /\ Turns'
<1> DEFINE j == sub.job
<1>1. /\ Types /\ Numbers /\ Turns /\ CInv
      /\ Elems(queue) \subseteq Job /\ queue \in Seq(Job) /\ Len(queue) \in Nat
      /\ job \in [Job -> Jobs]
  BY TypedJobs, SpaceFacts, LenProperties DEF Types
<1>2. /\ sub.step = "end" /\ queue' = Append(queue, j)
      /\ sub' = [step |-> "idle", job |-> 0, i |-> 0, free |-> 0, used |-> 0, first |-> 0]
      /\ UNCHANGED <<scene, pb, mem, sp>>
  BY DEF End
<1>3. /\ j \in Job /\ Begun(j) /\ \A p \in Job : Begun(p) => p <= j
      /\ j \notin Elems(queue)
  BY <1>1, <1>2, ReachFacts DEF Turns
<1>4. /\ Elems(queue') = Elems(queue) \cup {j} /\ Len(queue') = Len(queue) + 1 /\ queue' \in Seq(Job)
      /\ queue'[Len(queue) + 1] = j /\ \A i \in 1..Len(queue) : queue'[i] = queue[i]
  BY <1>1, <1>2, <1>3, AppendFacts, AppendProperties
<1>5. ASSUME NEW i \in Job
      PROVE  /\ Alike(i) /\ (job'[i].step = "new" <=> job[i].step = "new")
             /\ i # j => job'[i] = job[i]
             /\ i = j => job'[i].first = sub.first /\ job'[i].slots = sub.used
  <2>1. CASE i # j
    <3>1. job'[i] = job[i]
      BY <1>1, <2>1 DEF End
    <3> QED BY <2>1, <3>1 DEF Alike, Begun
  <2>2. CASE i = j
    <3>1. PICK f \in {"missed", "pending"} :
            job'[j] = [job[j] EXCEPT !.step = "held", !.first = sub.first, !.slots = sub.used, !.fence = f]
      BY <1>1, <1>3 DEF End
    <3>2. job[j] \in Jobs
      BY <1>1, <1>3
    <3>3. /\ job'[j].step = "held" /\ job'[j].end = job[j].end /\ job'[j].thresh = job[j].thresh
          /\ job'[j].first = sub.first /\ job'[j].slots = sub.used
      BY <3>1, <3>2 DEF Jobs
    <3> QED BY <1>3, <2>2, <3>3 DEF Alike, Begun
  <2> QED BY <2>1, <2>2
<1>6. Elems(queue)' = Elems(queue) \cup {j} /\ sub'.step = "idle" /\ sub'.job = 0
  BY <1>2, <1>4 DEF Elems
<1>8. \A p \in Job : p \in Nat /\ p # 0 /\ (Begun(p)' <=> Begun(p))
  BY <1>1, <1>5, NumberTypes DEF Alike, Begun
<1>10. Numbers'
  <2>1. \A s \in Syncpt : /\ {sp[s].min, sp[s].value} \subseteq Nat
                          /\ scene.from <= sp[s].min /\ sp[s].min <= sp[s].value
                          /\ sp[s].value <= sp[s].max
    BY <1>1, Between
  <2> QED BY <1>1, <1>2, <1>5, <2>1, NumbersKept
<1> HIDE DEF j
<1>11. Turns'
  <2>1. ASSUME NEW i \in Job, NEW k \in Job, i < k, job'[i].step = "new" PROVE job'[k].step = "new"
    BY <1>1, <1>5, <2>1 DEF Turns
  <2>2. ASSUME NEW i \in 1..Len(queue'), NEW k \in 1..Len(queue'), i < k PROVE queue'[i] < queue'[k]
    <3>1. i \in 1..Len(queue) /\ queue'[i] = queue[i]
      BY <1>1, <1>4, <2>2
    <3>2. CASE k \in 1..Len(queue)
      BY <1>1, <1>4, <2>2, <3>1, <3>2 DEF Turns
    <3>3. CASE k = Len(queue) + 1
      <4>1. queue[i] \in Elems(queue)
        BY <3>1 DEF Elems
      <4>2. queue[i] \in Job /\ queue[i] <= j /\ queue[i] # j
        BY <1>1, <1>3, <4>1 DEF Turns
      <4> QED BY <1>3, <1>4, <1>8, <3>1, <3>3, <4>2
    <3> QED BY <1>1, <1>4, <3>2, <3>3
  <2>3. \A i \in Elems(queue) \cup {j} : Begun(i)' /\ i # 0
    BY <1>1, <1>3, <1>8 DEF Turns
  <2>4. ASSUME NEW i \in Elems(queue) \cup {j}, NEW k \in Job, i < k, Begun(k)'
        PROVE  k \in Elems(queue) \cup {j}
    <3> SUFFICES ASSUME k # j PROVE k \in Elems(queue)
      OBVIOUS
    <3>1. Begun(k) /\ k <= j /\ i \in Job
      BY <1>1, <1>3, <1>8, <2>4
    <3>2. i # j
      BY <1>3, <1>8, <2>4, <3>1
    <3> QED BY <1>1, <2>4, <3>1, <3>2 DEF Turns, j
  <2> QED BY <1>4, <1>6, <2>1, <2>2, <2>3, <2>4 DEF Turns
<1> QED BY <1>10, <1>11

\* host1x_cdma_end() queues the job behind all others.
LEMMA EndOrder == ASSUME OHyp, End PROVE Ordered'
<1> DEFINE j == sub.job
<1>1. /\ Types /\ Numbers /\ Turns /\ Locking /\ Progress /\ Layout /\ Switches /\ CInv /\ WInv /\ Roomy
      /\ Marks /\ Commands /\ Budget /\ Elems(queue) \subseteq Job /\ queue \in Seq(Job) /\ Len(queue) \in Nat
      /\ job \in [Job -> Jobs] /\ dma \in [get : Positions, put : Positions, on : BOOLEAN]
      /\ timer \in [client : Job \cup {0}, pending : BOOLEAN]
  BY OrderTypes, TypedJobs DEF OHyp
<1>2. /\ sub.step = "end" /\ dma' = [dma EXCEPT !.put = pb.pos] /\ queue' = Append(queue, j)
      /\ sub' = [step |-> "idle", job |-> 0, i |-> 0, free |-> 0, used |-> 0, first |-> 0]
      /\ UNCHANGED <<scene, pb, mem, sp>>
      /\ timer' = IF queue = <<>> /\ timer.client = 0 THEN [client |-> j, pending |-> TRUE] ELSE timer
  BY DEF End, Flush
<1>3. /\ j \in Job /\ sub.i = 4 /\ Begun(j) /\ \A p \in Job : Begun(p) => p <= j
      /\ j \notin Elems(queue)
  BY <1>1, <1>2, ReachFacts DEF Switches, Turns
<1>4. /\ Elems(queue') = Elems(queue) \cup {j} /\ Len(queue') = Len(queue) + 1 /\ queue' \in Seq(Job)
      /\ queue'[Len(queue) + 1] = j /\ \A i \in 1..Len(queue) : queue'[i] = queue[i]
  BY <1>1, <1>2, <1>3, AppendFacts, AppendProperties
<1>5. ASSUME NEW i \in Job
      PROVE  /\ Alike(i) /\ Spared(i) /\ (job'[i].step = "new" <=> job[i].step = "new")
             /\ i # j => job'[i] = job[i]
             /\ i = j => job'[i].first = sub.first /\ job'[i].slots = sub.used
  <2>1. CASE i # j
    <3>1. job'[i] = job[i]
      BY <1>1, <2>1 DEF End
    <3> QED BY <2>1, <3>1 DEF Alike, Spared, Begun
  <2>2. CASE i = j
    <3>1. PICK f \in {"missed", "pending"} :
            job'[j] = [job[j] EXCEPT !.step = "held", !.first = sub.first, !.slots = sub.used, !.fence = f]
      BY <1>1, <1>3 DEF End
    <3>2. job[j] \in Jobs
      BY <1>1, <1>3
    <3>3. /\ job'[j].step = "held" /\ job'[j].end = job[j].end /\ job'[j].thresh = job[j].thresh
          /\ job'[j].first = sub.first /\ job'[j].slots = sub.used
          /\ job'[j].cancelled = job[j].cancelled /\ job'[j].failed = job[j].failed /\ job'[j].ran = job[j].ran
      BY <3>1, <3>2 DEF Jobs
    <3> QED BY <1>3, <2>2, <3>3 DEF Alike, Spared, Begun
  <2> QED BY <2>1, <2>2
<1>6. /\ Ring' = Ring /\ Positions' = Positions /\ Off' = Off /\ Elems(queue)' = Elems(queue) \cup {j}
      /\ dma'.get = dma.get /\ dma'.put = pb.pos /\ dma'.on = dma.on
      /\ sub'.step = "idle" /\ sub'.job = 0 /\ sub'.i = 0
  BY <1>1, <1>2, <1>4 DEF Ring, Positions, Off, Dist, Elems
<1>7. \A k : Ahead(k)' <=> Ahead(k)
  BY <1>2, <1>6 DEF Ahead
<1>8. \A p \in Job : p \in Nat /\ p # 0 /\ (Begun(p)' <=> Begun(p))
  BY <1>1, <1>5, NumberTypes DEF Alike, Begun
<1>9. \A s \in Syncpt : sp[s].value = sp[s].value
  OBVIOUS
<1>10. Numbers' /\ Turns'
  BY <1>1, EndQueues
<1> HIDE DEF j
<1>12. Locking'
  <2>1. ~sp[Sp(j)].locked
    BY <1>1, <1>3 DEF Locking, j
  <2>2. \A i \in Job : Sp(i)' = Sp(i)
    BY <1>2 DEF Sp
  <2>3. ASSUME NEW i \in Job
        PROVE  /\ ~Begun(i)' => ~job'[i].cancelled /\ ~job'[i].failed /\ job'[i].ran = {}
               /\ job'[i].cancelled => sp[Sp(i)].locked
               /\ i \in Elems(queue) \cup {j} /\ sp[Sp(i)].locked => job'[i].cancelled
    BY <1>1, <1>5, <1>8, <2>1 DEF Locking, Spared
  <2>4. ASSUME NEW i \in Job, NEW k \in Job, i < k, job'[i].cancelled, Sp(i) = Sp(k), Begun(k)'
        PROVE  job'[k].cancelled
    BY <1>1, <1>5, <1>8, <2>4 DEF Locking, Spared
  <2> QED BY <1>2, <1>6, <1>8, <2>2, <2>3, <2>4 DEF Locking
<1>13. Progress'
  <2>1. ASSUME NEW p \in Job, NEW o \in Commanded PROVE Pending(p, o)' <=> Pending(p, o)
    <3>1. ~(Rank[o] >= sub.i) /\ sub'.job # p
      BY <1>3, <1>6, <1>8 DEF Commanded, Rank
    <3> QED BY <1>2, <1>6, <1>7, <3>1 DEF Pending
  <2>2. \A p \in Job : Gone(p)' => Gone(p)
    BY <1>6, <1>8 DEF Gone, j
  <2> QED BY <1>1, <1>2, <1>5, <2>1, <2>2, ProgressKept
<1>14. Layout'
  <2>0. /\ Off[sub.first] + sub.used = Reach /\ sub.used <= 5 /\ sub.first \in Positions
        /\ Off[sub.first] \in Nat
    <3>1. sub.used <= 5
      BY <1>1, <1>2, <1>3, SubFacts DEF Budget, Subs
    <3> QED BY <1>2, <3>1, SubmissionEnds
  <2>1. ASSUME NEW k \in Positions, Ahead(k)
        PROVE  /\ Off[k] >= Off[sub.first] <=> mem[k].job >= j
               /\ mem[k].job = j <=> Dist(k, sub.first) < sub.used
    <3>1. Off[k] >= Off[sub.first] <=> mem[k].job >= j
      BY <1>1, <1>2, <2>1 DEF Layout, Region, j
    <3>2. Off[k] < Reach /\ Off[k] \in Nat /\ mem[k].job \in Job /\ Begun(mem[k].job)
      BY <2>1, AheadFacts
    <3>3. Off[sub.first] <= Off[k] <=> Dist(k, sub.first) < sub.used
      BY <1>2, <2>0, <3>2, SubmissionSpan
    <3>4. mem[k].job <= j /\ mem[k].job \in Nat /\ j \in Nat
      BY <1>3, <1>8, <3>2
    <3> QED BY <2>0, <3>1, <3>2, <3>3, <3>4
  <2>2. ASSUME NEW i \in Elems(queue) \cup {j}
        PROVE  /\ \A k \in Positions : Ahead(k) => (Off[k] >= Off[job'[i].first] <=> mem[k].job >= i)
               /\ \A k \in Positions :
                    Ahead(k) => (mem[k].job = i <=> Dist(k, job'[i].first) < job'[i].slots)
               /\ Off[job'[i].first] + job'[i].slots <= Reach
    <3>1. CASE i = j
      <4>1. job'[i].first = sub.first /\ job'[i].slots = sub.used
        BY <1>3, <1>5, <3>1
      <4>2. Reach \in Nat
        BY AheadFacts
      <4> QED BY <2>0, <2>1, <3>1, <4>1, <4>2
    <3>2. CASE i # j
      <4>1. i \in Elems(queue) /\ job'[i] = job[i]
        BY <1>1, <1>5, <2>2, <3>2
      <4> QED BY <1>1, <4>1 DEF Layout, Region, Harmless
    <3> QED BY <3>1, <3>2
  <2>3. Reach' = Reach /\ \A i, k : Harmless(k, i)' <=> Dist(k, job'[i].first) < job'[i].slots
    BY <1>2, <1>6 DEF Reach, Dist, Harmless
  <2>4. \A k \in Positions : Ahead(k) => mem[k].job \in Job
    BY <1>1 DEF Layout
  <2>5. \A k, n \in Positions : Ahead(k) /\ Ahead(n) /\ Off[k] < Off[n] => Before(mem[k], mem[n])
    BY <1>1 DEF Layout
  <2>6. ASSUME NEW i \in Elems(queue) \cup {j}
        PROVE  /\ Region(i, job[i].first)'
               /\ \A k \in Positions : Ahead(k)' => (mem'[k].job = i <=> Harmless(k, i)')
               /\ Off[job'[i].first] + job'[i].slots <= Reach'
    BY <1>2, <1>6, <1>7, <2>2, <2>3 DEF Region
  <2> QED BY <1>2, <1>6, <1>7, <2>4, <2>5, <2>6 DEF Layout, Before
<1>15. Switches'
  <2>1. timer'.client # 0 => timer'.client = queue'[1]
    <3>1. CASE queue = <<>> /\ timer.client = 0
      <4>1. queue'[1] = j
        BY <1>4, <3>1
      <4> QED BY <1>2, <3>1, <4>1
    <3>2. CASE ~(queue = <<>> /\ timer.client = 0)
      <4>1. timer' = timer
        BY <1>2, <3>2
      <4>2. timer.client # 0 => 1 \in 1..Len(queue)
        BY <1>1 DEF CInv, Submission
      <4> QED BY <1>1, <1>4, <4>1, <4>2 DEF Switches
    <3> QED BY <3>1, <3>2
  <2>2. dma.on
    BY <1>1, <1>2 DEF Switches
  <2>3. timer'.client # 0 => ~job'[timer'.client].cancelled
    <3>1. ~job[j].cancelled
      BY <1>1, <1>3 DEF Locking, j
    <3>2. timer'.client # 0 => timer'.client \in Job /\ ~job[timer'.client].cancelled
      BY <1>1, <1>2, <1>3, <3>1 DEF Switches
    <3> QED BY <1>5, <3>2 DEF Spared
  <2> QED BY <1>2, <1>6, <2>1, <2>2, <2>3 DEF Switches
<1> QED BY <1>10, <1>12, <1>13, <1>14, <1>15 DEF Ordered

-----------------------------------------------------------------------------
(* The engine.                                                             *)

\* The hardware goes from one command to the next.
LEMMA ExecAhead ==
  ASSUME OHyp, Exec
  PROVE  \A k \in Positions : Ahead(k)' <=> Ahead(k) /\ k # dma.get
<1> DEFINE next == IF At.op = "pad" \/ dma.get = Ring - 1 THEN 0
                   ELSE IF At.op = "work" THEN dma.get + 2 ELSE dma.get + 1
           g == dma.get
           h == next % Ring
<1>1. /\ CInv /\ Commands /\ Marks /\ dma \in [get : Positions, put : Positions, on : BOOLEAN] /\ Types
  BY OrderTypes
<1>2. dma.get # dma.put /\ dma' = [dma EXCEPT !.get = h] /\ UNCHANGED <<scene, mem>>
  BY DEF Exec, CanRun, Busy
<1>3. /\ h \in Starts /\ Off[g] < Off[h]
      /\ \A k \in Positions : Off[g] < Off[k] /\ Off[k] < Off[h] => mem[k].op = "arg"
  BY <1>1, <1>2, NextStarts DEF Marks
<1>4. Ring' = Ring /\ Positions' = Positions /\ Off' = Off
  BY <1>2 DEF Ring, Positions, Off, Dist
<1> HIDE DEF next, h
<1>5. dma'.get = h
  BY <1>1, <1>2
<1>6. g \in Positions /\ h \in Positions /\ \A k \in Positions : Off[k] \in Nat
  BY <1>1, <1>3, AheadFacts DEF Starts
<1> SUFFICES ASSUME NEW k \in Positions PROVE Ahead(k)' <=> Ahead(k) /\ k # g
  OBVIOUS
<1>7. Ahead(k)' <=> Off[k] >= Off[h] /\ mem[k].op \in Commanded
  BY <1>2, <1>4, <1>5 DEF Ahead
<1>8. k # g => Off[k] # Off[g]
  BY <1>1, <1>6, OffOne
<1>9. Ahead(k) /\ k # g => Off[k] >= Off[h]
  <2>1. "arg" \notin Commanded
    BY DEF Commanded
  <2> QED BY <1>3, <1>6, <1>8, <2>1 DEF Ahead
<1> QED BY <1>3, <1>6, <1>7, <1>9 DEF Ahead

\* Is (p, x) behind the command (j, o)?
Later(p, x, j, o) == p > j \/ (p = j /\ Rank[x] > Rank[o])

\* A command that is done is no longer pending; what is, comes later.
LEMMA ExecPending ==
  ASSUME OHyp, Exec, At.op \in Commanded
  PROVE  LET j == At.job
             o == At.op
         IN  /\ j \in Job /\ Begun(j) /\ Pending(j, o)
             /\ \A p \in Job, x \in Commanded : Pending(p, x)' <=> Pending(p, x) /\ ~(p = j /\ x = o)
             /\ \A p \in Job, x \in Commanded : Pending(p, x)' => Later(p, x, j, o)
<1> DEFINE j == At.job
           o == At.op
           g == dma.get
<1>1. /\ Turns /\ Layout /\ CInv /\ Types /\ dma.get \in Positions
  BY OrderTypes
<1>2. UNCHANGED <<scene, mem, sub>>
  BY DEF Exec
<1>3. g \in Positions /\ \A k \in Positions : Off[k] \in Nat
  BY <1>1, AheadFacts
<1>4. Ahead(g) /\ mem[g] = At
  BY <1>3 DEF Ahead, At
<1>5. j \in Job /\ Begun(j) /\ Pending(j, o) /\ mem[g] = [job |-> j, op |-> o]
  BY <1>3, <1>4, AheadFacts
<1>6. \A k \in Positions : Ahead(k)' <=> Ahead(k) /\ k # g
  BY ExecAhead
<1>7. Positions' = Positions
  BY <1>2 DEF Positions, Ring
<1>8. \A p \in Job : p \in Nat /\ p # 0
  BY <1>1, NumberTypes
<1>9. \A x \in Commanded : Rank[x] \in 1..3
  BY DEF Commanded, Rank
<1>10. sub.job # 0 => /\ \A p \in Job : Begun(p) => p <= sub.job
                      /\ \A k \in Positions : Ahead(k) /\ mem[k].job = sub.job => Rank[mem[k].op] < sub.i
                      /\ sub.i \in 0..4 /\ sub.job \in Job
  <2>1. sub.job # 0 => sub.step # "idle"
    BY <1>1 DEF CInv, Submission
  <2> QED BY <1>1, <2>1 DEF Turns, Layout, Types
<1>11. \A k \in Positions : Ahead(k) => mem[k] = [job |-> mem[k].job, op |-> mem[k].op] /\ mem[k].job \in Job
  BY AheadFacts
<1> HIDE DEF j, o
<1>12. ASSUME NEW p \in Job, NEW x \in Commanded, sub.job = p, Rank[x] >= sub.i PROVE Later(p, x, j, o)
  <2>1. j <= p
    BY <1>5, <1>8, <1>10, <1>12
  <2>2. j = p => Rank[o] < sub.i
    BY <1>3, <1>4, <1>5, <1>8, <1>10, <1>12
  <2>3. o \in Commanded
    BY DEF o
  <2> QED BY <1>5, <1>8, <1>9, <1>10, <1>12, <2>1, <2>2, <2>3 DEF Later
<1>13. ASSUME NEW p \in Job, NEW x \in Commanded, NEW k \in Positions, Ahead(k), k # g,
              mem[k] = [job |-> p, op |-> x]
       PROVE  Later(p, x, j, o)
  <2>1. Off[g] < Off[k]
    <3>1. Off[k] # Off[g]
      BY <1>1, <1>3, <1>13, OffOne
    <3>2. Off[k] >= Off[g]
      BY <1>13 DEF Ahead
    <3> QED BY <1>3, <3>1, <3>2
  <2>2. Before(mem[g], mem[k])
    BY <1>1, <1>3, <1>4, <1>13, <2>1 DEF Layout
  <2>3. j < p \/ (j = p /\ Rank[o] < Rank[x])
    BY <1>5, <1>13, <2>2 DEF Before
  <2>4. o \in Commanded
    BY DEF o
  <2> QED BY <1>5, <1>8, <1>9, <2>3, <2>4 DEF Later
<1>14. ASSUME NEW p \in Job, NEW x \in Commanded, Pending(p, x)' PROVE Pending(p, x) /\ Later(p, x, j, o)
  <2>1. CASE sub.job = p /\ Rank[x] >= sub.i
    BY <1>12, <2>1 DEF Pending
  <2>2. CASE ~(sub.job = p /\ Rank[x] >= sub.i)
    <3>1. PICK k \in Positions : Ahead(k)' /\ mem[k] = [job |-> p, op |-> x]
      BY <1>2, <1>7, <1>14, <2>2 DEF Pending
    <3> QED BY <1>6, <1>13, <3>1 DEF Pending
  <2> QED BY <2>1, <2>2
<1>15. ~Later(j, o, j, o)
  BY <1>5, <1>8, <1>9 DEF Later, o
<1>16. ASSUME NEW p \in Job, NEW x \in Commanded, Pending(p, x), ~(p = j /\ x = o) PROVE Pending(p, x)'
  <2>1. CASE sub.job = p /\ Rank[x] >= sub.i
    BY <1>2, <2>1 DEF Pending
  <2>2. CASE ~(sub.job = p /\ Rank[x] >= sub.i)
    <3>1. PICK k \in Positions : Ahead(k) /\ mem[k] = [job |-> p, op |-> x]
      BY <1>16, <2>2 DEF Pending
    <3>2. k # g
      BY <1>5, <1>16, <3>1
    <3>3. k \in Positions' /\ Ahead(k)' /\ mem'[k] = [job |-> p, op |-> x]
      BY <1>2, <1>6, <1>7, <3>1, <3>2
    <3> QED BY <3>3 DEF Pending
  <2> QED BY <2>1, <2>2
<1> QED BY <1>5, <1>14, <1>15, <1>16 DEF j, o

\* By how much a command counts.
Bump == At.op \in {"work", "final"}

\* Jobs before it are done, so the counter stands where the command expects it.
LEMMA ExecCounts ==
  ASSUME OHyp, Exec, At.op \in Commanded
  PROVE  LET j == At.job
         IN  /\ ~job[j].cancelled /\ ~job[j].failed
             /\ At.op = "work" => Value(j) >= job[j].end - 2 /\ Value(j) < job[j].end
             /\ At.op = "final" => Value(j) <= job[j].end
             /\ At.op # "work" => "work" \in job[j].ran /\ ~Pending(j, "work") /\ Value(j) >= job[j].end - 1
             /\ Value(j) \in Nat /\ job[j].end \in Nat /\ job[j].end < sp[Sp(j)].max
<1> DEFINE j == At.job
           o == At.op
<1>1. /\ Types /\ Numbers /\ Locking /\ Progress
  BY OrderTypes
<1>2. /\ j \in Job /\ Begun(j) /\ Pending(j, o) /\ o \in Commanded
      /\ \A p \in Job, x \in Commanded : Pending(p, x) => Later(p, x, j, o) \/ (p = j /\ x = o)
  BY ExecPending
<1> HIDE DEF j, o
<1>3. /\ Numbered(j) /\ job[j].end \in Nat /\ job[j].end < sp[Sp(j)].max /\ Value(j) \in Nat
      /\ Value(j) >= scene.from /\ scene.from \in Nat
  BY <1>1, <1>2, NumberTypes, Between DEF Numbers, Numbered, Value
<1>4. \A p \in Job : p \in Nat /\ Told(p)
  BY <1>1, NumberTypes DEF Progress
<1>5. ~job[j].cancelled /\ ~job[j].failed
  BY <1>2, <1>4 DEF Told
<1>6. {"work", "final"} \subseteq Commanded /\ Commanded = {"work", "final", "release"}
      /\ Rank["work"] = 1 /\ Rank["final"] = 2 /\ Rank["release"] = 3
  BY DEF Commanded, Rank
<1>7. ASSUME o = "work" PROVE Value(j) >= job[j].end - 2 /\ Value(j) < job[j].end
  <2>1. Value(j) < job[j].end
    BY <1>2, <1>4, <1>7 DEF Told
  <2>2. CASE job[j].end = scene.from + 1
    BY <1>3, <2>1, <2>2
  <2>3. ASSUME NEW p \in Job, p < j, Begun(p), Sp(p) = Sp(j), job[p].end + 2 = job[j].end
        PROVE  Value(j) >= job[j].end - 2
    <3>1. ~job[p].cancelled
      BY <1>1, <1>2, <1>5, <2>3 DEF Locking
    <3>2. ~Pending(p, "final")
      <4>1. ~Later(p, "final", j, o) /\ p # j
        BY <1>2, <1>4, <2>3 DEF Later
      <4> QED BY <1>2, <1>6, <4>1
    <3>3. Value(p) >= job[p].end
      BY <1>4, <2>3, <3>1, <3>2 DEF Told
    <3>4. job[p].end \in Nat /\ Value(p) = Value(j)
      BY <1>1, <2>3 DEF Numbers, Numbered, Value
    <3> QED BY <1>3, <2>3, <3>3, <3>4
  <2> QED BY <1>3, <2>1, <2>2, <2>3 DEF Numbered
<1>8. ASSUME o # "work"
      PROVE  /\ "work" \in job[j].ran /\ ~Pending(j, "work") /\ Value(j) >= job[j].end - 1
  <2>1. ~Pending(j, "work")
    <3>1. ~Later(j, "work", j, o)
      BY <1>2, <1>4, <1>6, <1>8 DEF Later
    <3> QED BY <1>2, <1>6, <1>8, <3>1
  <2> QED BY <1>2, <1>4, <1>5, <2>1 DEF Told
<1>9. o = "final" => Value(j) <= job[j].end
  BY <1>2, <1>4 DEF Told
<1> QED BY <1>3, <1>5, <1>7, <1>8, <1>9 DEF j, o

\* What the engine changes.
LEMMA ExecChanges ==
  ASSUME OHyp, Exec
  PROVE  LET j == At.job
         IN  /\ UNCHANGED <<scene, pb, mem, queue, sub, timer>> /\ dma'.put = dma.put /\ dma'.on = dma.on
             /\ \A i \in Job : /\ Kept(i) /\ job'[i].step = job[i].step
                               /\ job'[i].cancelled = job[i].cancelled /\ job'[i].failed = job[i].failed
                               /\ job'[i].ran = IF i = j /\ At.op \in Commanded THEN job[i].ran \cup {At.op}
                                                ELSE job[i].ran
             /\ \A s \in Syncpt : /\ sp'[s].max = sp[s].max /\ sp'[s].min = sp[s].min
                                  /\ sp'[s].locked = sp[s].locked
                                  /\ sp'[s].value = IF Bump /\ s = Sp(j) THEN sp[s].value + 1 ELSE sp[s].value
<1> DEFINE j == At.job
           next == IF At.op = "pad" \/ dma.get = Ring - 1 THEN 0
                   ELSE IF At.op = "work" THEN dma.get + 2 ELSE dma.get + 1
<1>1. /\ Types /\ Numbers /\ NoWrap /\ job \in [Job -> Jobs]
      /\ dma \in [get : Positions, put : Positions, on : BOOLEAN]
      /\ sp \in [Syncpt -> [value : Int, min : Int, max : Int, locked : BOOLEAN]]
  BY OrderTypes DEF OHyp
<1>2. /\ UNCHANGED <<scene, pb, mem, queue, sub, timer>> /\ dma' = [dma EXCEPT !.get = next % Ring]
      /\ sp' = IF At.op \in {"work", "final"} THEN [sp EXCEPT ![Sp(j)].value = (@ + 1) % CounterMod] ELSE sp
      /\ job' = IF At.op \in {"work", "final", "release"}
                  THEN [job EXCEPT ![j].ran = @ \cup {At.op}] ELSE job
  BY DEF Exec
<1>3. dma'.put = dma.put /\ dma'.on = dma.on
  <2> HIDE DEF next
  <2> QED BY <1>1, <1>2
<1> HIDE DEF next
<1>4. ASSUME NEW i \in Job
      PROVE  /\ Kept(i) /\ job'[i].step = job[i].step
             /\ job'[i].cancelled = job[i].cancelled /\ job'[i].failed = job[i].failed
             /\ job'[i].ran = IF i = j /\ At.op \in Commanded THEN job[i].ran \cup {At.op}
                              ELSE job[i].ran
  <2>1. job[i] \in Jobs
    BY <1>1
  <2>2. CASE i = j /\ At.op \in Commanded
    <3>1. job'[i] = [job[i] EXCEPT !.ran = @ \cup {At.op}]
      BY <1>1, <1>2, <2>2 DEF Commanded
    <3> QED BY <2>1, <2>2, <3>1 DEF Jobs, Kept, Alike, Begun
  <2>3. CASE ~(i = j /\ At.op \in Commanded)
    <3>1. job'[i] = job[i]
      BY <1>1, <1>2, <2>3 DEF Commanded
    <3> QED BY <2>3, <3>1 DEF Kept, Alike, Begun
  <2> QED BY <2>2, <2>3
<1>5. Bump => /\ Sp(j) \in Syncpt /\ (sp[Sp(j)].value + 1) % CounterMod = sp[Sp(j)].value + 1
  <2> SUFFICES ASSUME Bump PROVE Sp(j) \in Syncpt /\ (sp[Sp(j)].value + 1) % CounterMod = sp[Sp(j)].value + 1
    OBVIOUS
  <2>1. At.op \in Commanded
    BY DEF Bump, Commanded
  <2>2. /\ Value(j) \in Nat /\ job[j].end \in Nat /\ job[j].end < sp[Sp(j)].max
        /\ At.op = "work" => Value(j) < job[j].end
        /\ At.op = "final" => Value(j) <= job[j].end
    BY <2>1, ExecCounts
  <2>3. j \in Job
    BY <2>1, ExecPending
  <2> HIDE DEF j
  <2>4. Sp(j) \in Syncpt /\ sp[Sp(j)].max \in Nat /\ sp[Sp(j)].max <= scene.from + 2 * NJobs
        /\ scene.from \in Nat /\ NJobs \in Nat /\ CounterMod \in Nat /\ CounterMod > 0
    BY <1>1, <2>3, NumberTypes DEF Numbers, Counted
  <2>5. scene.from + 2 * NJobs < CounterMod
    BY <1>1 DEF NoWrap
  <2>6. Value(j) + 1 \in Int /\ 0 <= Value(j) + 1 /\ Value(j) + 1 < CounterMod
    BY <2>2, <2>4, <2>5 DEF Bump
  <2>7. (Value(j) + 1) % CounterMod = Value(j) + 1
    BY <2>4, <2>6, RingFacts
  <2> QED BY <2>4, <2>7 DEF Value
<1> HIDE DEF j
<1>6. ASSUME NEW s \in Syncpt
      PROVE  /\ sp'[s].max = sp[s].max /\ sp'[s].min = sp[s].min /\ sp'[s].locked = sp[s].locked
             /\ sp'[s].value = IF Bump /\ s = Sp(j) THEN sp[s].value + 1 ELSE sp[s].value
  <2>1. CASE Bump /\ s = Sp(j)
    BY <1>1, <1>2, <1>5, <2>1 DEF Bump
  <2>2. CASE ~(Bump /\ s = Sp(j))
    BY <1>1, <1>2, <1>5, <2>2 DEF Bump
  <2> QED BY <2>1, <2>2
<1> QED BY <1>2, <1>3, <1>4, <1>6 DEF j

\* The counter tells of the command.
LEMMA ExecTold == ASSUME OHyp, Exec, At.op \in Commanded PROVE Progress'
<1> DEFINE j == At.job
           o == At.op
<1>1. /\ Types /\ Numbers /\ Locking /\ Progress
  BY OrderTypes
<1>2. /\ j \in Job /\ Begun(j) /\ o \in Commanded
      /\ \A p \in Job, x \in Commanded : Pending(p, x)' <=> Pending(p, x) /\ ~(p = j /\ x = o)
      /\ \A p \in Job, x \in Commanded : Pending(p, x)' => Later(p, x, j, o)
  BY ExecPending
<1>3. /\ o = "work" => Value(j) >= job[j].end - 2 /\ Value(j) < job[j].end
      /\ o = "final" => Value(j) <= job[j].end
      /\ o # "work" => "work" \in job[j].ran /\ ~Pending(j, "work") /\ Value(j) >= job[j].end - 1
      /\ Value(j) \in Nat /\ job[j].end \in Nat
  BY ExecCounts
<1>4. /\ UNCHANGED <<scene, queue, sub>>
      /\ \A i \in Job : /\ Kept(i) /\ job'[i].step = job[i].step
                        /\ job'[i].cancelled = job[i].cancelled /\ job'[i].failed = job[i].failed
                        /\ job'[i].ran = IF i = j THEN job[i].ran \cup {o} ELSE job[i].ran
      /\ \A s \in Syncpt : sp'[s].value = IF o \in {"work", "final"} /\ s = Sp(j) THEN sp[s].value + 1
                                          ELSE sp[s].value
  BY ExecChanges DEF Bump
<1> HIDE DEF j, o
<1>5. {"work", "final"} \subseteq Commanded /\ Commanded = {"work", "final", "release"}
      /\ Rank["work"] = 1 /\ Rank["final"] = 2 /\ Rank["release"] = 3
  BY DEF Commanded, Rank
<1>6. \A p \in Job : /\ Sp(p) \in Syncpt /\ Sp(p)' = Sp(p) /\ (Begun(p)' <=> Begun(p)) /\ (Gone(p)' <=> Gone(p))
                     /\ job'[p].end = job[p].end /\ p \in Nat
                     /\ Value(p)' = IF o \in {"work", "final"} /\ Sp(p) = Sp(j) THEN Value(p) + 1 ELSE Value(p)
  <2>1. Elems(queue)' = Elems(queue)
    BY <1>4 DEF Elems
  <2> QED BY <1>1, <1>4, <2>1, NumberTypes DEF Sp, Begun, Gone, Value, Kept, Alike
<1> SUFFICES ASSUME NEW p \in Job PROVE Told(p)'
  BY DEF Progress
<1>7. Told(p)
  BY <1>1 DEF Progress
<1>8. Value(p) \in Nat /\ Value(p)' \in Nat /\ Value(p) <= Value(p)' /\ Value(p)' <= Value(p) + 1
  <2>1. Value(p) \in Nat
    BY <1>1, <1>6, Between DEF Value
  <2> QED BY <1>6, <2>1
<1>9. ASSUME NEW x \in Commanded, Pending(p, x)'
      PROVE  Begun(p)' /\ ~job'[p].cancelled /\ ~job'[p].failed /\ Begun(p) /\ ~job[p].cancelled /\ ~job[p].failed
  <2>1. Pending(p, x)
    BY <1>2, <1>9
  <2> QED BY <1>4, <1>6, <1>7, <2>1 DEF Told
<1>10. Begun(p) => job[p].end \in Nat
  BY <1>1 DEF Numbers, Numbered
<1>11. CASE p = j
  <2>1. Value(p)' = IF o \in {"work", "final"} THEN Value(p) + 1 ELSE Value(p)
    BY <1>6, <1>11
  <2>2. ~Pending(p, "work")'
    BY <1>2, <1>3, <1>5, <1>11
  <2>3. Pending(p, "final")' => Value(p)' <= job'[p].end
    <3> SUFFICES ASSUME Pending(p, "final")' PROVE Value(p)' <= job'[p].end
      OBVIOUS
    <3>1. Later(p, "final", j, o)
      BY <1>2, <1>5
    <3>2. o = "work"
      BY <1>2, <1>5, <1>6, <1>11, <3>1 DEF Later
    <3> QED BY <1>3, <1>6, <1>11, <2>1, <3>2
  <2>4. "work" \in job'[p].ran
    BY <1>3, <1>4, <1>11
  <2>5. Value(p)' >= job'[p].end - 1
    <3>1. job'[p].end = job[p].end
      BY <1>6
    <3>2. CASE o = "work"
      BY <1>3, <1>11, <2>1, <3>1, <3>2
    <3>3. CASE o # "work"
      BY <1>3, <1>8, <1>11, <3>1, <3>3
    <3> QED BY <3>2, <3>3
  <2>6. ASSUME ~Pending(p, "final")' \/ Gone(p)', ~job[p].cancelled PROVE Value(p)' >= job'[p].end
    <3>1. CASE Gone(p) \/ ~Pending(p, "final")
      <4>1. Value(p) >= job[p].end
        BY <1>2, <1>7, <1>11, <2>6, <3>1 DEF Told
      <4> QED BY <1>2, <1>6, <1>8, <1>10, <1>11, <4>1
    <3>2. CASE Pending(p, "final") /\ ~Gone(p)
      <4>1. o = "final"
        BY <1>2, <1>5, <1>6, <2>6, <3>2
      <4> QED BY <1>3, <1>6, <1>11, <2>1, <4>1
    <3> QED BY <3>1, <3>2
  <2>7. Begun(p)'
    BY <1>2, <1>6, <1>11
  <2> QED BY <1>4, <1>9, <2>2, <2>3, <2>4, <2>5, <2>6, <2>7 DEF Told
<1>12. CASE p # j
  <2>1. /\ \A x \in Commanded : Pending(p, x)' <=> Pending(p, x)
        /\ job'[p].ran = job[p].ran
    BY <1>2, <1>4, <1>12
  <2>2. ASSUME NEW x \in {"work", "final"}, Pending(p, x)'
        PROVE  Value(p)' < job'[p].end
               \/ (x = "final" /\ Value(p)' <= job'[p].end)
    <3>1. Begun(p) /\ p > j
      BY <1>2, <1>5, <1>9, <1>12, <2>2 DEF Later
    <3>2. CASE Sp(p) = Sp(j) /\ o \in {"work", "final"}
      <4>1. job[j].end + 2 <= job[p].end
        BY <1>1, <1>2, <1>6, <3>1, <3>2 DEF Numbers, Numbered
      <4>2. Value(p) = Value(j) /\ Value(j) <= job[j].end /\ Value(p)' = Value(p) + 1
        BY <1>3, <1>6, <3>2 DEF Value
      <4> QED BY <1>3, <1>6, <1>10, <3>1, <4>1, <4>2
    <3>3. CASE ~(Sp(p) = Sp(j) /\ o \in {"work", "final"})
      <4>1. Value(p)' = Value(p) /\ job'[p].end = job[p].end
        BY <1>6, <3>3
      <4>2. Pending(p, x)
        BY <1>5, <2>1, <2>2
      <4> QED BY <1>7, <2>2, <4>1, <4>2 DEF Told
    <3> QED BY <3>2, <3>3
  <2>3. Pending(p, "work")' => Value(p)' < job'[p].end
    BY <2>2
  <2>4. Pending(p, "final")' => Value(p)' <= job'[p].end
    BY <1>5, <1>6, <1>8, <1>9, <1>10, <2>2
  <2>5. ASSUME Begun(p), ~job[p].cancelled
        PROVE  /\ ~Pending(p, "final")' \/ Gone(p)' => Value(p)' >= job'[p].end
               /\ ~Pending(p, "work")' /\ ~job'[p].failed =>
                    Value(p)' >= job'[p].end - 1 /\ "work" \in job'[p].ran
    <3>1. /\ ~Pending(p, "final") \/ Gone(p) => Value(p) >= job[p].end
          /\ ~Pending(p, "work") /\ ~job[p].failed => Value(p) >= job[p].end - 1 /\ "work" \in job[p].ran
      BY <1>7, <2>5 DEF Told
    <3>2. /\ job'[p].end = job[p].end /\ job'[p].failed = job[p].failed /\ job'[p].ran = job[p].ran
          /\ (Pending(p, "final")' <=> Pending(p, "final")) /\ (Pending(p, "work")' <=> Pending(p, "work"))
          /\ (Gone(p)' <=> Gone(p)) /\ job[p].end \in Nat
      BY <1>4, <1>5, <1>6, <1>10, <2>1, <2>5
    <3>3. /\ Value(p) >= job[p].end => Value(p)' >= job[p].end
          /\ Value(p) >= job[p].end - 1 => Value(p)' >= job[p].end - 1
      BY <1>8, <3>2
    <3> QED BY <3>1, <3>2, <3>3
  <2>6. job'[p].ran \cap {"final", "release"} # {} => "work" \in job'[p].ran
    BY <1>7, <2>1 DEF Told
  <2> QED BY <1>4, <1>6, <1>9, <2>3, <2>4, <2>5, <2>6 DEF Told
<1> QED BY <1>11, <1>12

\* The hardware fetches and does the commands in the order of their jobs.
LEMMA ExecOrder == ASSUME OHyp, Exec PROVE Ordered'
<1>1. /\ Types /\ Numbers /\ Turns /\ Locking /\ Progress /\ Layout /\ Switches /\ CInv
      /\ queue \in Seq(Job) /\ Elems(queue) \subseteq Job /\ Len(queue) \in Nat
  BY OrderTypes
<1>2. /\ UNCHANGED <<scene, pb, mem, queue, sub, timer>> /\ dma'.put = dma.put /\ dma'.on = dma.on
      /\ \A i \in Job : /\ Kept(i) /\ job'[i].step = job[i].step
                        /\ job'[i].cancelled = job[i].cancelled /\ job'[i].failed = job[i].failed
                        /\ job'[i].ran = IF i = At.job /\ At.op \in Commanded THEN job[i].ran \cup {At.op}
                                         ELSE job[i].ran
      /\ \A s \in Syncpt : /\ sp'[s].max = sp[s].max /\ sp'[s].min = sp[s].min
                           /\ sp'[s].locked = sp[s].locked
                           /\ sp'[s].value = IF Bump /\ s = Sp(At.job) THEN sp[s].value + 1 ELSE sp[s].value
  BY ExecChanges
<1>3. \A k \in Positions : Ahead(k)' <=> Ahead(k) /\ k # dma.get
  BY ExecAhead
<1>4. Elems(queue)' = Elems(queue) /\ Elems(queue') = Elems(queue) /\ Positions' = Positions
  BY <1>2 DEF Elems, Positions, Ring
<1>5. Fewer
  BY <1>2, <1>3 DEF Fewer
<1>6. Shorter(0)
  BY <1>1, <1>2, RestFacts DEF Shorter, CInv, Submission
<1>7. Bump => At.op \in Commanded
  BY DEF Bump, Commanded
<1>8. Numbers'
  <2>1. ASSUME NEW s \in Syncpt
        PROVE  /\ {sp'[s].min, sp'[s].value} \subseteq Nat
               /\ scene.from <= sp'[s].min /\ sp'[s].min <= sp'[s].value
               /\ sp'[s].value <= sp[s].max
    <3>1. /\ sp[s].value \in scene.from..sp[s].max /\ sp[s].min \in scene.from..sp[s].max
          /\ sp[s].min <= sp[s].value /\ sp[s].value \in Nat /\ sp[s].min \in Nat /\ sp[s].max \in Nat
          /\ scene.from \in Nat
      BY <1>1, Between
    <3>2. Bump /\ s = Sp(At.job) => sp[s].value + 1 <= sp[s].max
      BY <1>7, <3>1, ExecCounts DEF Bump, Value
    <3>3. /\ sp'[s].min = sp[s].min
          /\ sp'[s].value = sp[s].value \/ (sp'[s].value = sp[s].value + 1 /\ sp[s].value + 1 <= sp[s].max)
      BY <1>2, <3>2
    <3> QED BY <3>1, <3>3
  <2> QED BY <1>1, <1>2, <2>1, NumbersKept DEF Kept
<1>9. Turns'
  <2>1. \A i, j \in Job : i < j /\ job'[i].step = "new" => job'[j].step = "new"
    <3>1. \A i \in Job : job'[i].step = job[i].step
      BY <1>2
    <3>2. \A i, j \in Job : i < j /\ job[i].step = "new" => job[j].step = "new"
      BY <1>1 DEF Turns
    <3> QED BY <3>1, <3>2
  <2>2. (\A j \in Job : Kept(j)) /\ sub' = sub
    BY <1>2
  <2> QED BY <1>1, <1>6, <2>1, <2>2, TurnsKept
<1>10. Locking'
  <2>1. \A j \in Job : ~Begun(j) => job'[j].failed = job[j].failed /\ job'[j].ran = job[j].ran
    BY <1>2, ExecPending
  <2> QED BY <1>1, <1>2, <1>4, <2>1, LockingKept
<1>11. Progress'
  <2>1. CASE At.op \in Commanded
    BY <2>1, ExecTold
  <2>2. CASE At.op \notin Commanded
    <3>1. \A j \in Job : Alike(j) /\ Spared(j)
      BY <1>2, <2>2 DEF Kept, Spared
    <3>2. \A s \in Syncpt : sp'[s].value = sp[s].value
      BY <1>2, <1>7, <2>2
    <3>3. \A k \in Positions : Ahead(k)' <=> Ahead(k)
      BY <1>3, <2>2 DEF Ahead, At
    <3>4. \A j \in Job, x \in Commanded : Pending(j, x)' <=> Pending(j, x)
      BY <1>2, <1>4, <3>3 DEF Pending
    <3>5. \A j \in Job : Gone(j)' => Gone(j)
      BY <1>2, <1>4 DEF Gone, Begun
    <3> QED BY <1>1, <1>2, <3>1, <3>2, <3>4, <3>5, ProgressKept
  <2> QED BY <2>1, <2>2
<1>12. Layout'
  BY <1>1, <1>2, <1>4, <1>5, LayoutKept
<1>13. Switches'
  <2>1. timer.client # 0 => timer.client \in Job
    BY <1>1, TypedJobs
  <2>2. timer'.client # 0 => ~job'[timer'.client].cancelled
    BY <1>1, <1>2, <2>1 DEF Switches
  <2> QED BY <1>1, <1>2, <2>2 DEF Switches
<1> QED BY <1>8, <1>9, <1>10, <1>11, <1>12, <1>13 DEF Ordered

-----------------------------------------------------------------------------
(* Failures.                                                               *)

\* The job c, first in the queue, has not come to its end.
StuckAt(c) ==
  /\ sub.step = "idle" /\ sub.job = 0 /\ dma.put = pb.pos
  /\ c \in Job /\ c \in Elems(queue) /\ queue[1] = c /\ 1 \in 1..Len(queue)
  /\ Begun(c) /\ ~job[c].cancelled /\ Value(c) < job[c].end

\* The job whose timer went off is the first, unless it is complete.
LEMMA StuckFirst ==
  ASSUME OHyp, Handler, timer.client # 0, ~Completed(timer.client)
  PROVE  StuckAt(timer.client) /\ Stuck(sp[Sp(timer.client)].value) = 1
<1> DEFINE c == timer.client
           value == sp[Sp(c)].value
<1>1. /\ Types /\ Numbers /\ Turns /\ Switches /\ CInv /\ NoWrap /\ queue \in Seq(Job)
      /\ Elems(queue) \subseteq Job /\ Len(queue) \in Nat
      /\ timer \in [client : Job \cup {0}, pending : BOOLEAN]
  BY OrderTypes, TypedJobs DEF OHyp
<1>2. sub.step = "idle" /\ sub.job = 0 /\ dma.put = pb.pos
  <2>1. sub.step = "idle"
    BY <1>1 DEF Handler, Locked, Switches
  <2> QED BY <1>1, <2>1 DEF Switches, CInv, Submission
<1>3. c \in Job /\ queue[1] = c /\ 1 \in 1..Len(queue) /\ c \in Elems(queue) /\ ~job[c].cancelled
  <2>1. queue # <<>> /\ queue[1] = c /\ ~job[c].cancelled
    BY <1>1 DEF Switches, CInv, Submission
  <2>2. 1 \in 1..Len(queue)
    BY <1>1, <2>1
  <2> QED BY <1>1, <2>1, <2>2 DEF Elems
<1>4. Begun(c)
  BY <1>1, <1>3 DEF Turns
<1>5. value < job[c].end /\ value \in Nat /\ job[c].end \in Nat
  <2>1. Sp(c) \in Syncpt
    BY <1>1, <1>3, NumberTypes
  <2>2. value \in scene.from..sp[Sp(c)].max
    BY <1>1, <2>1, Between
  <2>3. /\ Expired(value, job[c].end) <=> value >= job[c].end
        /\ job[c].end \in Nat /\ value \in Nat
    BY <1>1, <1>3, <1>4, <2>2, Reached
  <2> QED BY <2>3 DEF Completed
<1>6. Stuck(value) = 1
  <2> DEFINE S == {i \in 1..Len(queue) : value < job[queue[i]].end}
  <2>1. 1 \in S /\ \A m \in S : 1 <= m /\ m \in Nat
    BY <1>1, <1>3, <1>5
  <2> HIDE DEF S
  <2>2. Min(S) \in S /\ \A m \in S : Min(S) <= m
    BY <2>1 DEF Min
  <2>3. Min(S) = 1
    BY <2>1, <2>2
  <2>4. Stuck(value) = Min(S)
    BY <2>1 DEF Stuck, S
  <2> QED BY <2>3, <2>4
<1> QED BY <1>2, <1>3, <1>4, <1>5, <1>6 DEF StuckAt, Value

\* Jobs before it have come to their ends.
LEMMA EarlierDone ==
  ASSUME OHyp, NEW c, StuckAt(c), NEW p \in Job, Begun(p), p < c
  PROVE  /\ Gone(p)
         /\ ~job[p].cancelled => /\ Value(p) >= job[p].end /\ ~Pending(p, "work")
                                 /\ Value(p) \in Nat /\ job[p].end \in Nat
                                 /\ ~job[p].failed => Value(p) >= job[p].end - 1 /\ "work" \in job[p].ran
<1>1. /\ Types /\ Numbers /\ Turns /\ Progress /\ queue \in Seq(Job) /\ Elems(queue) \subseteq Job /\ Len(queue) \in Nat
  BY OrderTypes
<1>2. p \in Nat /\ p # 0 /\ c \in Nat /\ Sp(p) \in Syncpt
  BY <1>1, NumberTypes DEF StuckAt
<1>3. p \notin Elems(queue)
  <2> SUFFICES ASSUME p \in Elems(queue) PROVE FALSE
    OBVIOUS
  <2>1. PICK i \in 1..Len(queue) : p = queue[i]
    BY DEF Elems
  <2>2. 1 \in 1..Len(queue) /\ queue[1] = c /\ i # 1
    BY <1>2, <2>1 DEF StuckAt
  <2>3. 1 < i
    BY <1>1, <2>2
  <2>4. c < p
    BY <1>1, <2>1, <2>2, <2>3 DEF Turns
  <2> QED BY <1>2, <2>4
<1>4. Gone(p)
  BY <1>2, <1>3 DEF Gone, StuckAt
<1>5. Value(p) \in Nat /\ job[p].end \in Nat
  BY <1>1, <1>2, Between DEF Numbers, Numbered, Value
<1>6. ASSUME ~job[p].cancelled
      PROVE  /\ Value(p) >= job[p].end /\ ~Pending(p, "work")
             /\ ~job[p].failed => Value(p) >= job[p].end - 1 /\ "work" \in job[p].ran
  <2>1. Told(p)
    BY <1>1 DEF Progress
  <2>2. Value(p) >= job[p].end
    BY <1>4, <1>6, <2>1 DEF Told
  <2>3. ~Pending(p, "work")
    BY <1>5, <2>1, <2>2 DEF Told
  <2> QED BY <1>6, <2>1, <2>2, <2>3 DEF Told
<1> QED BY <1>4, <1>5, <1>6

\* CDMA goes on behind what the job has yet to do, with the jobs behind it.
LEMMA RestartsNext ==
  ASSUME OHyp, NEW c, StuckAt(c)
  PROVE  /\ RestartAt(1) \in Positions /\ Off[dma.get] <= Off[RestartAt(1)]
         /\ \A k \in Positions : Ahead(k) => (Off[k] >= Off[RestartAt(1)] <=> mem[k].job > c)
<1> DEFINE f == RestartAt(1)
<1>1. /\ Types /\ Numbers /\ Turns /\ Progress /\ Layout /\ CInv /\ Marks
      /\ queue \in Seq(Job) /\ Elems(queue) \subseteq Job /\ Len(queue) \in Nat
      /\ dma \in [get : Positions, put : Positions, on : BOOLEAN]
  BY OrderTypes
<1>2. c \in Job /\ c \in Nat /\ c # 0 /\ \A p \in Job : p \in Nat /\ p # 0
  BY <1>1, NumberTypes DEF StuckAt
<1>3. /\ \A k \in Positions : Off[k] \in Nat
      /\ \A k \in Positions : Ahead(k) => Off[k] < Reach /\ mem[k].job \in Job /\ Begun(mem[k].job)
      /\ Reach \in Nat /\ pb.pos \in Positions
  BY AheadFacts
<1>4. ASSUME NEW k \in Positions, Ahead(k), mem[k].job > c
      PROVE  \E m \in 2..Len(queue) : mem[k].job = queue[m]
  <2>1. mem[k].job \in Job /\ Begun(mem[k].job) /\ mem[k].job # sub.job
    BY <1>2, <1>3, <1>4 DEF StuckAt
  <2>2. mem[k].job \in Elems(queue)
    BY <1>1, <1>2, <1>4, <2>1 DEF Turns, StuckAt
  <2>3. PICK m \in 1..Len(queue) : mem[k].job = queue[m]
    BY <2>2 DEF Elems
  <2>4. m # 1
    BY <1>2, <1>4, <2>1, <2>3 DEF StuckAt
  <2> QED BY <1>1, <2>3, <2>4
<1>5. /\ f \in Positions
      /\ \A k \in Positions : Ahead(k) => (Off[k] >= Off[f] <=> mem[k].job > c)
  <2>1. CASE Len(queue) = 1
    <3>1. f = pb.pos /\ Off[f] = Reach
      BY <2>1 DEF RestartAt, StuckAt, Reach
    <3>2. ASSUME NEW k \in Positions, Ahead(k) PROVE ~(Off[k] >= Off[f]) /\ ~(mem[k].job > c)
      <4>1. ~(mem[k].job > c)
        BY <1>4, <2>1, <3>2
      <4>2. Off[k] < Reach /\ Off[k] \in Nat
        BY <1>3, <3>2
      <4> HIDE DEF f
      <4> QED BY <1>3, <3>1, <4>1, <4>2
    <3> QED BY <1>3, <3>1, <3>2
  <2>2. CASE Len(queue) # 1
    <3> DEFINE i == queue[2]
    <3>1. 2 \in 1..Len(queue) /\ 1 \in 1..Len(queue)
      <4> DEFINE n == Len(queue)
      <4>1. n \in Nat /\ 1 \in 1..n /\ n # 1
        BY <1>1, <2>2 DEF StuckAt
      <4> HIDE DEF n
      <4>2. 2 \in 1..n /\ 1 \in 1..n
        BY <4>1
      <4> QED BY <4>2 DEF n
    <3>2. f = job[i].first
      BY <2>2 DEF RestartAt
    <3>3. i \in Elems(queue) /\ i \in Job /\ i > c
      <4>1. i \in Elems(queue)
        BY <3>1 DEF Elems
      <4>2. queue[1] < queue[2]
        BY <1>1, <3>1 DEF Turns
      <4> QED BY <1>1, <1>2, <4>1, <4>2 DEF StuckAt
    <3>4. f \in Positions
      BY <1>1, <3>2, <3>3 DEF Types, Jobs
    <3>5. ASSUME NEW k \in Positions, Ahead(k) PROVE Off[k] >= Off[f] <=> mem[k].job > c
      <4>1. Region(i, f)
        BY <1>1, <3>2, <3>3 DEF Layout
      <4>2. Off[k] >= Off[f] <=> mem[k].job >= i
        BY <3>5, <4>1 DEF Region
      <4>3. mem[k].job > c => mem[k].job >= i
        <5> SUFFICES ASSUME mem[k].job > c PROVE mem[k].job >= i
          OBVIOUS
        <5>1. PICK m \in 2..Len(queue) : mem[k].job = queue[m]
          BY <1>4, <3>5
        <5>2. m \in 1..Len(queue) /\ (m = 2 \/ 2 < m)
          BY <1>1, <5>1
        <5>3. 2 < m => queue[2] < queue[m]
          BY <1>1, <3>1, <5>2 DEF Turns
        <5>4. mem[k].job \in Nat /\ i \in Nat
          BY <1>2, <1>3, <3>3, <3>5
        <5> QED BY <5>1, <5>2, <5>3, <5>4
      <4>4. mem[k].job >= i => mem[k].job > c
        <5>1. mem[k].job \in Nat /\ i \in Nat /\ c \in Nat /\ i > c
          BY <1>2, <1>3, <3>3, <3>5
        <5> HIDE DEF i
        <5> QED BY <5>1
      <4> QED BY <4>2, <4>3, <4>4
    <3> QED BY <3>4, <3>5
  <2> QED BY <2>1, <2>2
<1>6. PICK k \in Positions : Ahead(k) /\ mem[k].job = c
  <2>1. Pending(c, "final")
    <3>1. Value(c) \in Nat /\ job[c].end \in Nat
      BY <1>1, <1>2, NumberTypes, Between DEF StuckAt, Value, Numbers, Numbered
    <3>2. ~(Value(c) >= job[c].end)
      BY <3>1 DEF StuckAt
    <3> QED BY <1>1, <1>2, <3>2 DEF Progress, Told, StuckAt
  <2>2. sub.job # c
    BY <1>2 DEF StuckAt
  <2> QED BY <2>1, <2>2 DEF Pending
<1>7. Off[dma.get] <= Off[k] /\ ~(Off[k] >= Off[f])
  <2>1. ~(mem[k].job > c)
    BY <1>2, <1>6
  <2>2. Off[k] >= Off[dma.get] /\ dma.get \in Positions
    BY <1>1, <1>6 DEF Ahead
  <2> QED BY <1>3, <1>5, <1>6, <2>1, <2>2
<1> HIDE DEF f
<1>8. Off[dma.get] <= Off[f]
  <2>1. Off[dma.get] \in Nat /\ Off[k] \in Nat /\ Off[f] \in Nat
    BY <1>1, <1>3, <1>5
  <2> QED BY <1>7, <2>1
<1> QED BY <1>5, <1>8 DEF f

\* What is left to do is what later jobs have, but for those whose slots are overwritten.
LEMMA RestartLeaves ==
  ASSUME OHyp, NEW c, StuckAt(c), NEW W \in SUBSET Elems(queue), UNCHANGED <<scene, sub>>,
         \A k \in Positions : mem'[k] = IF \E i \in W : Harmless(k, i) THEN [mem[k] EXCEPT !.op = "nop"] ELSE mem[k],
         dma'.get = RestartAt(1)
  PROVE  /\ Fewer
         /\ \A p \in Job, x \in Commanded : Pending(p, x)' <=> Pending(p, x) /\ p > c /\ p \notin W
<1>1. /\ Types /\ Layout /\ CInv /\ Commands
      /\ Elems(queue) \subseteq Job /\ dma \in [get : Positions, put : Positions, on : BOOLEAN]
  BY OrderTypes
<1>2. /\ RestartAt(1) \in Positions /\ Off[dma.get] <= Off[RestartAt(1)]
      /\ \A k \in Positions : Ahead(k) => (Off[k] >= Off[RestartAt(1)] <=> mem[k].job > c)
  BY RestartsNext
<1>3. Ring' = Ring /\ Positions' = Positions /\ Off' = Off
  BY DEF Ring, Positions, Off, Dist
<1>4. ASSUME NEW k \in Positions
      PROVE  /\ Ahead(k)' <=> Ahead(k) /\ mem[k].job > c /\ mem[k].job \notin W
             /\ Ahead(k)' => mem'[k] = mem[k]
  <2>1. "nop" \notin Commanded
    BY DEF Commanded
  <2>2. Ahead(k)' <=> Off[k] >= Off[RestartAt(1)] /\ mem'[k].op \in Commanded
    BY <1>3 DEF Ahead
  <2>3. CASE \E i \in W : Harmless(k, i)
    <3>1. mem'[k].op = "nop"
      <4>1. mem[k] \in [job : Job \cup {0}, op : {"nop", "pad", "work", "arg", "final", "release"}]
        BY <1>1 DEF Commands
      <4>2. mem'[k] = [mem[k] EXCEPT !.op = "nop"]
        BY <2>3
      <4> QED BY <4>1, <4>2
    <3>2. Ahead(k) => mem[k].job \in W
      BY <1>1, <2>3 DEF Layout
    <3> QED BY <2>1, <2>2, <3>1, <3>2
  <2>4. CASE ~\E i \in W : Harmless(k, i)
    <3>1. mem'[k] = mem[k]
      BY <2>4
    <3>2. Ahead(k) => mem[k].job \notin W
      BY <1>1, <2>4 DEF Layout
    <3>3. Off[k] >= Off[RestartAt(1)] => Off[k] >= Off[dma.get]
      <4>1. Off[k] \in Nat /\ Off[RestartAt(1)] \in Nat /\ Off[dma.get] \in Nat
        BY <1>1, <1>2, AheadFacts
      <4> QED BY <1>2, <4>1
    <3> QED BY <1>2, <2>2, <3>1, <3>2, <3>3 DEF Ahead
  <2> QED BY <2>3, <2>4
<1>5. Fewer
  BY <1>4 DEF Fewer
<1>6. ASSUME NEW p \in Job, NEW x \in Commanded
      PROVE  Pending(p, x)' <=> Pending(p, x) /\ p > c /\ p \notin W
  <2>1. p # sub.job /\ sub' = sub
    BY <1>1, NumberTypes DEF StuckAt
  <2>2. Pending(p, x) <=> \E k \in Positions : Ahead(k) /\ mem[k] = [job |-> p, op |-> x]
    BY <2>1 DEF Pending
  <2>3. Pending(p, x)' <=> \E k \in Positions : Ahead(k)' /\ mem'[k] = [job |-> p, op |-> x]
    BY <1>3, <2>1 DEF Pending
  <2>4. ASSUME NEW k \in Positions
        PROVE  Ahead(k)' /\ mem'[k] = [job |-> p, op |-> x]
                 <=> Ahead(k) /\ mem[k] = [job |-> p, op |-> x] /\ p > c /\ p \notin W
    <3>1. mem[k] = [job |-> p, op |-> x] => mem[k].job = p
      OBVIOUS
    <3> QED BY <1>4, <3>1
  <2> QED BY <2>2, <2>3, <2>4
<1> QED BY <1>5, <1>6

\* host1x_cdma_update_sync_queue() counts for a job that is given up: later ones expect
\* no less, and earlier ones have come to their ends.
LEMMA RecoverOrder ==
  ASSUME OHyp, NEW c, StuckAt(c), timer.client = c, Recover(c, 1), UNCHANGED <<scene, sub>>
  PROVE  Ordered'
<1> DEFINE e == job[c].end
<1>1. /\ Types /\ Numbers /\ Turns /\ Locking /\ Progress /\ Layout /\ Switches /\ CInv
      /\ queue \in Seq(Job) /\ Elems(queue) \subseteq Job /\ Len(queue) \in Nat /\ job \in [Job -> Jobs]
      /\ sp \in [Syncpt -> [value : Int, min : Int, max : Int, locked : BOOLEAN]]
  BY OrderTypes
<1>2. /\ job' = [job EXCEPT ![c] = [@ EXCEPT !.timed = FALSE, !.failed = TRUE]]
      /\ sp' = [sp EXCEPT ![Sp(c)] = [@ EXCEPT !.value = e, !.min = e]]
      /\ dma' = [get |-> RestartAt(1), put |-> pb.pos, on |-> TRUE]
      /\ UNCHANGED <<scene, sub, pb, mem, queue, timer>>
  BY DEF Recover, Restart
<1>3. /\ c \in Job /\ c \in Nat /\ Sp(c) \in Syncpt /\ Begun(c) /\ ~job[c].cancelled /\ Value(c) < e
      /\ \A p \in Job : p \in Nat /\ p # 0 /\ Sp(p) \in Syncpt
  BY <1>1, NumberTypes DEF StuckAt
<1>4. e \in Nat /\ scene.from < e /\ e < sp[Sp(c)].max /\ Numbered(c)
  BY <1>1, <1>3 DEF Numbers, Numbered
<1> HIDE DEF e
<1>5. \A j \in Job : /\ Kept(j) /\ job'[j].step = job[j].step /\ job'[j].cancelled = job[j].cancelled
                     /\ job'[j].ran = job[j].ran /\ job'[j].failed = (IF j = c THEN TRUE ELSE job[j].failed)
  <2> SUFFICES ASSUME NEW j \in Job
               PROVE  /\ Kept(j) /\ job'[j].step = job[j].step /\ job'[j].cancelled = job[j].cancelled
                      /\ job'[j].ran = job[j].ran
                      /\ job'[j].failed = (IF j = c THEN TRUE ELSE job[j].failed)
    OBVIOUS
  <2>1. job[j] \in Jobs
    BY <1>1
  <2>2. CASE j = c
    <3>1. job'[j] = [job[j] EXCEPT !.timed = FALSE, !.failed = TRUE]
      BY <1>1, <1>2, <2>2
    <3> QED BY <2>1, <2>2, <3>1 DEF Jobs, Kept, Alike, Begun
  <2>3. CASE j # c
    <3>1. job'[j] = job[j]
      BY <1>1, <1>2, <2>3
    <3> QED BY <2>3, <3>1 DEF Kept, Alike, Begun
  <2> QED BY <2>2, <2>3
<1>6. \A s \in Syncpt : /\ sp'[s].max = sp[s].max /\ sp'[s].locked = sp[s].locked
                        /\ sp'[s].value = (IF s = Sp(c) THEN e ELSE sp[s].value)
                        /\ sp'[s].min = (IF s = Sp(c) THEN e ELSE sp[s].min)
  BY <1>1, <1>2
<1>7. Elems(queue') = Elems(queue) /\ Elems(queue)' = Elems(queue) /\ Shorter(0)
  BY <1>1, <1>2, RestFacts DEF Elems, Shorter, CInv, Submission
<1>8. Fewer /\ \A p \in Job, x \in Commanded : Pending(p, x)' <=> Pending(p, x) /\ p > c
  <2> DEFINE W == {}
  <2>1. W \in SUBSET Elems(queue) /\ dma'.get = RestartAt(1)
    BY <1>2
  <2>2. \A k \in Positions : mem'[k] = IF \E i \in W : Harmless(k, i) THEN [mem[k] EXCEPT !.op = "nop"] ELSE mem[k]
    BY <1>2
  <2>3. \A p : p \notin W
    OBVIOUS
  <2> HIDE DEF W
  <2>4. /\ Fewer
        /\ \A p \in Job, x \in Commanded : Pending(p, x)' <=> Pending(p, x) /\ p > c /\ p \notin W
    BY <1>2, <2>1, <2>2, RestartLeaves
  <2> QED BY <2>3, <2>4
<1>9. Numbers'
  <2>1. ASSUME NEW s \in Syncpt
        PROVE  /\ {sp'[s].min, sp'[s].value} \subseteq Nat
               /\ scene.from <= sp'[s].min /\ sp'[s].min <= sp'[s].value
               /\ sp'[s].value <= sp[s].max
    <3>1. /\ sp[s].value \in scene.from..sp[s].max /\ sp[s].min \in scene.from..sp[s].max
          /\ sp[s].min <= sp[s].value /\ sp[s].value \in Nat /\ sp[s].min \in Nat /\ sp[s].max \in Nat
          /\ scene.from \in Nat
      BY <1>1, Between
    <3>2. CASE s = Sp(c)
      BY <1>4, <1>6, <3>1, <3>2
    <3>3. CASE s # Sp(c)
      BY <1>6, <3>1, <3>3
    <3> QED BY <3>2, <3>3
  <2> QED BY <1>1, <1>2, <1>5, <1>6, <2>1, NumbersKept DEF Kept
<1>10. Turns'
  <2>1. \A i, j \in Job : i < j /\ job'[i].step = "new" => job'[j].step = "new"
    <3>1. \A j \in Job : job'[j].step = "new" <=> job[j].step = "new"
      BY <1>5
    <3> QED BY <1>1, <3>1 DEF Turns
  <2> QED BY <1>1, <1>2, <1>5, <1>7, <2>1, TurnsKept
<1>11. Locking'
  <2>1. \A j \in Job : ~Begun(j) => job'[j].failed = job[j].failed /\ job'[j].ran = job[j].ran
    BY <1>3, <1>5
  <2> QED BY <1>1, <1>2, <1>5, <1>6, <1>7, <2>1, LockingKept
<1>12. Progress'
  <2> SUFFICES ASSUME NEW p \in Job PROVE Told(p)'
    BY DEF Progress
  <2>1. /\ Told(p) /\ (Begun(p)' <=> Begun(p)) /\ (Gone(p)' <=> Gone(p)) /\ job'[p].end = job[p].end
        /\ job'[p].cancelled = job[p].cancelled /\ job'[p].ran = job[p].ran
        /\ (p # c => job'[p].failed = job[p].failed)
        /\ {"work", "final"} \subseteq Commanded
        /\ \A x \in Commanded : Pending(p, x)' <=> Pending(p, x) /\ p > c
    BY <1>1, <1>2, <1>5, <1>7, <1>8 DEF Progress, Kept, Alike, Begun, Gone, Commanded
  <2>2. Value(p)' = IF Sp(p) = Sp(c) THEN e ELSE Value(p)
    BY <1>2, <1>3, <1>6 DEF Value, Sp
  <2>3. Value(p) \in Nat /\ Value(c) \in Nat
    BY <1>1, <1>3, Between DEF Value
  <2>4. Value(p) <= Value(p)' /\ Value(p)' \in Nat
    BY <1>3, <1>4, <2>2, <2>3 DEF Value
  <2>5. Begun(p) => job[p].end \in Nat
    BY <1>1 DEF Numbers, Numbered
  <2>6. job'[p].ran \cap {"final", "release"} # {} => "work" \in job'[p].ran
    BY <2>1 DEF Told
  <2>7. CASE p = c
    <3>1. \A x \in Commanded : ~Pending(p, x)'
      BY <1>3, <2>1, <2>7
    <3>2. Value(p)' >= job'[p].end /\ job'[p].failed
      <4>1. job'[p].end = e /\ Value(p)' = e /\ e >= e
        BY <1>4, <2>1, <2>2, <2>7 DEF e
      <4>2. job'[p].failed
        BY <1>5, <2>7
      <4> QED BY <4>1, <4>2
    <3> QED BY <2>6, <3>1, <3>2, <2>1 DEF Told
  <2>8. CASE p < c
    <3>1. \A x \in Commanded : ~Pending(p, x)' /\ p # c
      BY <1>3, <2>1, <2>8
    <3>2. ASSUME Begun(p), ~job[p].cancelled
          PROVE  /\ Value(p)' >= job[p].end
                 /\ ~job[p].failed => Value(p)' >= job[p].end - 1 /\ "work" \in job[p].ran
      <4>1. /\ Value(p) >= job[p].end
            /\ ~job[p].failed => "work" \in job[p].ran
        BY <2>8, <3>2, EarlierDone
      <4> QED BY <2>3, <2>4, <2>5, <3>2, <4>1
    <3> QED BY <2>1, <2>6, <3>1, <3>2 DEF Told
  <2>9. CASE p > c
    <3>1. p # c /\ \A x \in Commanded : Pending(p, x)' <=> Pending(p, x)
      BY <1>3, <2>1, <2>9
    <3>2. Begun(p) => Value(p)' = Value(p) \/ Value(p)' + 2 <= job[p].end
      BY <1>1, <1>3, <2>2, <2>9 DEF Numbers, Numbered, e
    <3>3. ASSUME NEW x \in Commanded, Pending(p, x) PROVE Begun(p) /\ ~job[p].cancelled /\ ~job[p].failed
      BY <2>1, <3>3 DEF Told
    <3>4. Pending(p, "work")' => Value(p)' < job[p].end
      BY <2>1, <2>4, <2>5, <3>1, <3>2, <3>3 DEF Told
    <3>5. Pending(p, "final")' => Value(p)' <= job[p].end
      BY <2>1, <2>4, <2>5, <3>1, <3>2, <3>3 DEF Told
    <3>6. ASSUME Begun(p), ~job[p].cancelled
          PROVE  /\ ~Pending(p, "final")' \/ Gone(p)' => Value(p)' >= job[p].end
                 /\ ~Pending(p, "work")' /\ ~job[p].failed => Value(p)' >= job[p].end - 1 /\ "work" \in job[p].ran
      <4>1. /\ ~Pending(p, "final") \/ Gone(p) => Value(p) >= job[p].end
            /\ ~Pending(p, "work") /\ ~job[p].failed => Value(p) >= job[p].end - 1 /\ "work" \in job[p].ran
        BY <2>1, <3>6 DEF Told
      <4>2. /\ Value(p) >= job[p].end => Value(p)' >= job[p].end
            /\ Value(p) >= job[p].end - 1 => Value(p)' >= job[p].end - 1
        BY <2>3, <2>4, <2>5, <3>6
      <4> QED BY <2>1, <3>1, <4>1, <4>2
    <3> QED BY <2>1, <2>6, <3>1, <3>3, <3>4, <3>5, <3>6 DEF Told
  <2> QED BY <1>3, <2>7, <2>8, <2>9
<1>13. Layout'
  BY <1>1, <1>2, <1>5, <1>7, <1>8, LayoutKept
<1>14. Switches'
  <2>1. timer.client # 0 => timer.client \in Job
    BY <1>1, TypedJobs
  <2>2. timer'.client # 0 => ~job'[timer'.client].cancelled
    BY <1>1, <1>2, <1>5, <2>1 DEF Switches
  <2> QED BY <1>1, <1>2, <2>2 DEF Switches, StuckAt
<1> QED BY <1>9, <1>10, <1>11, <1>12, <1>13, <1>14 DEF Ordered

\* What cdma_timeout_handler() does to jobs and counters when it cancels: c and the jobs
\* of its syncpoint behind it, V, are cancelled; those that leave the queue are over.
Cancels(c, V) ==
  /\ UNCHANGED <<scene, sub>> /\ pb'.pos = pb.pos
  /\ dma' = [get |-> RestartAt(1), put |-> pb.pos, on |-> TRUE]
  /\ V \subseteq Elems(queue) /\ \A i \in Elems(queue) : i \in V <=> Sp(i) = Sp(c)
  /\ \A j \in Job : /\ Kept(j) /\ job'[j].step = job[j].step /\ job'[j].ran = job[j].ran
                    /\ job'[j].cancelled <=> job[j].cancelled \/ j \in V
                    /\ job'[j].failed <=> job[j].failed \/ j = c
  /\ \A s \in Syncpt : /\ sp'[s].max = sp[s].max /\ sp'[s].value = sp[s].value
                       /\ sp'[s].min \in {sp[s].min, sp[s].value}
                       /\ sp'[s].locked <=> sp[s].locked \/ s = Sp(c)
  /\ \E n : Shorter(n)
  /\ \A j \in Elems(queue) \ Elems(queue') : job'[j].cancelled \/ Expired(sp'[Sp(j)].min, job[j].end)
  /\ timer'.client # 0 => timer'.client \in Job /\ timer'.client = queue'[1] /\ ~job'[timer'.client].cancelled
  /\ Fewer /\ \A k \in Positions : (\A i \in V \ {c} : ~Harmless(k, i)) => mem'[k] = mem[k]
  /\ \A p \in Job, x \in Commanded : Pending(p, x)' <=> Pending(p, x) /\ p > c /\ p \notin V

\* ... which is what CancelFrom comes to when the job is the first in the queue.
LEMMA CancelCancels ==
  ASSUME OHyp, NEW c, StuckAt(c), timer.client = c, CancelFrom(c, 1), UNCHANGED <<scene, sub>>
  PROVE  \E V : Cancels(c, V)
<1> DEFINE V == Victims(1)
           sy == [s \in Syncpt |-> [sp[s] EXCEPT !.min = IF s = Sp(timer.client) THEN sp[s].value ELSE @,
                                                    !.locked = @ \/ s = Sp(c)]]
           jb == [i \in Job |-> [job[i] EXCEPT !.cancelled = @ \/ i \in V, !.failed = @ \/ i = c]]
           W == V \ {c}
<1>1. /\ Types /\ Turns /\ Switches /\ CInv
      /\ queue \in Seq(Job) /\ Elems(queue) \subseteq Job /\ Len(queue) \in Nat /\ job \in [Job -> Jobs]
      /\ sp \in [Syncpt -> [value : Int, min : Int, max : Int, locked : BOOLEAN]]
  BY OrderTypes
<1>2. /\ c \in Job /\ c \in Elems(queue) /\ queue[1] = c /\ Sp(c) \in Syncpt /\ c \in Nat
      /\ \A p \in Job : p \in Nat /\ Sp(p) \in Syncpt
  BY <1>1, NumberTypes DEF StuckAt
<1>3. V \subseteq Elems(queue) /\ \A i \in Elems(queue) : i \in V <=> Sp(i) = Sp(c)
  <2>1. V = {queue[i] : i \in {n \in 1..Len(queue) : Sp(queue[n]) = Sp(c)}}
    BY <1>2 DEF Victims
  <2> HIDE DEF V
  <2> QED BY <2>1 DEF Elems
<1>4. /\ sp' = sy /\ UpdateLocked(jb, sy) /\ dma' = [get |-> RestartAt(1), put |-> pb.pos, on |-> TRUE]
      /\ \A k \in Positions : mem'[k] = IF \E i \in W : Harmless(k, i) THEN [mem[k] EXCEPT !.op = "nop"] ELSE mem[k]
  BY DEF CancelFrom, Restart, Positions
<1> HIDE DEF V
<1>5. ASSUME NEW i \in Job
      PROVE  /\ jb[i] \in Jobs /\ jb[i].step = job[i].step /\ jb[i].first = job[i].first
             /\ jb[i].slots = job[i].slots /\ jb[i].end = job[i].end /\ jb[i].thresh = job[i].thresh
             /\ jb[i].ran = job[i].ran
             /\ jb[i].cancelled <=> job[i].cancelled \/ i \in V
             /\ jb[i].failed <=> job[i].failed \/ i = c
  <2>1. job[i] \in Jobs
    BY <1>1
  <2>2. (job[i].cancelled \/ i \in V) \in BOOLEAN /\ (job[i].failed \/ i = c) \in BOOLEAN
    OBVIOUS
  <2>3. jb[i] = [job[i] EXCEPT !.cancelled = @ \/ i \in V, !.failed = @ \/ i = c]
    OBVIOUS
  <2> HIDE DEF jb
  <2> QED BY <2>1, <2>2, <2>3 DEF Jobs
<1>6. jb \in [Job -> Jobs]
  BY <1>5
<1>7. \A s \in Syncpt : /\ sp'[s].max = sp[s].max /\ sp'[s].value = sp[s].value
                        /\ sp'[s].min \in {sp[s].min, sp[s].value}
                        /\ sp'[s].locked <=> sp[s].locked \/ s = Sp(c)
  BY <1>1, <1>2, <1>4
<1> HIDE DEF sy, jb, W
<1>8. /\ \E n : Shorter(n) /\ \A j \in Elems(queue) \ Elems(queue') : Over(jb, sy, j)
      /\ timer'.client # 0 => timer'.client = queue'[1] /\ ~Over(jb, sy, timer'.client)
      /\ pb'.pos = pb.pos
      /\ \A j \in Job : job'[j] = [jb[j] EXCEPT !.fence = job'[j].fence]
  BY <1>1, <1>4, <1>6, RetiresFirst DEF Switches
<1>9. \A j \in Job : /\ Kept(j) /\ job'[j].step = job[j].step /\ job'[j].ran = job[j].ran
                     /\ job'[j].cancelled <=> job[j].cancelled \/ j \in V
                     /\ job'[j].failed <=> job[j].failed \/ j = c
                     /\ job'[j].cancelled <=> jb[j].cancelled
  <2> SUFFICES ASSUME NEW j \in Job
               PROVE  /\ Kept(j) /\ job'[j].step = job[j].step /\ job'[j].ran = job[j].ran
                      /\ job'[j].cancelled <=> job[j].cancelled \/ j \in V
                      /\ job'[j].failed <=> job[j].failed \/ j = c
                      /\ job'[j].cancelled <=> jb[j].cancelled
    OBVIOUS
  <2>1. jb[j] \in Jobs /\ job'[j] = [jb[j] EXCEPT !.fence = job'[j].fence]
    BY <1>5, <1>8
  <2>2. /\ job'[j].step = jb[j].step /\ job'[j].first = jb[j].first /\ job'[j].slots = jb[j].slots
        /\ job'[j].end = jb[j].end /\ job'[j].thresh = jb[j].thresh /\ job'[j].ran = jb[j].ran
        /\ job'[j].cancelled = jb[j].cancelled /\ job'[j].failed = jb[j].failed
    BY <2>1 DEF Jobs
  <2> QED BY <1>5, <2>2 DEF Kept, Alike, Begun
<1>10. timer'.client # 0 =>
         timer'.client \in Job /\ timer'.client = queue'[1] /\ ~job'[timer'.client].cancelled
  <2>1. timer' \in [client : Job \cup {0}, pending : BOOLEAN]
    BY <1>1, <1>4, <1>5, <1>6, UpdateFacts
  <2> QED BY <1>8, <1>9, <2>1 DEF Over
<1>11. \A j \in Elems(queue) \ Elems(queue') : job'[j].cancelled \/ Expired(sp'[Sp(j)].min, job[j].end)
  BY <1>1, <1>4, <1>5, <1>8, <1>9 DEF Over
<1>12. /\ Fewer
       /\ \A p \in Job, x \in Commanded : Pending(p, x)' <=> Pending(p, x) /\ p > c /\ p \notin V
  <2>1. W \in SUBSET Elems(queue) /\ dma'.get = RestartAt(1)
    BY <1>3, <1>4 DEF W
  <2>2. /\ Fewer
        /\ \A p \in Job, x \in Commanded : Pending(p, x)' <=> Pending(p, x) /\ p > c /\ p \notin W
    BY <1>4, <2>1, RestartLeaves
  <2>3. \A p \in Job : p > c => (p \notin W <=> p \notin V)
    BY <1>2 DEF W
  <2> QED BY <2>2, <2>3
<1>13. \A k \in Positions : (\A i \in V \ {c} : ~Harmless(k, i)) => mem'[k] = mem[k]
  BY <1>4 DEF W
<1>14. Cancels(c, V)
  BY <1>3, <1>4, <1>7, <1>8, <1>9, <1>10, <1>11, <1>12, <1>13 DEF Cancels
<1> QED BY <1>14

\* A cancelled job takes those of its syncpoint with it, and the others go on as they were.
LEMMA CancelOrder == ASSUME OHyp, NEW c, StuckAt(c), NEW V, Cancels(c, V) PROVE Ordered'
<1>1. /\ Types /\ Numbers /\ Turns /\ Locking /\ Progress /\ Layout /\ Switches /\ CInv /\ NoWrap
      /\ queue \in Seq(Job) /\ Elems(queue) \subseteq Job /\ Len(queue) \in Nat
  BY OrderTypes DEF OHyp
<1>2. /\ c \in Job /\ c \in Nat /\ c \in Elems(queue) /\ Begun(c) /\ Sp(c) \in Syncpt
      /\ \A p \in Job : p \in Nat /\ p # 0 /\ Sp(p) \in Syncpt
  BY <1>1, NumberTypes DEF StuckAt
<1>3. /\ UNCHANGED <<scene, sub>> /\ pb'.pos = pb.pos
      /\ dma' = [get |-> RestartAt(1), put |-> pb.pos, on |-> TRUE]
      /\ V \subseteq Elems(queue) /\ \A i \in Elems(queue) : i \in V <=> Sp(i) = Sp(c)
  BY DEF Cancels
<1>4. \A j \in Job : /\ Kept(j) /\ job'[j].step = job[j].step /\ job'[j].ran = job[j].ran
                     /\ job'[j].cancelled <=> job[j].cancelled \/ j \in V
                     /\ job'[j].failed <=> job[j].failed \/ j = c
                     /\ Sp(j)' = Sp(j) /\ (Begun(j)' <=> Begun(j)) /\ job'[j].end = job[j].end
  BY DEF Cancels, Sp, Begun, Kept, Alike
<1>5. \A s \in Syncpt : /\ sp'[s].max = sp[s].max /\ sp'[s].value = sp[s].value
                        /\ sp'[s].min \in {sp[s].min, sp[s].value}
                        /\ sp'[s].locked <=> sp[s].locked \/ s = Sp(c)
  BY DEF Cancels
<1>6. PICK n : Shorter(n)
  BY DEF Cancels
<1>7. Elems(queue') \subseteq Elems(queue) /\ Elems(queue)' = Elems(queue')
  BY <1>1, <1>6, ShorterFacts DEF Elems
<1>8. c \in V
  BY <1>2, <1>3
<1>9. /\ Fewer
      /\ \A p \in Job, x \in Commanded : Pending(p, x)' <=> Pending(p, x) /\ p > c /\ p \notin V
  BY DEF Cancels
<1>10. Numbers'
  <2>1. ASSUME NEW s \in Syncpt
        PROVE  /\ {sp'[s].min, sp'[s].value} \subseteq Nat
               /\ scene.from <= sp'[s].min /\ sp'[s].min <= sp'[s].value
               /\ sp'[s].value <= sp[s].max
    <3>1. /\ sp[s].value \in scene.from..sp[s].max /\ sp[s].min \in scene.from..sp[s].max
          /\ sp[s].min <= sp[s].value /\ sp[s].value \in Nat /\ sp[s].min \in Nat /\ sp[s].max \in Nat
          /\ scene.from \in Nat
      BY <1>1, Between
    <3>2. sp'[s].value = sp[s].value /\ (sp'[s].min = sp[s].min \/ sp'[s].min = sp[s].value)
      BY <1>5
    <3> QED BY <3>1, <3>2
  <2> QED BY <1>1, <1>3, <1>4, <1>5, <2>1, NumbersKept DEF Kept
<1>11. Turns'
  <2>1. \A i, j \in Job : i < j /\ job'[i].step = "new" => job'[j].step = "new"
    <3>1. \A j \in Job : job'[j].step = "new" <=> job[j].step = "new"
      BY <1>4
    <3> QED BY <1>1, <3>1 DEF Turns
  <2> QED BY <1>1, <1>3, <1>4, <1>6, <2>1, TurnsKept
<1>12. Locking'
  <2>1. ASSUME NEW j \in Job
        PROVE  /\ ~Begun(j)' => ~job'[j].cancelled /\ ~job'[j].failed /\ job'[j].ran = {}
               /\ job'[j].cancelled => sp'[Sp(j)'].locked
               /\ j \in Elems(queue') /\ sp'[Sp(j)'].locked => job'[j].cancelled
               /\ j # sub'.job
    <3>1. j \in V => Begun(j) /\ Sp(j) = Sp(c)
      BY <1>1, <1>3 DEF Turns
    <3>2. ~Begun(j)' => ~job'[j].cancelled /\ ~job'[j].failed /\ job'[j].ran = {}
      BY <1>1, <1>2, <1>4, <3>1 DEF Locking
    <3>3. job'[j].cancelled => sp'[Sp(j)'].locked
      BY <1>1, <1>2, <1>4, <1>5, <3>1 DEF Locking
    <3>4. j \in Elems(queue') /\ sp'[Sp(j)'].locked => job'[j].cancelled
      BY <1>1, <1>2, <1>3, <1>4, <1>5, <1>7 DEF Locking
    <3> QED BY <1>2, <1>3, <3>2, <3>3, <3>4 DEF StuckAt
  <2>2. ASSUME NEW i \in Job, NEW j \in Job, i < j, job'[i].cancelled, Sp(i) = Sp(j), Begun(j)
        PROVE  job'[j].cancelled
    <3>1. CASE job[i].cancelled
      BY <1>1, <1>4, <2>2, <3>1 DEF Locking
    <3>2. CASE i \in V
      <4>1. i \in Elems(queue) /\ Sp(i) = Sp(c) /\ j # sub.job
        BY <1>2, <1>3, <3>2 DEF StuckAt
      <4>2. j \in Elems(queue)
        BY <1>1, <2>2, <4>1 DEF Turns
      <4> QED BY <1>3, <1>4, <2>2, <4>1, <4>2
    <3> QED BY <1>4, <2>2, <3>1, <3>2
  <2>3. \A i, j \in Job : i < j /\ job'[i].cancelled /\ Sp(i)' = Sp(j)' /\ Begun(j)' => job'[j].cancelled
    BY <1>4, <2>2
  <2> QED BY <1>7, <2>1, <2>3 DEF Locking
<1>13. Progress'
  <2> SUFFICES ASSUME NEW p \in Job PROVE Told(p)'
    BY DEF Progress
  <2>1. /\ Told(p) /\ (Begun(p)' <=> Begun(p)) /\ job'[p].end = job[p].end /\ job'[p].ran = job[p].ran
        /\ job'[p].cancelled <=> job[p].cancelled \/ p \in V
        /\ job'[p].failed <=> job[p].failed \/ p = c
        /\ {"work", "final"} \subseteq Commanded
        /\ \A x \in Commanded : Pending(p, x)' <=> Pending(p, x) /\ p > c /\ p \notin V
        /\ Value(p)' = Value(p)
    BY <1>1, <1>2, <1>4, <1>5, <1>9 DEF Progress, Commanded, Value, Sp
  <2>2. job'[p].ran \cap {"final", "release"} # {} => "work" \in job'[p].ran
    BY <2>1 DEF Told
  <2>3. /\ \A x \in Commanded : Pending(p, x)' => Begun(p)' /\ ~job'[p].cancelled /\ ~job'[p].failed
        /\ Pending(p, "work")' => Value(p)' < job'[p].end
        /\ Pending(p, "final")' => Value(p)' <= job'[p].end
    BY <1>8, <2>1 DEF Told
  <2>4. ASSUME Begun(p), ~job'[p].cancelled
        PROVE  /\ ~Pending(p, "final")' \/ Gone(p)' => Value(p) >= job[p].end
               /\ ~Pending(p, "work")' /\ ~job'[p].failed => Value(p) >= job[p].end - 1 /\ "work" \in job[p].ran
    <3>1. p \notin V /\ p # c /\ ~job[p].cancelled
      BY <1>8, <2>1, <2>4
    <3>2. CASE p < c
      BY <2>1, <2>4, <3>1, <3>2, EarlierDone
    <3>3. CASE p > c
      <4>1. \A x \in {"work", "final"} : Pending(p, x)' <=> Pending(p, x)
        BY <2>1, <3>1, <3>3
      <4>2. Gone(p)' => Gone(p) \/ Value(p) >= job[p].end
        <5> SUFFICES ASSUME Gone(p)', ~Gone(p) PROVE Value(p) >= job[p].end
          OBVIOUS
        <5>1. p \in Elems(queue) /\ p \notin Elems(queue')
          BY <1>3, <1>7, <2>4 DEF Gone
        <5>2. Expired(sp'[Sp(p)].min, job[p].end)
          BY <2>4, <5>1 DEF Cancels
        <5>3. /\ sp[Sp(p)].value \in scene.from..sp[Sp(p)].max /\ sp[Sp(p)].min \in scene.from..sp[Sp(p)].max
              /\ sp[Sp(p)].min <= sp[Sp(p)].value /\ sp[Sp(p)].value \in Nat /\ sp[Sp(p)].min \in Nat
          BY <1>1, <1>2, Between
        <5>4. /\ sp'[Sp(p)].min \in scene.from..sp[Sp(p)].max /\ sp'[Sp(p)].min <= sp[Sp(p)].value
              /\ sp'[Sp(p)].min \in Nat
          <6>1. sp'[Sp(p)].min = sp[Sp(p)].min \/ sp'[Sp(p)].min = sp[Sp(p)].value
            BY <1>2, <1>5
          <6> QED BY <5>3, <6>1
        <5>5. sp'[Sp(p)].min >= job[p].end /\ job[p].end \in Nat
          BY <1>1, <2>4, <5>2, <5>4, Reached
        <5> QED BY <5>3, <5>4, <5>5 DEF Value
      <4> QED BY <2>1, <2>4, <3>1, <4>1, <4>2 DEF Told
    <3> QED BY <1>2, <3>1, <3>2, <3>3
  <2> QED BY <2>1, <2>2, <2>3, <2>4 DEF Told
<1>14. Layout'
  BY <1>1, <1>3, <1>4, <1>7, <1>9, LayoutKept
<1>15. Switches'
  <2>1. timer'.client # 0 => timer'.client = queue'[1] /\ ~job'[timer'.client].cancelled
    BY DEF Cancels
  <2> QED BY <1>1, <1>3, <2>1 DEF Switches, StuckAt
<1> QED BY <1>10, <1>11, <1>12, <1>13, <1>14, <1>15 DEF Ordered

\* cdma_timeout_handler(): nothing to do, or the first job is given up.
LEMMA HandlerOrder == ASSUME OHyp, Handler PROVE Ordered'
<1> DEFINE c == timer.client
           k == Stuck(sp[Sp(c)].value)
<1>1. UNCHANGED <<scene, sub>> /\ Turns /\ Switches /\ Types /\ CInv
      /\ sp \in [Syncpt -> [value : Int, min : Int, max : Int, locked : BOOLEAN]]
      /\ timer \in [client : Job \cup {0}, pending : BOOLEAN]
  BY OrderTypes, TypedJobs DEF Handler
<1>2. CASE c = 0 \/ Completed(c)
  <2>1. /\ UNCHANGED <<pb, mem, dma, job, queue, timer>> /\ (UNCHANGED sp \/ Load(Sp(c)))
    BY <1>2 DEF Handler
  <2>2. \A i \in Job : Kept(i) /\ Spared(i)
    BY <2>1 DEF Kept, Alike, Spared, Begun
  <2>3. \A t \in Syncpt : /\ sp'[t].max = sp[t].max /\ sp'[t].value = sp[t].value
                          /\ sp'[t].locked = sp[t].locked /\ sp'[t].min \in {sp[t].min, sp[t].value}
    <3> DEFINE s == Sp(c)
    <3>1. UNCHANGED sp \/ Load(s)
      BY <2>1
    <3> HIDE DEF s
    <3> QED BY <1>1, <3>1 DEF Load
  <2>4. ~dma.on => sub.step = "idle" /\ queue = <<>>
    BY <1>1 DEF Switches
  <2>5. \A i, j \in Job : i < j /\ job'[i].step = "new" => job'[j].step = "new"
    BY <1>1, <2>1 DEF Turns
  <2> QED BY <1>1, <2>1, <2>2, <2>3, <2>4, <2>5, QuietOrder
<1>3. CASE c # 0 /\ ~Completed(c)
  <2>1. StuckAt(c) /\ k = 1 /\ queue[k] = c /\ timer.client = c
    BY <1>3, StuckFirst DEF StuckAt
  <2>2. Recover(c, 1) \/ CancelFrom(c, 1)
    BY <1>3, <2>1 DEF Handler
  <2> HIDE DEF c, k
  <2> QED BY <1>1, <2>1, <2>2, RecoverOrder, CancelCancels, CancelOrder
<1> QED BY <1>2, <1>3

-----------------------------------------------------------------------------
(* The theorems.                                                           *)

\* At the start no job has begun and nothing is ahead.
LEMMA InitOrder == Init => OInv
<1> SUFFICES ASSUME Init PROVE Ordered
  BY DEF OInv
<1>1. Types /\ pb.pos = scene.at
  BY InitCInv DEF CInv, Init
<1>2. /\ scene.from \in Nat /\ NJobs \in Nat /\ NJobs > 0
      /\ \A j \in Job : j \in Nat /\ j >= 1 /\ j <= NJobs /\ Sp(j) \in Syncpt
  BY <1>1, NumberTypes
<1>3. /\ \A s \in Syncpt : /\ sp[s].value = scene.from /\ sp[s].min = scene.from /\ sp[s].max = scene.from
                           /\ ~sp[s].locked
      /\ \A j \in Job : /\ job[j].step = "new" /\ ~job[j].cancelled /\ ~job[j].failed /\ job[j].ran = {}
      /\ queue = <<>> /\ Elems(queue) = {} /\ Len(queue) = 0
      /\ sub.step = "idle" /\ sub.job = 0 /\ dma.put = pb.pos /\ timer.client = 0
  BY EmptyFacts DEF Init
<1>4. \A j \in Job : ~Begun(j) /\ ~Gone(j) /\ j # sub.job
  BY <1>2, <1>3 DEF Begun, Gone
<1>5. \A k \in Positions : ~Ahead(k)
  BY DEF Init, Ahead, Commanded, Positions
<1>6. \A j \in Job : \A o : ~Pending(j, o)
  BY <1>4, <1>5 DEF Pending
<1>7. Numbers
  <2>1. ASSUME NEW s \in Syncpt PROVE Counted(s)
    <3>1. \A j \in Job : scene.from <= scene.from + 2 * (j - 1)
      BY <1>2
    <3> QED BY <1>2, <1>3, <3>1 DEF Counted
  <2> QED BY <1>4, <2>1 DEF Numbers
<1>8. Turns
  BY <1>3, <1>4 DEF Turns
<1>9. Locking
  BY <1>2, <1>3, <1>4 DEF Locking
<1>10. Progress
  <2> SUFFICES ASSUME NEW j \in Job PROVE Told(j)
    BY DEF Progress
  <2>1. {"work", "final"} \subseteq Commanded
    BY DEF Commanded
  <2> QED BY <1>3, <1>4, <1>6, <2>1 DEF Told
<1>11. Layout
  BY <1>3, <1>5 DEF Layout
<1>12. Switches
  BY <1>3 DEF Switches
<1> QED BY <1>7, <1>8, <1>9, <1>10, <1>11, <1>12 DEF Ordered

\* The scenario is that of the behaviour.
LEMMA SameScene == [Next]_vars => scene' = scene
BY DEF vars, Next, BeginRuns, Begin, Put, FenceGivesUp, FenceTimeout, Interrupt, Look, Submit, PushWide, Push, Wake,
       Relock, End, UpdateRuns, Update, TimerGoesOff, TimerFires, HandlerRuns, Handler, EngineRuns, Exec, StopRuns,
       StopCall, StopCheck, StopWake

\* Every step keeps the order.
LEMMA StepOrder == CInv /\ WInv /\ OInv /\ [Next]_vars => OInv'
<1> SUFFICES ASSUME CInv, WInv, OInv, [Next]_vars, Roomy', NoWrap' PROVE Ordered'
  BY DEF OInv
<1>1. OHyp
  BY SameScene DEF OHyp, OInv, Roomy, NoWrap, Ring
<1>2. CASE UNCHANGED vars
  BY <1>1, <1>2, SameOrder
<1>3. CASE Next
  <2>1. ASSUME NEW j \in Job, BeginRuns(j) \/ Put(j) \/ FenceGivesUp(j) PROVE Ordered'
    BY <1>1, <2>1, BeginOrder, FencesOrder DEF BeginRuns, FenceGivesUp
  <2>2. ASSUME NEW s \in Syncpt, Interrupt(s) \/ Look(s) PROVE Ordered'
    BY <1>1, <2>2, CounterOrder
  <2>3. CASE Submit
    BY <1>1, <2>3, PushesOrder, WakeOrder, EndOrder DEF Submit
  <2>4. CASE UpdateRuns \/ HandlerRuns \/ EngineRuns
    BY <1>1, <2>4, UpdateOrder, HandlerOrder, ExecOrder DEF UpdateRuns, HandlerRuns, EngineRuns
  <2>5. CASE TimerGoesOff \/ StopRuns \/ StopCheck \/ StopWake
    BY <1>1, <2>5, TimerStopsOrder DEF TimerGoesOff, StopRuns
  <2> QED BY <1>3, <2>1, <2>2, <2>3, <2>4, <2>5 DEF Next
<1> QED BY <1>2, <1>3

\* The order holds throughout.
LEMMA OrderInvariance == Spec => [](CInv /\ WInv /\ OInv)
<1>1. Spec => []WInv
  BY InitWhole, StepWhole, Invariance, PTL DEF Spec
<1> QED BY <1>1, InitOrder, StepOrder, Invariance, PTL DEF Spec

\* "future submits return an error": after cdma_timeout_handler() has failed a job in a
\* ring with room for all jobs, none of its syncpoint waits in the queue uncancelled,
\* whatever was being submitted, fetched, counted or retired meanwhile, as long as no
\* counter wraps.
THEOREM FailuresTakeAll == Spec => [](NoWrap => NothingAfterFailure)
<1>1. CInv /\ OInv => (NoWrap => NothingAfterFailure)
  <2> SUFFICES ASSUME CInv, OInv, NoWrap, Roomy, NEW i \in 1..Len(queue), sp[Sp(queue[i])].locked
               PROVE  job[queue[i]].cancelled
    BY DEF NothingAfterFailure
  <2>1. queue[i] \in Elems(queue) /\ queue[i] \in Job
    BY SpaceFacts DEF Elems
  <2> QED BY <2>1 DEF OInv, Ordered, Locking
<1> QED BY <1>1, OrderInvariance, PTL

\* In a ring with room for all jobs and while no counter wraps, the engine never does
\* the later part of a job without its work, and a job that host1x_cdma_update() takes
\* from the queue, after which job_free() unpins its memory, has had its work done,
\* was cancelled or was failed: over hangs, cancelled and recovered jobs, restarts of
\* the DMA and cdma_stop().
THEOREM UnpinnedAfterUse == Spec => [](Roomy /\ NoWrap => PinnedWhileUsed)
<1>1. CInv /\ OInv => (Roomy /\ NoWrap => PinnedWhileUsed)
  <2> SUFFICES ASSUME CInv, OInv, Roomy, NoWrap PROVE PinnedWhileUsed
    OBVIOUS
  <2>1. Types /\ Numbers /\ Progress /\ Submission
    BY DEF CInv, OInv, Ordered
  <2>2. WholeJobs
    BY <2>1 DEF WholeJobs, Progress, Told
  <2>3. ASSUME NEW j \in Job, Ended(j), ~job[j].cancelled, ~job[j].failed PROVE "work" \in job[j].ran
    <3>1. Begun(j) /\ Gone(j)
      BY <2>1, <2>3 DEF Ended, Queued, Begun, Gone, Elems, Submission
    <3>2. Value(j) >= job[j].end /\ Value(j) \in Nat /\ job[j].end \in Nat
      <4>1. Sp(j) \in Syncpt
        BY <2>1, NumberTypes
      <4>2. Value(j) \in Nat /\ job[j].end \in Nat
        BY <2>1, <3>1, <4>1, Between DEF Value, Numbers, Numbered
      <4> QED BY <2>1, <2>3, <3>1, <4>2 DEF Progress, Told
    <3>3. ~Pending(j, "work")
      BY <2>1, <3>2 DEF Progress, Told
    <3> QED BY <2>1, <2>3, <3>1, <3>3 DEF Progress, Told
  <2> QED BY <2>2, <2>3 DEF PinnedWhileUsed
<1> QED BY <1>1, OrderInvariance, PTL

\* What the hardware has yet to fetch lies ahead of it.
LEMMA FetchesAhead ==
  ASSUME CInv, WInv, Roomy, NEW k \in ToFetch, mem[k].op = "work"
  PROVE  k \in Positions /\ Ahead(k)
<1>1. Types /\ Fetching
  BY DEF CInv, WInv, Marks
<1>2. k \in Positions /\ dma.get \in Positions /\ dma.put \in Positions
  BY <1>1 DEF ToFetch, Types, Positions
<1>3. Ring \in Nat /\ Ring > 5 /\ \A x, y \in Positions : Dist(x, y) = IF x >= y THEN x - y ELSE x - y + Ring
  BY <1>1, RingSize, RingFacts DEF Dist, Positions
<1>4. \A x \in Positions : /\ Off[x] = (IF x >= scene.at THEN x - scene.at ELSE x - scene.at + Ring)
                          /\ x \in 0..(Ring - 1) /\ scene.at \in 0..(Ring - 1)
  BY <1>1, OffFacts
<1>5. Dist(k, dma.get) < Dist(dma.put, dma.get) /\ Off[dma.get] <= Off[dma.put]
  BY <1>1 DEF ToFetch, Fetching
<1>6. Off[k] >= Off[dma.get]
  BY <1>2, <1>3, <1>4, <1>5
<1> QED BY <1>2, <1>6 DEF Ahead, Commanded

\* A job that leaves the queue has its memory unpinned by job_free(): in a ring with room
\* for all jobs and while no counter wraps, the hardware never has the work of such a job
\* before it, whichever jobs hang, are failed, cancelled or recovered, and however late the
\* hardware is with the rest of a job, the timers are early or cdma_stop() comes.
THEOREM NoWorkUnpinned == Spec => [](Roomy /\ NoWrap => UnpinnedUnfetched)
<1>1. CInv /\ WInv /\ OInv => (Roomy /\ NoWrap => UnpinnedUnfetched)
  <2> SUFFICES ASSUME CInv, WInv, OInv, Roomy, NoWrap, NEW k \in ToFetch, mem[k].op = "work"
               PROVE  Queued(mem[k].job) \/ mem[k].job = sub.job
    BY DEF UnpinnedUnfetched
  <2>1. OHyp /\ Types /\ Numbers /\ Progress
    BY DEF OHyp, OInv, Ordered, CInv
  <2>2. k \in Positions /\ Ahead(k)
    BY FetchesAhead
  <2>3. PICK j \in Job : j = mem[k].job /\ Pending(j, "work") /\ Begun(j)
    BY <2>1, <2>2, AheadFacts
  <2>4. /\ ~job[j].cancelled /\ Value(j) < job[j].end /\ (Gone(j) => Value(j) >= job[j].end)
    BY <2>1, <2>3 DEF Progress, Told, Commanded
  <2>5. Value(j) \in Nat /\ job[j].end \in Nat
    <3>1. Sp(j) \in Syncpt
      BY <2>1, NumberTypes
    <3> QED BY <2>1, <2>3, <3>1, Between DEF Value, Numbers, Numbered
  <2>6. ~Gone(j)
    BY <2>4, <2>5
  <2> QED BY <2>3, <2>6 DEF Gone, Elems, Queued
<1> QED BY <1>1, OrderInvariance, PTL
-----------------------------------------------------------------------------
(* Whose time is up.  Where no job is retired early, no fence times out    *)
(* while its job may yet run, and no timer goes off while the engine can   *)
(* work, a timer that has gone off is that of the first job, whose work    *)
(* the engine never finishes, until its handler comes.                     *)

\* Where the commands of a job begin, from its work on, and the slots of its first ones.
Place == [o \in Commanded |-> IF o = "work" THEN 0 ELSE IF o = "final" THEN 2 ELSE 3]
Filled(n) == IF n = 1 THEN 0 ELSE n

\* The first n - 1 commands of a job are in their places, from b on.
Lies(j, b, n) ==
  \A o \in Commanded : Rank[o] < n =>
    \E k \in Positions : Off[k] = b + Place[o] /\ mem[k] = [job |-> j, op |-> o]

\* Jobs fill the ring one after the other, and what is queued has been handed over.
Upto(i) == Off[job[i].first] + job[i].slots
Places ==
  /\ \A i \in Elems(queue) : ~job[i].cancelled => job[i].slots >= 4 /\ Lies(i, Upto(i) - 4, 4)
  /\ \A i, k \in Elems(queue) : i < k => Upto(i) <= Off[job[k].first]
  /\ sub.step # "idle" =>
       /\ Off[sub.first] <= Off[dma.put] /\ \A i \in Elems(queue) : Upto(i) <= Off[sub.first]
       /\ sub.used >= Filled(sub.i) /\ Lies(sub.job, Reach - Filled(sub.i), sub.i)

\* The counter has all of what a job has done, and a job leaves when it has done all.
Exact(j) ==
  Begun(j) =>
    /\ Gone(j) => \A o \in Commanded : ~Pending(j, o)
    /\ ~job[j].cancelled =>
         \A o \in {"work", "final"} : ~Pending(j, o) => Value(j) >= job[j].end + Rank[o] - 1
Tally == \A j \in Job : Exact(j)

\* The engine waits in the work of c.
Waits(c) == Busy /\ c \in scene.hangs /\ At = [job |-> c, op |-> "work"]

\* A fence that has been signalled was reached; there is a timer for the first job,
\* or its handler is on its way and the engine waits.
Signalled ==
  \A j \in Elems(queue) :
    ~job[j].cancelled /\ job[j].fence # "pending" => sp[Sp(j)].min >= job[j].thresh
Clock ==
  /\ queue # <<>> => timer.client = queue[1] /\ (timer.pending <=> handler = 0)
  /\ timer.pending => timer.client # 0
  /\ queue # <<>> /\ ~update => job[queue[1]].fence = "pending"
  /\ handler # 0 => handler = timer.client /\ job[handler].expired /\ Waits(handler)
Timing == (\A j \in Job : job[j].timed) /\ (~hung => Signalled /\ Clock)

Punctual == env \subseteq {"early", "busy_stop"}
Timely == Places /\ Tally /\ Timing /\ OwnTTL
TInv == Roomy /\ NoWrap /\ Punctual => Timely
THyp == OHyp /\ Punctual /\ Timely

\* What the invariants say together.
LEMMA TimeTypes ==
  ASSUME THyp
  PROVE  /\ OHyp /\ Types /\ Numbers /\ Turns /\ Locking /\ Progress /\ Layout /\ Switches /\ Commands /\ Marks
         /\ CInv /\ NoWrap /\ Submission /\ Places /\ Tally /\ Timing /\ OwnTTL
         /\ job \in [Job -> Jobs] /\ queue \in Seq(Job) /\ Elems(queue) \subseteq Job /\ Len(queue) \in Nat
         /\ sp \in [Syncpt -> [value : Int, min : Int, max : Int, locked : BOOLEAN]]
         /\ dma \in [get : Positions, put : Positions, on : BOOLEAN]
         /\ timer \in [client : Job \cup {0}, pending : BOOLEAN] /\ handler \in Job \cup {0}
         /\ "slow" \notin env /\ "long" \notin env /\ "legacy" \notin env /\ "late" \notin env
BY OrderTypes, TypedJobs DEF THyp, Timely, Punctual, OHyp, CInv, Types

\* A value is compared with where the fence of a job waits, while nothing wraps.
LEMMA ReachedThresh ==
  ASSUME Types, Numbers, NoWrap, NEW j \in Job, Begun(j), NEW v \in scene.from..sp[Sp(j)].max
  PROVE  /\ Expired(v, job[j].thresh) <=> v >= job[j].end + 1
         /\ job[j].thresh = job[j].end + 1 /\ v \in Nat /\ job[j].end \in Nat
<1>1. scene.from \in Nat /\ NJobs \in Nat /\ NJobs > 0 /\ CounterMod \in Nat /\ 4 * NJobs < CounterMod
      /\ Sp(j) \in Syncpt
  BY NumberTypes
<1>2. /\ job[j].end \in Nat /\ scene.from < job[j].end /\ job[j].end < sp[Sp(j)].max
      /\ job[j].thresh = job[j].end + 1
  BY DEF Numbers, Numbered
<1>3. sp[Sp(j)].max \in Nat /\ sp[Sp(j)].max <= scene.from + 2 * NJobs
  BY <1>1 DEF Numbers, Counted
<1>4. scene.from + 2 * NJobs < CounterMod
  BY DEF NoWrap
<1>5. v \in scene.from..(scene.from + 2 * NJobs) /\ job[j].thresh \in scene.from..(scene.from + 2 * NJobs)
      /\ scene.from < job[j].thresh
  BY <1>1, <1>2, <1>3
<1>6. Expired(v, job[j].thresh) <=> v >= job[j].thresh
  BY <1>1, <1>2, <1>4, <1>5, Compare
<1> QED BY <1>1, <1>2, <1>3, <1>6

-----------------------------------------------------------------------------
(* Steps that leave it to others.                                          *)

\* Nothing is written, and jobs only leave.
LEMMA PlacesKept ==
  ASSUME THyp, UNCHANGED <<scene, mem, sub>>, pb'.pos = pb.pos, Elems(queue') \subseteq Elems(queue),
         \A j \in Job : Kept(j) /\ (job[j].cancelled => job'[j].cancelled),
         dma'.put \in {dma.put, pb.pos}
  PROVE  Places'
<1>1. Types /\ Places /\ Marks /\ Elems(queue) \subseteq Job /\ Submission
  BY TimeTypes
<1>2. Ring' = Ring /\ Positions' = Positions /\ Off' = Off /\ Reach' = Reach /\ Elems(queue)' = Elems(queue')
  BY DEF Ring, Positions, Off, Reach, Dist, Elems
<1>3. \A i \in Elems(queue') : /\ Upto(i)' = Upto(i) /\ Off'[job'[i].first] = Off[job[i].first]
                               /\ job'[i].slots = job[i].slots /\ (~job'[i].cancelled => ~job[i].cancelled)
  BY <1>1, <1>2 DEF Upto, Kept
<1>4. \A i \in Elems(queue') : ~job'[i].cancelled => job'[i].slots >= 4 /\ Lies(i, Upto(i) - 4, 4)'
  <2> SUFFICES ASSUME NEW i \in Elems(queue'), ~job'[i].cancelled
               PROVE  job'[i].slots >= 4 /\ Lies(i, Upto(i) - 4, 4)'
    OBVIOUS
  <2>1. job[i].slots >= 4 /\ Lies(i, Upto(i) - 4, 4)
    BY <1>1, <1>3 DEF Places
  <2> QED BY <1>2, <1>3, <2>1 DEF Lies
<1>5. \A i, k \in Elems(queue') : i < k => Upto(i)' <= Off'[job'[k].first]
  BY <1>1, <1>3 DEF Places
<1>6. sub.step # "idle" =>
        /\ Off[sub.first] <= Off[dma'.put] /\ \A i \in Elems(queue') : Upto(i)' <= Off[sub.first]
        /\ sub.used >= Filled(sub.i) /\ Lies(sub.job, Reach - Filled(sub.i), sub.i)'
  <2> SUFFICES ASSUME sub.step # "idle"
               PROVE  /\ Off[sub.first] <= Off[dma'.put] /\ \A i \in Elems(queue') : Upto(i)' <= Off[sub.first]
                      /\ sub.used >= Filled(sub.i) /\ Lies(sub.job, Reach - Filled(sub.i), sub.i)'
    OBVIOUS
  <2>1. Off[sub.first] <= Off[dma.put] /\ Off[sub.first] <= Reach
    BY <1>1 DEF Places, Marks, Starts
  <2>2. Off[sub.first] <= Off[dma'.put]
    BY <2>1 DEF Reach
  <2>3. Lies(sub.job, Reach - Filled(sub.i), sub.i)
    BY <1>1 DEF Places
  <2>4. Lies(sub.job, Reach - Filled(sub.i), sub.i)'
    BY <1>2, <2>3 DEF Lies, Filled
  <2> QED BY <1>1, <1>3, <2>2, <2>4 DEF Places
<1> QED BY <1>2, <1>4, <1>5, <1>6 DEF Places, Filled

\* Nothing is counted, and those that leave have done all.
LEMMA TallyKept ==
  ASSUME THyp, scene' = scene, \A j \in Job : Alike(j) /\ job'[j].cancelled = job[j].cancelled,
         \A s \in Syncpt : sp'[s].value = sp[s].value,
         \A j \in Job, o \in Commanded : Pending(j, o)' <=> Pending(j, o),
         \A j \in Job : Gone(j)' => Gone(j) \/ \A o \in Commanded : ~Pending(j, o)
  PROVE  Tally'
<1>1. Types /\ Tally
  BY TimeTypes
<1>2. \A j \in Job : Sp(j) \in Syncpt /\ Sp(j)' = Sp(j) /\ (Begun(j)' <=> Begun(j)) /\ Value(j)' = Value(j)
  BY <1>1, NumberTypes DEF Sp, Alike, Begun, Value
<1> SUFFICES ASSUME NEW j \in Job PROVE Exact(j)'
  BY DEF Tally
<1>3. Exact(j) /\ Alike(j)
  BY <1>1 DEF Tally
<1>4. {"work", "final"} \subseteq Commanded
  BY DEF Commanded
<1> QED BY <1>2, <1>3, <1>4 DEF Exact, Alike

\* The engine stays where it is.
LEMMA WaitsKept ==
  ASSUME OHyp, NEW c, Waits(c), scene' = scene, dma'.get = dma.get, dma'.on, dma'.put \in {dma.put, pb.pos},
         mem'[dma.get] = mem[dma.get]
  PROVE  Waits(c)'
<1>1. dma.get \in Positions /\ Ahead(dma.get)
  <2>1. dma.get \in Positions /\ Off[dma.get] \in Nat
    BY OrderTypes, AheadFacts
  <2> QED BY <2>1 DEF Ahead, Waits, At, Commanded
<1>2. dma.get # pb.pos
  <2>1. Off[dma.get] < Reach /\ Reach \in Nat
    BY <1>1, AheadFacts
  <2> QED BY <2>1 DEF Reach
<1> QED BY <1>2 DEF Waits, Busy, At

\* Fences that are signalled have been reached, and the CPU is told.
LEMMA TimingKept ==
  ASSUME THyp, UNCHANGED <<scene, queue, timer, handler, hung>>,
         \A j \in Job : /\ job'[j].timed = job[j].timed /\ job'[j].cancelled = job[j].cancelled
                        /\ job[j].expired => job'[j].expired,
         \A j \in Elems(queue) : job'[j].thresh = job[j].thresh,
         \A s \in Syncpt : sp[s].min <= sp'[s].min /\ sp'[s].min \in Nat,
         ~hung => \A j \in Elems(queue) :
                    \/ job'[j].fence = job[j].fence
                    \/ update' /\ sp'[Sp(j)].min >= job[j].thresh,
         update => update', ~hung /\ handler # 0 => Waits(handler)'
  PROVE  Timing'
<1>1. /\ Timing /\ Elems(queue) \subseteq Job /\ Types /\ Numbers /\ Turns /\ handler \in Job \cup {0}
      /\ Len(queue) \in Nat /\ queue \in Seq(Job)
  BY TimeTypes
<1>2. Elems(queue)' = Elems(queue) /\ \A j \in Job : Sp(j)' = Sp(j) /\ Sp(j) \in Syncpt
  BY <1>1, NumberTypes DEF Elems, Sp
<1>3. \A j \in Job : job'[j].timed
  BY <1>1 DEF Timing
<1>4. ASSUME ~hung PROVE Signalled'
  <2> SUFFICES ASSUME NEW j \in Elems(queue), ~job[j].cancelled, job'[j].fence # "pending"
               PROVE  sp'[Sp(j)].min >= job[j].thresh
    BY <1>1, <1>2 DEF Signalled
  <2>1. CASE job'[j].fence = job[j].fence
    <3>1. sp[Sp(j)].min >= job[j].thresh
      BY <1>1, <1>4, <2>1 DEF Timing, Signalled
    <3>2. sp[Sp(j)].min \in Nat /\ job[j].thresh \in Nat
      <4>1. Begun(j)
        BY <1>1 DEF Turns
      <4> QED BY <1>1, <1>2, <4>1, Between DEF Numbers, Numbered
    <3> QED BY <1>1, <1>2, <3>1, <3>2
  <2> QED BY <1>4, <2>1
<1>5. ASSUME ~hung PROVE Clock'
  <2>1. queue # <<>> => queue[1] \in Elems(queue)
    BY <1>1 DEF Elems
  <2>2. queue # <<>> /\ ~update' => job'[queue[1]].fence = "pending"
    BY <1>1, <1>5, <2>1 DEF Timing, Clock
  <2>3. handler # 0 => handler = timer.client /\ job'[handler].expired
    BY <1>1, <1>5 DEF Timing, Clock
  <2> QED BY <1>1, <1>5, <2>2, <2>3 DEF Timing, Clock
<1> QED BY <1>3, <1>4, <1>5 DEF Timing
\* A timer waits only while there are jobs, and so does its handler.
LEMMA HandlerWaits ==
  ASSUME THyp, ~hung, handler # 0
  PROVE  /\ queue # <<>> /\ handler = queue[1] /\ handler \in Job /\ Waits(handler) /\ handler = timer.client
         /\ handler \in Elems(queue)
<1>1. /\ Timing /\ CInv /\ handler \in Job \cup {0} /\ queue \in Seq(Job) /\ Len(queue) \in Nat
  BY TimeTypes
<1>2. handler = timer.client /\ Waits(handler)
  BY <1>1 DEF Timing, Clock
<1>3. queue # <<>>
  BY <1>1, <1>2 DEF CInv, Submission
<1>4. timer.client = queue[1]
  BY <1>1, <1>3 DEF Timing, Clock
<1> QED BY <1>1, <1>2, <1>3, <1>4 DEF Elems

\* Steps that touch neither the ring nor the queue.
LEMMA QuietTime ==
  ASSUME THyp, UNCHANGED <<scene, mem, queue, sub, hung, timer, handler>>, pb'.pos = pb.pos,
         dma'.get = dma.get, dma'.put = dma.put, dma.on /\ queue # <<>> => dma'.on,
         \A j \in Job : /\ Kept(j) /\ job'[j].cancelled = job[j].cancelled /\ job'[j].failed = job[j].failed
                        /\ job'[j].timed = job[j].timed /\ job'[j].expired = job[j].expired,
         \A s \in Syncpt : sp'[s].value = sp[s].value /\ sp'[s].min \in {sp[s].min, sp[s].value},
         ~hung => \A j \in Elems(queue) :
                    \/ job'[j].fence = job[j].fence
                    \/ update' /\ sp'[Sp(j)].min >= job[j].thresh,
         update => update'
  PROVE  Timely'
<1>1. /\ Types /\ Numbers /\ OwnTTL /\ OHyp /\ Elems(queue) \subseteq Job /\ handler \in Job \cup {0}
  BY TimeTypes
<1>2. \A j, o : Pending(j, o)' <=> Pending(j, o)
  BY PendingKept
<1>3. Elems(queue') = Elems(queue) /\ Elems(queue)' = Elems(queue)
  BY DEF Elems
<1>4. Places'
  BY <1>3, PlacesKept
<1>5. Tally'
  <2>1. \A j \in Job : Gone(j)' => Gone(j)
    BY <1>3 DEF Gone, Begun, Kept, Alike
  <2> QED BY <1>2, <2>1, TallyKept DEF Kept
<1>6. Timing'
  <2>1. \A s \in Syncpt : sp[s].min <= sp'[s].min /\ sp'[s].min \in Nat
    BY <1>1, Between
  <2>2. ASSUME ~hung, handler # 0 PROVE Waits(handler)'
    <3>1. queue # <<>> /\ Waits(handler)
      BY <2>2, HandlerWaits
    <3>2. dma'.on
      BY <3>1 DEF Waits, Busy
    <3> QED BY <1>1, <3>1, <3>2, WaitsKept
  <2>3. \A j \in Elems(queue) : job'[j].thresh = job[j].thresh
    BY <1>1 DEF Kept, Alike
  <2> QED BY <2>1, <2>2, <2>3, TimingKept
<1>7. OwnTTL'
  BY <1>1 DEF OwnTTL
<1> QED BY <1>4, <1>5, <1>6, <1>7 DEF Timely

\* Nothing happens.
LEMMA SameTime == ASSUME THyp, UNCHANGED vars PROVE Timely'
<1>1. \A s \in Syncpt : sp[s].min = sp[s].min
  OBVIOUS
<1>2. \A j \in Job : Kept(j)
  BY DEF Kept, Alike, Begun, vars
<1> QED BY <1>1, <1>2, QuietTime DEF vars

\* Threads that sleep and stop, and a submission that is refused.
LEMMA OtherTime ==
  ASSUME THyp, (\E j \in Job : Put(j) \/ (Begin(j) /\ sp[Sp(j)].locked)) \/ StopCall \/ StopCheck \/ StopWake
  PROVE  Timely'
<1>1. /\ UNCHANGED <<scene, sp, pb, mem, queue, sub, hung, timer, handler, update>> /\ job \in [Job -> Jobs]
      /\ dma'.get = dma.get /\ dma'.put = dma.put /\ (dma.on /\ queue # <<>> => dma'.on)
      /\ dma \in [get : Positions, put : Positions, on : BOOLEAN] /\ Elems(queue) \subseteq Job /\ Turns
  BY TimeTypes DEF Put, Begin, StopCall, StopCheck, StopWake
<1>2. \A i \in Job : /\ Kept(i) /\ job'[i].cancelled = job[i].cancelled /\ job'[i].failed = job[i].failed
                     /\ job'[i].timed = job[i].timed /\ job'[i].expired = job[i].expired
                     /\ i \in Elems(queue) => job'[i].fence = job[i].fence
  <2> SUFFICES ASSUME NEW i \in Job
               PROVE  /\ Kept(i) /\ job'[i].cancelled = job[i].cancelled /\ job'[i].failed = job[i].failed
                      /\ job'[i].timed = job[i].timed /\ job'[i].expired = job[i].expired
                      /\ i \in Elems(queue) => job'[i].fence = job[i].fence
    OBVIOUS
  <2>1. ASSUME NEW j \in Job, Put(j)
        PROVE  /\ Kept(i) /\ job'[i].cancelled = job[i].cancelled /\ job'[i].failed = job[i].failed
               /\ job'[i].timed = job[i].timed /\ job'[i].expired = job[i].expired
               /\ i \in Elems(queue) => job'[i].fence = job[i].fence
    <3>1. PICK x, y : /\ job' = [job EXCEPT ![j].step = x, ![j].fence = y] /\ x \in {"stuck", "done"}
                      /\ job[j].step = "held" /\ (Queued(j) => y = job[j].fence)
      BY <1>1, <2>1 DEF Put
    <3>2. j \in Elems(queue) => Queued(j)
      BY DEF Queued, Elems
    <3>3. job[i] \in Jobs /\ job[j] \in Jobs
      BY <1>1
    <3>4. job'[i] = IF i = j THEN [job[j] EXCEPT !.step = x, !.fence = y] ELSE job[i]
      BY <1>1, <3>1
    <3>5. CASE i # j
      BY <3>4, <3>5 DEF Kept, Alike, Begun
    <3>6. CASE i = j
      <4>1. /\ job'[i].step = x /\ job'[i].fence = y /\ job'[i].end = job[i].end /\ job'[i].thresh = job[i].thresh
            /\ job'[i].first = job[i].first /\ job'[i].slots = job[i].slots
            /\ job'[i].cancelled = job[i].cancelled /\ job'[i].failed = job[i].failed
            /\ job'[i].timed = job[i].timed /\ job'[i].expired = job[i].expired
        BY <3>3, <3>4, <3>6 DEF Jobs
      <4>2. x \notin {"new", "refused"} /\ x # "new"
        BY <3>1
      <4> QED BY <3>1, <3>2, <3>6, <4>1, <4>2 DEF Kept, Alike, Begun
    <3> QED BY <3>5, <3>6
  <2>2. ASSUME NEW j \in Job, Begin(j), sp[Sp(j)].locked
        PROVE  /\ Kept(i) /\ job'[i].cancelled = job[i].cancelled /\ job'[i].failed = job[i].failed
               /\ job'[i].timed = job[i].timed /\ job'[i].expired = job[i].expired
               /\ i \in Elems(queue) => job'[i].fence = job[i].fence
    <3>1. job' = [job EXCEPT ![j].step = "refused"] /\ job[j].step = "new"
      BY <2>2 DEF Begin
    <3>2. job[i] \in Jobs
      BY <1>1
    <3>3. job'[i] = IF i = j THEN [job[j] EXCEPT !.step = "refused"] ELSE job[i]
      BY <1>1, <3>1
    <3> QED BY <1>1, <3>1, <3>2, <3>3 DEF Kept, Alike, Begun, Jobs
  <2>3. CASE StopCall \/ StopCheck \/ StopWake
    BY <1>1, <2>3 DEF StopCall, StopCheck, StopWake, Kept, Alike, Begun
  <2> QED BY <2>1, <2>2, <2>3
<1> QED BY <1>1, <1>2, QuietTime

\* Fences, and those who read the counter.
LEMMA FencesTime ==
  ASSUME THyp, (\E s \in Syncpt : Interrupt(s) \/ Look(s)) \/ \E j \in Job : FenceGivesUp(j) PROVE Timely'
<1>1. /\ UNCHANGED <<scene, pb, mem, dma, queue, sub, hung, timer, handler>> /\ job \in [Job -> Jobs]
      /\ Elems(queue) \subseteq Job /\ Turns /\ Types /\ Numbers /\ NoWrap /\ Timing /\ "long" \notin env
      /\ sp \in [Syncpt -> [value : Int, min : Int, max : Int, locked : BOOLEAN]]
      /\ queue \in Seq(Job) /\ Len(queue) \in Nat /\ update \in BOOLEAN
  BY TimeTypes DEF Interrupt, Look, FenceGivesUp, FenceTimeout, Types
<1>2. ASSUME NEW F \in SUBSET Job,
             job' = [j \in Job |-> IF j \in F THEN [job[j] EXCEPT !.fence = "signalled"] ELSE job[j]]
      PROVE  \A i \in Job : /\ Kept(i) /\ job'[i].cancelled = job[i].cancelled /\ job'[i].failed = job[i].failed
                            /\ job'[i].timed = job[i].timed /\ job'[i].expired = job[i].expired
                            /\ i \notin F => job'[i].fence = job[i].fence
  <2> SUFFICES ASSUME NEW i \in Job
               PROVE  /\ Kept(i) /\ job'[i].cancelled = job[i].cancelled /\ job'[i].failed = job[i].failed
                      /\ job'[i].timed = job[i].timed /\ job'[i].expired = job[i].expired
                      /\ i \notin F => job'[i].fence = job[i].fence
    OBVIOUS
  <2>1. job[i] \in Jobs /\ job'[i] = IF i \in F THEN [job[i] EXCEPT !.fence = "signalled"] ELSE job[i]
    BY <1>1, <1>2
  <2> QED BY <2>1 DEF Kept, Alike, Begun, Jobs
<1>3. ASSUME NEW s \in Syncpt, Interrupt(s) PROVE Timely'
  <2>1. Load(s) /\ update'
    BY <1>3 DEF Interrupt
  <2>2. Due(s, sp[s].value) \in SUBSET Job
    BY DEF Due
  <2>3. \A i \in Job : /\ Kept(i) /\ job'[i].cancelled = job[i].cancelled /\ job'[i].failed = job[i].failed
                       /\ job'[i].timed = job[i].timed /\ job'[i].expired = job[i].expired
                       /\ i \notin Due(s, sp[s].value) => job'[i].fence = job[i].fence
    BY <1>2, <1>3, <2>2 DEF Interrupt
  <2>4. \A t \in Syncpt : sp'[t].value = sp[t].value /\ sp'[t].min \in {sp[t].min, sp[t].value}
    BY <1>1, <2>1 DEF Load
  <2>5. ASSUME NEW j \in Elems(queue), j \in Due(s, sp[s].value) PROVE sp'[Sp(j)].min >= job[j].thresh
    <3>1. j \in Job /\ Begun(j) /\ Sp(j) = s /\ Expired(sp[s].value, job[j].thresh)
      BY <1>1, <2>5 DEF Due, Turns
    <3>2. sp[s].value \in scene.from..sp[s].max
      BY <1>1, Between
    <3>3. sp[s].value >= job[j].thresh
      BY <1>1, <3>1, <3>2, ReachedThresh
    <3>4. sp'[s].min = sp[s].value
      BY <1>1, <2>1 DEF Load
    <3> QED BY <3>1, <3>3, <3>4
  <2>6. \A j \in Elems(queue) : job'[j].fence = job[j].fence \/ (update' /\ sp'[Sp(j)].min >= job[j].thresh)
    BY <1>1, <2>1, <2>3, <2>5
  <2> QED BY <1>1, <2>1, <2>3, <2>4, <2>6, QuietTime
<1>4. ASSUME NEW s \in Syncpt, Look(s) PROVE Timely'
  <2>1. Load(s) /\ UNCHANGED <<job, update>>
    BY <1>4 DEF Look
  <2>2. \A i \in Job : Kept(i)
    BY <2>1 DEF Kept, Alike, Begun
  <2>3. \A t \in Syncpt : sp'[t].value = sp[t].value /\ sp'[t].min \in {sp[t].min, sp[t].value}
    BY <1>1, <2>1 DEF Load
  <2> QED BY <1>1, <2>1, <2>2, <2>3, QuietTime
<1>5. ASSUME NEW j \in Job, FenceGivesUp(j) PROVE Timely'
  <2>1. /\ job' = [job EXCEPT ![j].fence = "signalled"] /\ update' /\ UNCHANGED sp
        /\ ~timer.pending /\ handler = 0
    BY <1>1, <1>5 DEF FenceGivesUp, FenceTimeout
  <2>2. job' = [i \in Job |-> IF i \in {j} THEN [job[i] EXCEPT !.fence = "signalled"] ELSE job[i]]
    BY <1>1, <2>1
  <2>3. \A i \in Job : /\ Kept(i) /\ job'[i].cancelled = job[i].cancelled /\ job'[i].failed = job[i].failed
                       /\ job'[i].timed = job[i].timed /\ job'[i].expired = job[i].expired
    BY <1>2, <2>2
  <2>4. ~hung => Elems(queue) = {}
    <3>1. ~hung => queue = <<>>
      BY <1>1, <2>1 DEF Timing, Clock
    <3>2. queue = <<>> => Elems(queue) = {}
      BY DEF Elems
    <3> QED BY <3>1, <3>2
  <2>5. \A t \in Syncpt : sp'[t].value = sp[t].value /\ sp'[t].min \in {sp[t].min, sp[t].value}
    BY <2>1
  <2> QED BY <1>1, <2>1, <2>3, <2>4, <2>5, QuietTime
<1> QED BY <1>3, <1>4, <1>5

\* A submission begins behind what the others have written.
LEMMA BeginTime == ASSUME THyp, NEW j \in Job, Begin(j), ~sp[Sp(j)].locked PROVE Timely'
<1>1. /\ Types /\ Numbers /\ Turns /\ Layout /\ Switches /\ CInv /\ OHyp /\ Places /\ Tally /\ Timing /\ OwnTTL
      /\ Elems(queue) \subseteq Job /\ job \in [Job -> Jobs]
      /\ dma \in [get : Positions, put : Positions, on : BOOLEAN]
  BY TimeTypes
<1>2. Enters(j)
  BY <1>1, TimeTypes, BeginEnters
<1>3. /\ scene' = scene /\ mem' = mem /\ queue' = queue /\ timer' = timer /\ pb' = pb
      /\ ~Begun(j) /\ sub.job = 0 /\ sub.step = "idle" /\ \A i \in Job \ {j} : job'[i] = job[i]
      /\ sub' = [step |-> "push", job |-> j, i |-> 1, free |-> 0, used |-> 0, first |-> pb.pos]
      /\ dma' = (IF dma.on THEN dma ELSE [get |-> pb.pos, put |-> pb.pos, on |-> TRUE])
      /\ \A s \in Syncpt : sp'[s].value = sp[s].value /\ sp'[s].min = sp[s].min
      /\ \A i \in Job : Spared(i)
  BY <1>2 DEF Enters
<1>4. /\ UNCHANGED <<handler, update, hung>>
      /\ \A i \in Job : job'[i].timed = job[i].timed /\ job'[i].expired = job[i].expired
  <2>1. job' = [job EXCEPT ![j].step = "submit", ![j].end = (sp[Sp(j)].max + 1) % CounterMod,
                           ![j].thresh = (sp[Sp(j)].max + 2) % CounterMod]
    BY DEF Begin
  <2> QED BY <1>1, <2>1 DEF Begin, Jobs
<1>5. /\ Elems(queue)' = Elems(queue) /\ Ring' = Ring /\ Positions' = Positions /\ Off' = Off /\ Reach' = Reach
      /\ \A i \in Job : Sp(i)' = Sp(i) /\ Sp(i) \in Syncpt
  BY <1>1, <1>3, NumberTypes DEF Elems, Ring, Positions, Off, Dist, Reach, Sp
<1>6. j \notin Elems(queue) /\ \A i \in Elems(queue) : job'[i] = job[i]
  BY <1>1, <1>3 DEF Turns
<1>7. Places'
  <2>1. \A i \in Elems(queue) : Upto(i)' = Upto(i) /\ Upto(i) <= Reach
    BY <1>1, <1>5, <1>6 DEF Upto, Layout
  <2>2. \A i \in Elems(queue) : ~job'[i].cancelled => job'[i].slots >= 4 /\ Lies(i, Upto(i) - 4, 4)'
    BY <1>1, <1>3, <1>5, <1>6, <2>1 DEF Places, Lies
  <2>3. \A i, k \in Elems(queue) : i < k => Upto(i)' <= Off'[job'[k].first]
    BY <1>1, <1>5, <1>6, <2>1 DEF Places
  <2>4. Off'[sub'.first] = Reach /\ Off'[dma'.put] = Reach /\ Reach \in Nat
    <3>1. sub'.first = pb.pos /\ dma'.put = pb.pos
      BY <1>1, <1>3 DEF Switches
    <3> QED BY <1>1, <1>5, <3>1, AheadFacts DEF Reach
  <2>5. sub'.used = 0 /\ sub'.i = 1 /\ sub'.used >= Filled(sub.i)'
    BY <1>3 DEF Filled
  <2>6. Lies(sub.job, Reach - Filled(sub.i), sub.i)'
    <3>1. \A o \in Commanded : ~(Rank[o] < 1)
      BY DEF Rank, Commanded
    <3> QED BY <2>5, <3>1 DEF Lies
  <2> QED BY <1>1, <1>5, <2>1, <2>2, <2>3, <2>4, <2>5, <2>6 DEF Places
<1>8. Tally'
  <2> SUFFICES ASSUME NEW p \in Job PROVE Exact(p)'
    BY DEF Tally
  <2>1. CASE p = j
    <3>1. ~Gone(j)' /\ \A o \in Commanded : Pending(j, o)'
      BY <1>3 DEF Gone, Pending, Rank, Commanded
    <3>2. {"work", "final"} \subseteq Commanded
      BY DEF Commanded
    <3> QED BY <2>1, <3>1, <3>2 DEF Exact
  <2>2. CASE p # j
    <3>1. job'[p] = job[p] /\ (Begun(p)' <=> Begun(p)) /\ Value(p)' = Value(p) /\ (Gone(p)' => Gone(p))
      BY <1>1, <1>2, <1>3, <1>5, <2>2, EntersPending DEF Begun, Value
    <3>2. \A o \in Commanded : /\ Pending(p, o)' => Pending(p, o)
                               /\ Pending(p, o) /\ ~Pending(p, o)' /\ Begun(p) => Gone(p)
      BY <1>1, <1>2, <2>2, EntersPending
    <3>3. Exact(p)
      BY <1>1 DEF Tally
    <3>4. {"work", "final"} \subseteq Commanded
      BY DEF Commanded
    <3> QED BY <3>1, <3>2, <3>3, <3>4 DEF Exact
  <2> QED BY <2>1, <2>2
<1>9. Timing'
  <2>1. \A s \in Syncpt : sp[s].min <= sp'[s].min /\ sp'[s].min \in Nat
    BY <1>1, <1>3, Between
  <2>2. ASSUME ~hung, handler # 0 PROVE Waits(handler)'
    <3>1. Waits(handler)
      BY <2>2, HandlerWaits
    <3>2. dma' = dma
      BY <1>3, <3>1 DEF Waits, Busy
    <3> QED BY <1>3, <1>4, <3>1, <3>2 DEF Waits, Busy, At
  <2> QED BY <1>1, <1>3, <1>4, <1>6, <2>1, <2>2, TimingKept DEF Spared
<1>10. OwnTTL'
  BY <1>1, <1>3, <1>4 DEF OwnTTL, Spared
<1> QED BY <1>7, <1>8, <1>9, <1>10 DEF Timely

\* What a submission pushes lies behind what it has pushed.
LEMMA PushedPlaces == ASSUME THyp, NEW ops, Pushing(ops) PROVE Places'
<1>1. /\ Types /\ Layout /\ Commands /\ Marks /\ CInv /\ OHyp /\ Places /\ WInv /\ Roomy /\ Budget
      /\ Elems(queue) \subseteq Job
      /\ sub.step = "push" /\ NextOps(ops) /\ Write(ops) /\ dma'.get = dma.get /\ dma'.put \in {dma.put, pb.pos}
      /\ scene' = scene /\ job' = job /\ queue' = queue
  BY TimeTypes DEF Pushing, OHyp, WInv
<1>2. PICK free : Pushed(free, Len(ops))
  BY DEF Pushing
<1>3. /\ sub.i \in 1..3 /\ Len(ops) \in Nat /\ sub.used \in Nat /\ Reach' = Reach + Len(ops) /\ Reach \in Nat
      /\ (sub.i = 1 /\ Len(ops) >= 2) \/ (sub.i # 1 /\ Len(ops) = 1)
      /\ \A k \in Positions : Off[k] \in Nat
  <2>1. sub.i \in 1..3 /\ Len(ops) \in 1..3 /\ sub.used \in Nat /\ Reach' = Reach + Len(ops)
    BY <1>1, Fits, WritesWhole DEF NextOps
  <2>2. (sub.i = 1 /\ Len(ops) \in 2..3) \/ (sub.i # 1 /\ Len(ops) = 1)
    BY <1>1 DEF NextOps
  <2>3. Reach \in Nat /\ \A k \in Positions : Off[k] \in Nat
    BY <1>1, AheadFacts
  <2> DEFINE n == Len(ops)
  <2>4. n \in Nat /\ ((sub.i = 1 /\ n >= 2) \/ (sub.i # 1 /\ n = 1))
    <3>1. n \in 1..3 /\ ((sub.i = 1 /\ n \in 2..3) \/ (sub.i # 1 /\ n = 1))
      BY <2>1, <2>2
    <3> HIDE DEF n
    <3> QED BY <3>1
  <2> QED BY <2>1, <2>3, <2>4
<1>4. sub'.i = sub.i + 1 /\ sub'.used = sub.used + Len(ops) /\ sub'.job = sub.job /\ sub'.first = sub.first
  <2>1. sub \in Subs
    BY <1>1, SubFacts
  <2> QED BY <1>2, <2>1 DEF Pushed, Subs
<1>5. PICK k0 : Command(k0) /\ Off[k0] + Ending(sub.i) = Reach + Len(ops)
  BY <1>1, WritesCommand
<1>6. /\ Elems(queue)' = Elems(queue) /\ Ring' = Ring /\ Positions' = Positions /\ Off' = Off
      /\ \A i : Upto(i)' = Upto(i)
  BY <1>1 DEF Elems, Ring, Positions, Off, Dist, Upto
<1>7. \A k \in Positions : mem[k].op \in Commanded => mem'[k] = mem[k]
  <2>1. k0 \in Positions /\ mem[k0].op \notin Commanded
    BY <1>1, <1>5 DEF Command, Commands, Commanded
  <2> QED BY <1>5, <2>1 DEF Command
<1>8. ASSUME NEW j, NEW b, NEW n, NEW o \in Commanded, Rank[o] < n, Lies(j, b, n)
      PROVE  \E k \in Positions : Off[k] = b + Place[o] /\ mem'[k] = [job |-> j, op |-> o]
  BY <1>7, <1>8 DEF Lies
<1>9. \A i \in Elems(queue) : ~job[i].cancelled => job[i].slots >= 4 /\ Lies(i, Upto(i) - 4, 4)'
  <2> SUFFICES ASSUME NEW i \in Elems(queue), ~job[i].cancelled
               PROVE  job[i].slots >= 4 /\ Lies(i, Upto(i) - 4, 4)'
    OBVIOUS
  <2>1. job[i].slots >= 4 /\ Lies(i, Upto(i) - 4, 4)
    BY <1>1 DEF Places
  <2>2. \A o \in Commanded : Rank[o] < 4 =>
          \E k \in Positions : Off[k] = Upto(i) - 4 + Place[o] /\ mem'[k] = [job |-> i, op |-> o]
    BY <1>8, <2>1
  <2>3. Upto(i)' = Upto(i)
    BY <1>6
  <2> QED BY <1>6, <2>1, <2>2, <2>3 DEF Lies
<1>10. Off[sub.first] <= Off[dma'.put] /\ \A i \in Elems(queue) : Upto(i) <= Off[sub.first]
  <2>1. Off[sub.first] <= Off[dma.put] /\ Off[sub.first] <= Reach
    BY <1>1 DEF Places, Marks, Starts
  <2> QED BY <1>1, <2>1 DEF Places, Reach
<1>11. sub'.used >= Filled(sub.i + 1)
  <2>1. sub.used >= Filled(sub.i)
    BY <1>1 DEF Places
  <2>2. CASE sub.i = 1
    BY <1>3, <1>4, <2>2 DEF Filled
  <2>3. CASE sub.i # 1
    <3>1. Filled(sub.i) = sub.i /\ Filled(sub.i + 1) = sub.i + 1
      BY <1>3, <2>3 DEF Filled
    <3>2. sub'.used = sub.used + 1
      BY <1>3, <1>4, <2>3
    <3>3. sub.used >= sub.i /\ sub.i \in 1..3 /\ sub.used \in Nat
      BY <1>3, <2>1, <3>1
    <3> QED BY <3>1, <3>2, <3>3
  <2> QED BY <2>2, <2>3
<1>12. ASSUME NEW o \in Commanded, Rank[o] < sub.i + 1
       PROVE  \E k \in Positions : /\ Off[k] = Reach + Len(ops) - Filled(sub.i + 1) + Place[o]
                                   /\ mem'[k] = [job |-> sub.job, op |-> o]
  <2>1. /\ Rank[o] \in 1..3 /\ (Rank[o] = sub.i => o = Ops[sub.i])
        /\ o = "work" => Rank[o] = 1 /\ Place[o] = 0
        /\ o # "work" => Rank[o] >= 2 /\ Place[o] = Rank[o]
    BY DEF Rank, Place, Commanded, Ops
  <2>2. CASE Rank[o] = sub.i
    <3>1. k0 \in Positions /\ mem'[k0] = [job |-> sub.job, op |-> o]
      BY <1>5, <2>1, <2>2 DEF Command
    <3>2. Off[k0] = Reach + Len(ops) - Filled(sub.i + 1) + Place[o]
      <4>1. Off[k0] + Ending(sub.i) = Reach + Len(ops) /\ Off[k0] \in Nat
        BY <1>3, <1>5, <3>1
      <4>2. Filled(sub.i + 1) - Place[o] = Ending(sub.i)
        BY <1>3, <2>1, <2>2 DEF Filled, Ending
      <4>3. Filled(sub.i + 1) \in Int /\ Place[o] \in Int
        BY <1>3, <2>1, <2>2 DEF Filled
      <4> QED BY <1>3, <4>1, <4>2, <4>3
    <3> QED BY <3>1, <3>2
  <2>3. CASE Rank[o] # sub.i
    <3>1. Rank[o] < sub.i /\ sub.i # 1
      BY <1>3, <1>12, <2>1, <2>3
    <3>2. Lies(sub.job, Reach - Filled(sub.i), sub.i)
      BY <1>1 DEF Places
    <3>3. \E k \in Positions : Off[k] = Reach - Filled(sub.i) + Place[o] /\ mem'[k] = [job |-> sub.job, op |-> o]
      BY <1>8, <3>1, <3>2
    <3>4. Reach - Filled(sub.i) = Reach + Len(ops) - Filled(sub.i + 1)
      <4>1. Filled(sub.i) = sub.i /\ Filled(sub.i + 1) = sub.i + 1
        BY <1>3, <3>1 DEF Filled
      <4>2. Len(ops) = 1 /\ sub.i \in Nat /\ Reach \in Nat
        BY <1>3, <3>1
      <4> HIDE DEF Reach
      <4> QED BY <4>1, <4>2
    <3> QED BY <3>3, <3>4
  <2> QED BY <2>2, <2>3
<1>13. Lies(sub.job, Reach - Filled(sub.i), sub.i)'
  BY <1>3, <1>4, <1>6, <1>12 DEF Lies, Filled
<1> QED BY <1>1, <1>4, <1>6, <1>9, <1>10, <1>11, <1>13 DEF Places, Filled

\* The engine, the CPU and the timer have nothing to do with it.
LEMMA PushTime == ASSUME THyp, PushWide \/ Push PROVE Timely'
<1>1. /\ Types /\ Numbers /\ OHyp /\ OwnTTL /\ Elems(queue) \subseteq Job
      /\ dma \in [get : Positions, put : Positions, on : BOOLEAN] /\ Layout /\ Commands
  BY TimeTypes
<1>2. PICK ops : Pushing(ops)
  BY <1>1, PushWideNext, PushNext
<1>3. /\ UNCHANGED <<scene, sp, job, queue, timer, handler, update, hung>> /\ dma'.get = dma.get /\ dma'.on = dma.on
      /\ sub.step = "push" /\ NextOps(ops) /\ Write(ops) /\ dma'.put \in {dma.put, pb.pos}
  BY <1>2 DEF Pushing
<1>4. PICK free : Pushed(free, Len(ops))
  BY <1>2 DEF Pushing
<1>5. \A j \in Job, x \in Commanded : Pending(j, x)' <=> Pending(j, x)
  BY <1>1, <1>3, <1>4, PushedFacts
<1>6. Ahead(dma.get) /\ dma.get \in Positions => mem'[dma.get] = mem[dma.get]
  <2>1. PICK k0 : /\ Command(k0) /\ ~Ahead(k0)
                  /\ \A k \in Positions : k # k0 => (Ahead(k) => mem'[k] = mem[k])
    BY <1>1, <1>3, <1>4, PushedFacts
  <2> QED BY <2>1
<1>7. Tally'
  <2>1. \A j \in Job : Alike(j)
    BY <1>3 DEF Alike, Begun
  <2>2. sub'.job = sub.job
    <3>1. sub \in Subs
      BY <1>1, <1>3, SubFacts DEF OHyp
    <3> QED BY <1>4, <3>1 DEF Pushed, Subs
  <2>3. \A j \in Job : Gone(j)' => Gone(j)
    BY <1>3, <2>2 DEF Gone, Begun, Elems
  <2> QED BY <1>3, <1>5, <2>1, <2>3, TallyKept
<1>8. Timing'
  <2>1. \A s \in Syncpt : sp[s].min <= sp'[s].min /\ sp'[s].min \in Nat
    BY <1>1, <1>3, Between
  <2>2. ASSUME ~hung, handler # 0 PROVE Waits(handler)'
    <3>1. Waits(handler)
      BY <2>2, HandlerWaits
    <3>2. Ahead(dma.get) /\ dma.get \in Positions
      <4>1. dma.get \in Positions /\ Off[dma.get] \in Nat
        BY <1>1, AheadFacts
      <4> QED BY <3>1, <4>1 DEF Ahead, Waits, At, Commanded
    <3>3. dma'.on /\ mem'[dma.get] = mem[dma.get]
      BY <1>3, <1>6, <3>1, <3>2 DEF Waits, Busy
    <3>4. \A c : Waits(c) => Waits(c)'
      BY <1>1, <1>3, <3>3, WaitsKept
    <3> QED BY <1>3, <3>1, <3>4 DEF Waits, Busy, At
  <2> QED BY <1>3, <2>1, <2>2, TimingKept
<1>9. OwnTTL'
  BY <1>1, <1>3 DEF OwnTTL
<1> QED BY <1>2, <1>7, <1>8, <1>9, PushedPlaces DEF Timely

\* What host1x_cdma_end() leaves.
LEMMA EndFacts ==
  ASSUME THyp, End
  PROVE  LET j == sub.job IN
    /\ sub.step = "end" /\ sub.i = 4 /\ j \in Job /\ Begun(j) /\ j \notin Elems(queue)
    /\ \A p \in Job : Begun(p) => p <= j
    /\ dma'.get = dma.get /\ dma'.put = pb.pos /\ dma'.on = dma.on
    /\ UNCHANGED <<scene, pb, mem, sp, handler, hung>>
    /\ sub'.step = "idle" /\ sub'.job = 0
    /\ Elems(queue') = Elems(queue) \cup {j} /\ queue' # <<>>
    /\ queue = <<>> => queue'[1] = j /\ timer' = [client |-> j, pending |-> TRUE]
    /\ queue # <<>> => queue'[1] = queue[1] /\ queue[1] \in Elems(queue) /\ timer' = timer
    /\ \A i \in Job \ {j} : job'[i] = job[i]
    /\ \A i \in Job : /\ Alike(i) /\ job'[i].cancelled = job[i].cancelled /\ job'[i].failed = job[i].failed
                      /\ job'[i].timed = job[i].timed /\ job'[i].expired = job[i].expired
    /\ job'[j].first = sub.first /\ job'[j].slots = sub.used
    /\ job'[j].fence # "pending" => job'[j].fence = "missed" /\ Expired(sp[Sp(j)].min, job[j].thresh) /\ update'
    /\ update => update'
<1> DEFINE j == sub.job
           missed == Expired(sp[Sp(j)].min, job[j].thresh)
<1>1. /\ Types /\ Turns /\ Switches /\ CInv /\ Elems(queue) \subseteq Job /\ queue \in Seq(Job) /\ Len(queue) \in Nat
      /\ job \in [Job -> Jobs] /\ dma \in [get : Positions, put : Positions, on : BOOLEAN]
      /\ timer \in [client : Job \cup {0}, pending : BOOLEAN]
  BY TimeTypes
<1>2. /\ sub.step = "end" /\ dma' = [dma EXCEPT !.put = pb.pos] /\ queue' = Append(queue, j)
      /\ sub' = [step |-> "idle", job |-> 0, i |-> 0, free |-> 0, used |-> 0, first |-> 0]
      /\ UNCHANGED <<scene, pb, mem, sp, handler, hung>>
      /\ timer' = IF queue = <<>> /\ timer.client = 0 THEN [client |-> j, pending |-> TRUE] ELSE timer
      /\ update' = (update \/ missed)
  BY DEF End, Flush
<1>3. /\ j \in Job /\ sub.i = 4 /\ Begun(j) /\ \A p \in Job : Begun(p) => p <= j
      /\ j \notin Elems(queue)
  BY <1>1, <1>2, ReachFacts DEF Switches, Turns
<1>4. /\ Elems(queue') = Elems(queue) \cup {j} /\ Len(queue') = Len(queue) + 1
      /\ queue'[Len(queue) + 1] = j /\ \A i \in 1..Len(queue) : queue'[i] = queue[i]
  BY <1>1, <1>2, <1>3, AppendFacts, AppendProperties
<1>5. job' = [job EXCEPT ![j] = [@ EXCEPT !.step = "held", !.first = sub.first, !.slots = sub.used,
                                          !.fence = IF missed THEN "missed" ELSE "pending"]]
  BY DEF End
<1> HIDE DEF missed
<1>6. ASSUME NEW i \in Job
      PROVE  /\ i # j => job'[i] = job[i]
             /\ Alike(i) /\ job'[i].cancelled = job[i].cancelled /\ job'[i].failed = job[i].failed
             /\ job'[i].timed = job[i].timed /\ job'[i].expired = job[i].expired
             /\ i = j => /\ job'[i].first = sub.first /\ job'[i].slots = sub.used
                         /\ job'[i].fence = IF missed THEN "missed" ELSE "pending"
  <2>1. CASE i # j
    <3>1. job'[i] = job[i]
      BY <1>1, <1>5, <2>1
    <3> QED BY <2>1, <3>1 DEF Alike, Begun
  <2>2. CASE i = j
    <3>1. job[j] \in Jobs
      BY <1>1, <1>3
    <3>2. /\ job'[j].step = "held" /\ job'[j].end = job[j].end /\ job'[j].thresh = job[j].thresh
          /\ job'[j].first = sub.first /\ job'[j].slots = sub.used
          /\ job'[j].cancelled = job[j].cancelled /\ job'[j].failed = job[j].failed
          /\ job'[j].timed = job[j].timed /\ job'[j].expired = job[j].expired
          /\ job'[j].fence = IF missed THEN "missed" ELSE "pending"
      BY <1>1, <1>3, <1>5, <3>1 DEF Jobs
    <3> QED BY <1>3, <2>2, <3>2 DEF Alike, Begun
  <2> QED BY <2>1, <2>2
<1> HIDE DEF j
<1>7. queue' # <<>>
  <2>1. queue' # <<>>
    BY <1>1, <1>4
  <2> QED BY <2>1
<1>8. queue = <<>> => queue'[1] = j /\ timer' = [client |-> j, pending |-> TRUE]
  <2>1. queue = <<>> => Len(queue) = 0 /\ timer.client = 0
    BY <1>1 DEF CInv, Submission
  <2> QED BY <1>2, <1>4, <2>1
<1>9. queue # <<>> => queue'[1] = queue[1] /\ queue[1] \in Elems(queue) /\ timer' = timer
  <2>1. queue # <<>> => 1 \in 1..Len(queue)
    BY <1>1
  <2> QED BY <1>2, <1>4, <2>1 DEF Elems
<1>10. dma'.get = dma.get /\ dma'.put = pb.pos /\ dma'.on = dma.on /\ sub'.step = "idle" /\ sub'.job = 0
  BY <1>1, <1>2
<1>11. job'[j].fence # "pending" => job'[j].fence = "missed" /\ missed /\ update'
  BY <1>2, <1>3, <1>6
<1>12. update => update'
  BY <1>2
<1>13. \A i \in Job \ {j} : job'[i] = job[i]
  BY <1>6
<1>14. \A i \in Job : /\ Alike(i) /\ job'[i].cancelled = job[i].cancelled /\ job'[i].failed = job[i].failed
                      /\ job'[i].timed = job[i].timed /\ job'[i].expired = job[i].expired
  BY <1>6
<1>15. job'[j].first = sub.first /\ job'[j].slots = sub.used
  BY <1>3, <1>6
<1> QED BY <1>2, <1>3, <1>4, <1>7, <1>8, <1>9, <1>10, <1>11, <1>12, <1>13, <1>14, <1>15 DEF j, missed

\* The job lies where it was pushed, behind those before it.
LEMMA EndPlaces == ASSUME THyp, End PROVE Places'
<1>0. PICK j \in Job : j = sub.job
  BY EndFacts
<1>1. /\ Types /\ Marks /\ CInv /\ OHyp /\ Places /\ Budget /\ Turns /\ Elems(queue) \subseteq Job
      /\ job \in [Job -> Jobs]
  BY TimeTypes DEF OHyp, WInv
<1>2. /\ sub.step = "end" /\ sub.i = 4 /\ j \in Job /\ j \notin Elems(queue)
      /\ \A p \in Job : Begun(p) => p <= j
      /\ scene' = scene /\ mem' = mem /\ sub'.step = "idle" /\ Elems(queue') = Elems(queue) \cup {j}
      /\ \A i \in Job \ {j} : job'[i] = job[i]
      /\ \A i \in Job : job'[i].cancelled = job[i].cancelled
      /\ job'[j].first = sub.first /\ job'[j].slots = sub.used
  BY <1>0, EndFacts
<1>3. Ring' = Ring /\ Positions' = Positions /\ Off' = Off /\ Elems(queue)' = Elems(queue) \cup {j}
  BY <1>2 DEF Ring, Positions, Off, Dist, Elems
<1>4. /\ Off[sub.first] + sub.used = Reach /\ sub.used \in Nat /\ Reach \in Nat /\ sub.used >= 4
      /\ Filled(sub.i) = 4
  <2>1. sub.used <= 5 /\ sub.used \in Nat
    BY <1>1, <1>2, SubFacts DEF Budget, Subs
  <2>2. Off[sub.first] + sub.used = Reach /\ Reach \in Nat
    BY <1>1, <1>2, <2>1, SubmissionEnds, AheadFacts
  <2>3. Filled(sub.i) = 4
    BY <1>2 DEF Filled
  <2> QED BY <1>1, <1>2, <2>1, <2>2, <2>3 DEF Places
<1>5. Upto(j)' = Reach /\ Lies(j, Reach - 4, 4)
  <2>1. Upto(j)' = Reach
    BY <1>2, <1>3, <1>4 DEF Upto
  <2>2. Lies(j, Reach - 4, 4)
    BY <1>0, <1>1, <1>2, <1>4 DEF Places
  <2> QED BY <2>1, <2>2
<1>6. \A i \in Elems(queue) : job'[i] = job[i] /\ Upto(i)' = Upto(i) /\ Upto(i) <= Off[sub.first]
  <2>1. \A i \in Elems(queue) : job'[i] = job[i]
    BY <1>1, <1>2
  <2> QED BY <1>1, <1>2, <1>3, <2>1 DEF Upto, Places
<1>7. ASSUME NEW i \in Elems(queue) \cup {j}, ~job'[i].cancelled
      PROVE  job'[i].slots >= 4 /\ Lies(i, Upto(i) - 4, 4)'
  <2>1. CASE i = j
    <3>1. Lies(j, Upto(j) - 4, 4)'
      BY <1>2, <1>3, <1>5 DEF Lies
    <3> QED BY <1>2, <1>4, <2>1, <3>1
  <2>2. CASE i # j
    <3>1. i \in Elems(queue) /\ job'[i] = job[i] /\ Upto(i)' = Upto(i)
      BY <1>6, <1>7, <2>2
    <3>2. job[i].slots >= 4 /\ Lies(i, Upto(i) - 4, 4)
      BY <1>1, <1>7, <3>1 DEF Places
    <3> QED BY <1>2, <1>3, <3>1, <3>2 DEF Lies
  <2> QED BY <2>1, <2>2
<1>8. ASSUME NEW i \in Elems(queue) \cup {j}, NEW k \in Elems(queue) \cup {j}, i < k
      PROVE  Upto(i)' <= Off[job'[k].first]
  <2>1. i \in Elems(queue)
    <3>1. (k \in Job /\ Begun(k)) \/ k = j
      BY <1>1 DEF Turns
    <3>2. k <= j /\ j \in Nat /\ k \in Nat
      BY <1>1, <1>2, <3>1, NumberTypes
    <3> QED BY <1>8, <3>2
  <2>2. CASE k = j
    BY <1>2, <1>6, <2>1, <2>2
  <2>3. CASE k # j
    <3>1. k \in Elems(queue) /\ job'[k] = job[k] /\ Upto(i)' = Upto(i)
      BY <1>6, <2>1, <2>3
    <3> QED BY <1>1, <1>8, <2>1, <3>1 DEF Places
  <2> QED BY <2>2, <2>3
<1> QED BY <1>2, <1>3, <1>7, <1>8 DEF Places

\* There is a timer for it if it is the first.
LEMMA EndTime == ASSUME THyp, End PROVE Timely'
<1> DEFINE j == sub.job
<1>1. /\ Types /\ Numbers /\ Turns /\ CInv /\ OHyp /\ NoWrap /\ OwnTTL /\ Timing /\ Elems(queue) \subseteq Job
      /\ handler \in Job \cup {0}
  BY TimeTypes
<1>2. /\ sub.step = "end" /\ sub.i = 4 /\ j \in Job /\ Begun(j) /\ j \notin Elems(queue)
      /\ dma'.get = dma.get /\ dma'.put = pb.pos /\ dma'.on = dma.on
      /\ UNCHANGED <<scene, pb, mem, sp, handler, hung>>
      /\ sub'.job = 0 /\ Elems(queue') = Elems(queue) \cup {j} /\ queue' # <<>>
  BY EndFacts
<1>3. /\ queue = <<>> => queue'[1] = j /\ timer' = [client |-> j, pending |-> TRUE]
      /\ queue # <<>> => queue'[1] = queue[1] /\ queue[1] \in Elems(queue) /\ timer' = timer
  BY EndFacts
<1>4. /\ \A i \in Job \ {j} : job'[i] = job[i]
      /\ \A i \in Job : /\ Alike(i) /\ job'[i].cancelled = job[i].cancelled /\ job'[i].failed = job[i].failed
                        /\ job'[i].timed = job[i].timed /\ job'[i].expired = job[i].expired
      /\ job'[j].fence # "pending" => Expired(sp[Sp(j)].min, job[j].thresh) /\ update'
      /\ update => update'
  BY EndFacts
<1>5. Elems(queue)' = Elems(queue) \cup {j} /\ \A k : Ahead(k)' <=> Ahead(k)
  BY <1>2 DEF Elems, Ahead, Ring, Positions, Off, Dist
<1>6. \A p \in Job : p \in Nat /\ p # 0 /\ Sp(p) \in Syncpt /\ Sp(p)' = Sp(p)
  BY <1>1, <1>2, NumberTypes DEF Sp
<1>7. Tally'
  <2>1. Positions' = Positions
    BY <1>2 DEF Ring, Positions
  <2>2. ASSUME NEW p \in Job, NEW o \in Commanded PROVE Pending(p, o)' <=> Pending(p, o)
    <3>1. ~(Rank[o] >= sub.i) /\ sub'.job # p
      BY <1>2, <1>6 DEF Commanded, Rank
    <3> QED BY <1>2, <1>5, <2>1, <3>1 DEF Pending
  <2>3. \A p \in Job : Gone(p)' => Gone(p)
    BY <1>4, <1>5, <1>6 DEF Gone, Alike, Begun
  <2> QED BY <1>2, <1>4, <2>2, <2>3, TallyKept
<1> HIDE DEF j
<1>8. ASSUME ~hung PROVE Signalled'
  <2> SUFFICES ASSUME NEW i \in Elems(queue) \cup {j}, ~job'[i].cancelled, job'[i].fence # "pending"
               PROVE  sp[Sp(i)].min >= job'[i].thresh
    BY <1>1, <1>2, <1>5, <1>6 DEF Signalled
  <2>1. CASE i = j
    <3>1. sp[Sp(j)].min \in scene.from..sp[Sp(j)].max
      BY <1>1, <1>2, <1>6, Between
    <3>2. sp[Sp(j)].min >= job[j].end + 1 /\ job[j].thresh = job[j].end + 1
      BY <1>1, <1>2, <1>4, <2>1, <3>1, ReachedThresh
    <3> QED BY <1>2, <1>4, <2>1, <3>2 DEF Alike
  <2>2. CASE i # j
    <3>1. i \in Elems(queue) /\ job'[i] = job[i]
      BY <1>1, <1>4, <2>2
    <3> QED BY <1>1, <1>8, <3>1 DEF Timing, Signalled
  <2> QED BY <2>1, <2>2
<1>9. ASSUME ~hung PROVE Clock'
  <2>1. Clock
    BY <1>1, <1>9 DEF Timing
  <2>2. queue = <<>> => handler = 0
    BY <1>9, HandlerWaits
  <2>3. handler # 0 => queue # <<>> /\ Waits(handler) /\ handler = timer.client /\ job[handler].expired
    BY <1>9, <2>1, HandlerWaits DEF Clock
  <2>4. handler # 0 => Waits(handler)'
    <3>1. mem'[dma.get] = mem[dma.get] /\ dma'.put \in {dma.put, pb.pos}
      BY <1>2
    <3>2. handler # 0 => dma'.on
      BY <1>2, <2>3 DEF Waits, Busy
    <3>3. \A c : handler # 0 /\ Waits(c) => Waits(c)'
      BY <1>1, <1>2, <3>1, <3>2, WaitsKept
    <3>4. handler' = handler
      BY <1>2
    <3> QED BY <2>3, <3>3, <3>4 DEF Waits, Busy, At
  <2>5. timer'.client = queue'[1] /\ (timer'.pending <=> handler = 0) /\ timer'.client # 0
    <3>1. CASE queue = <<>>
      BY <1>2, <1>3, <1>6, <2>2, <3>1
    <3>2. CASE queue # <<>>
      BY <1>1, <1>3, <1>6, <2>1, <3>2 DEF Clock
    <3> QED BY <3>1, <3>2
  <2>6. ~update' => job'[queue'[1]].fence = "pending"
    <3>1. CASE queue = <<>>
      BY <1>3, <1>4, <3>1
    <3>2. CASE queue # <<>>
      <4>1. queue'[1] = queue[1] /\ queue[1] \in Elems(queue)
        BY <1>3, <3>2
      <4>2. job'[queue[1]] = job[queue[1]]
        BY <1>1, <1>2, <1>4, <4>1
      <4> QED BY <1>4, <2>1, <3>2, <4>1, <4>2 DEF Clock
    <3> QED BY <3>1, <3>2
  <2>7. handler # 0 => handler = timer'.client /\ job'[handler].expired
    BY <1>1, <1>3, <1>4, <2>3
  <2> QED BY <1>2, <2>4, <2>5, <2>6, <2>7 DEF Clock
<1>10. Timing'
  BY <1>1, <1>2, <1>4, <1>8, <1>9 DEF Timing
<1>11. OwnTTL'
  BY <1>1, <1>4 DEF OwnTTL
<1> QED BY <1>7, <1>10, <1>11, EndPlaces DEF Timely

-----------------------------------------------------------------------------
(* Where the engine is.                                                    *)

\* What has begun before the first job of the queue has left it.
LEMMA FirstQueued ==
  ASSUME THyp, NEW c, queue # <<>>, queue[1] = c
  PROVE  /\ c \in Elems(queue) /\ c \in Job /\ Begun(c) /\ c # sub.job /\ 1 \in 1..Len(queue)
         /\ \A p \in Job : Begun(p) /\ p < c => Gone(p)
<1>1. Turns /\ Types /\ CInv /\ queue \in Seq(Job) /\ Len(queue) \in Nat /\ Elems(queue) \subseteq Job
  BY TimeTypes
<1>2. 1 \in 1..Len(queue) /\ c \in Elems(queue) /\ c \in Job
  <2>1. 1 \in 1..Len(queue)
    BY <1>1
  <2> QED BY <1>1, <2>1 DEF Elems
<1>3. Begun(c) /\ c # sub.job /\ \A p \in Job : p \in Nat /\ p # 0
  BY <1>1, <1>2, NumberTypes DEF Turns
<1>4. ASSUME NEW p \in Job, Begun(p), p < c PROVE Gone(p)
  <2>1. p \notin Elems(queue)
    <3> SUFFICES ASSUME p \in Elems(queue) PROVE FALSE
      OBVIOUS
    <3>1. PICK i \in 1..Len(queue) : p = queue[i]
      BY DEF Elems
    <3>2. 1 < i
      BY <1>1, <1>2, <1>3, <1>4, <3>1
    <3>3. c < p
      BY <1>1, <1>2, <3>1, <3>2 DEF Turns
    <3> QED BY <1>2, <1>3, <1>4, <3>3
  <2>2. p # sub.job
    <3>1. sub.job = p => c <= p
      BY <1>1, <1>2, <1>3 DEF Turns, CInv, Submission
    <3> QED BY <1>2, <1>3, <1>4, <3>1
  <2> QED BY <1>4, <2>1, <2>2 DEF Gone
<1> QED BY <1>2, <1>3, <1>4

\* What is queued has been handed over, and a job's slots lie from its first one on.
LEMMA QueuedLies ==
  ASSUME THyp, NEW i \in Elems(queue)
  PROVE  /\ i \in Job /\ Upto(i) <= Off[dma.put] /\ Upto(i) <= Reach /\ Upto(i) \in Nat /\ Off[dma.put] \in Nat
         /\ Off[job[i].first] \in Nat /\ job[i].slots \in Nat /\ job[i].first \in Positions
         /\ dma.get \in Positions /\ dma.put \in Positions /\ dma.on /\ Reach \in 0..(Ring - 1) /\ Ring \in Nat
         /\ \A k \in Positions : Off[k] \in Nat
         /\ ~job[i].cancelled =>
              /\ job[i].slots >= 4
              /\ \A o \in Commanded : \E k \in Positions : /\ Off[k] = Upto(i) - 4 + Place[o]
                                                          /\ mem[k] = [job |-> i, op |-> o]
<1>1. /\ Types /\ Layout /\ Switches /\ Places /\ OHyp /\ CInv /\ Elems(queue) \subseteq Job /\ job \in [Job -> Jobs]
      /\ dma \in [get : Positions, put : Positions, on : BOOLEAN] /\ queue \in Seq(Job)
  BY TimeTypes
<1>2. /\ \A k \in Positions : Off[k] \in Nat
      /\ Reach \in 0..(Ring - 1) /\ Ring \in Nat
  BY <1>1, AheadFacts, ReachFacts
<1>3. i \in Job /\ job[i] \in Jobs /\ queue # <<>>
  <2>1. queue = <<>> => Elems(queue) = {}
    BY DEF Elems
  <2> QED BY <1>1, <2>1
<1>4. job[i].first \in Positions /\ job[i].slots \in Nat
  BY <1>3 DEF Jobs
<1>5. dma.get \in Positions /\ dma.put \in Positions /\ dma.on
  BY <1>1, <1>3 DEF Switches
<1>6. Upto(i) <= Reach
  BY <1>1 DEF Layout, Upto
<1>7. Upto(i) \in Nat
  BY <1>2, <1>4 DEF Upto
<1>8. Upto(i) <= Off[dma.put]
  <2>1. CASE sub.step = "idle"
    BY <1>1, <1>6, <2>1 DEF Switches, Reach
  <2>2. CASE sub.step # "idle"
    <3>1. Off[sub.first] <= Off[dma.put] /\ Upto(i) <= Off[sub.first] /\ sub.first \in Positions
      BY <1>1, <2>2 DEF Places, Types
    <3>2. Off[sub.first] \in Nat /\ Off[dma.put] \in Nat
      BY <1>2, <1>5, <3>1
    <3> QED BY <1>7, <3>1, <3>2
  <2> QED BY <2>1, <2>2
<1>9. ~job[i].cancelled =>
        /\ job[i].slots >= 4
        /\ \A o \in Commanded : \E k \in Positions : /\ Off[k] = Upto(i) - 4 + Place[o]
                                                    /\ mem[k] = [job |-> i, op |-> o]
  <2>1. \A o \in Commanded : Rank[o] < 4
    BY DEF Commanded, Rank
  <2> QED BY <1>1, <2>1 DEF Places, Lies
<1> QED BY <1>2, <1>3, <1>4, <1>5, <1>6, <1>7, <1>8, <1>9

\* What is ahead of a queued job's has the engine at work.
LEMMA QueuedBusy ==
  ASSUME THyp, NEW i \in Elems(queue), NEW k \in Positions, Ahead(k), mem[k].job = i
  PROVE  Busy /\ Off[job[i].first] <= Off[k] /\ Off[k] < Upto(i)
<1>1. /\ Layout /\ OHyp /\ Types
  BY TimeTypes
<1>2. /\ i \in Job /\ Upto(i) <= Off[dma.put] /\ Upto(i) \in Nat /\ Off[dma.put] \in Nat
      /\ Off[job[i].first] \in Nat /\ job[i].slots \in Nat /\ job[i].first \in Positions
      /\ dma.get \in Positions /\ dma.on /\ Off[k] \in Nat /\ Off[dma.get] \in Nat
  BY QueuedLies
<1>3. Off[job[i].first] <= Off[k]
  <2>1. i \in Nat
    BY <1>1, <1>2, NumberTypes
  <2> QED BY <1>1, <1>2, <2>1 DEF Layout, Region
<1>4. Dist(k, job[i].first) < job[i].slots
  BY <1>1 DEF Layout, Harmless
<1>5. Off[k] < Upto(i)
  <2>1. Dist(k, job[i].first) = Off[k] - Off[job[i].first]
    BY <1>1, <1>2, <1>3, WalkDist
  <2> QED BY <1>2, <1>4, <2>1 DEF Upto
<1>6. dma.get # dma.put
  BY <1>2, <1>5 DEF Ahead
<1> QED BY <1>2, <1>3, <1>5, <1>6 DEF Busy

\* A job that has come to its end when the CPU looks has nothing left to do.
LEMMA LeavesDone ==
  ASSUME THyp, Settled, NEW j \in Elems(queue), ~job[j].cancelled, Value(j) >= job[j].end
  PROVE  \A o \in Commanded : ~Pending(j, o)
<1>1. /\ Types /\ Numbers /\ Turns /\ Progress /\ Layout /\ Marks /\ Commands /\ CInv /\ OHyp /\ Tally /\ NoWrap
      /\ "late" \notin env /\ Submission
  BY TimeTypes
<1>2. /\ j \in Job /\ Begun(j) /\ j # sub.job /\ Sp(j) \in Syncpt /\ Told(j) /\ Exact(j)
      /\ Value(j) \in scene.from..sp[Sp(j)].max /\ Value(j) \in Nat /\ job[j].end \in Nat
  <2>1. j \in Job /\ Begun(j) /\ j # sub.job
    BY <1>1, QueuedLies DEF Turns
  <2> QED BY <1>1, <2>1, NumberTypes, Between DEF Progress, Tally, Value, Numbers, Numbered
<1>3. ~Pending(j, "work")
  BY <1>2 DEF Told
<1>4. /\ Upto(j) \in Nat /\ dma.get \in Positions /\ \A k \in Positions : Off[k] \in Nat
      /\ job[j].slots >= 4 /\ job[j].slots \in Nat /\ Off[job[j].first] \in Nat
      /\ \A o \in Commanded : \E k \in Positions : /\ Off[k] = Upto(j) - 4 + Place[o]
                                                  /\ mem[k] = [job |-> j, op |-> o]
  BY QueuedLies
<1>5. /\ Commanded = {"work", "final", "release"} /\ Place["work"] = 0 /\ Place["final"] = 2 /\ Place["release"] = 3
      /\ Rank["work"] = 1 /\ Rank["final"] = 2 /\ Rank["release"] = 3
  BY DEF Commanded, Place, Rank
<1> SUFFICES ASSUME NEW o \in Commanded, Pending(j, o) PROVE FALSE
  OBVIOUS
<1>6. PICK k \in Positions : Ahead(k) /\ mem[k] = [job |-> j, op |-> o]
  BY <1>2 DEF Pending
<1>7. Busy /\ Off[k] < Upto(j)
  BY <1>6, QueuedBusy
<1>8. PICK w \in Positions : Off[w] = Upto(j) - 4 /\ mem[w] = [job |-> j, op |-> "work"]
  BY <1>4, <1>5
<1>9. Off[w] < Off[dma.get]
  <2>1. ~Ahead(w)
    BY <1>3, <1>8 DEF Pending
  <2>2. mem[w].op \in Commanded
    BY <1>5, <1>8
  <2> QED BY <1>4, <2>1, <2>2 DEF Ahead
<1>10. Off[dma.get] # Off[w] + 1
  <2>1. w + 1 \in Positions /\ mem[w + 1].op = "arg" /\ mem[dma.get].op # "arg"
    BY <1>1, <1>8 DEF Commands, Marks, Fetching, Starts
  <2>2. Off[w + 1] = Off[w] + 1
    <3>1. Off[w] < Ring - 1 /\ Ring \in Nat /\ Ring > 5
      BY <1>1, <1>4, <1>7, <1>8, <1>9, OffFacts
    <3>2. After(w) = w + 1
      <4>1. w \in 0..(Ring - 1) /\ w + 1 \in 0..(Ring - 1)
        BY <2>1 DEF Positions
      <4> QED BY <3>1, <4>1 DEF After
    <3> QED BY <1>1, <3>1, <3>2, NextOff
  <2>3. dma.get # w + 1
    BY <2>1
  <2> QED BY <1>1, <1>4, <2>1, <2>2, <2>3, OffOne
<1>11. Off[dma.get] = Upto(j) - 2 \/ Off[dma.get] = Upto(j) - 1
  <2>1. Off[dma.get] <= Off[k] /\ Off[k] \in Nat /\ Off[dma.get] \in Nat /\ Off[w] \in Nat
    BY <1>4, <1>6 DEF Ahead
  <2> QED BY <1>4, <1>7, <1>8, <1>9, <1>10, <2>1
<1>12. At.job = j /\ (At.op = "final" \/ (At.op = "release" /\ ~Pending(j, "final")))
  <2>1. PICK f \in Positions : Off[f] = Upto(j) - 4 + 2 /\ mem[f] = [job |-> j, op |-> "final"]
    BY <1>4, <1>5
  <2>2. PICK r \in Positions : Off[r] = Upto(j) - 4 + 3 /\ mem[r] = [job |-> j, op |-> "release"]
    BY <1>4, <1>5
  <2>3. CASE Off[dma.get] = Upto(j) - 2
    <3>1. dma.get = f
      BY <1>1, <1>4, <2>1, <2>3, OffOne
    <3> QED BY <2>1, <3>1 DEF At
  <2>4. CASE Off[dma.get] = Upto(j) - 1
    <3>1. dma.get = r
      BY <1>1, <1>4, <2>2, <2>4, OffOne
    <3>2. At = [job |-> j, op |-> "release"]
      BY <2>2, <3>1 DEF At
    <3>3. ~Pending(j, "final")
      <4> SUFFICES ASSUME NEW n \in Positions, Ahead(n), mem[n] = [job |-> j, op |-> "final"] PROVE FALSE
        BY <1>2 DEF Pending
      <4>1. n # dma.get
        BY <3>2 DEF At
      <4>2. Off[dma.get] < Off[n]
        <5>1. Off[dma.get] # Off[n] /\ Off[n] >= Off[dma.get] /\ Off[n] \in Nat /\ Off[dma.get] \in Nat
          BY <1>1, <1>4, <4>1, OffOne DEF Ahead
        <5> QED BY <5>1
      <4>3. Ahead(dma.get)
        BY <1>4, <1>5, <3>2 DEF Ahead, At
      <4>4. Before(mem[dma.get], mem[n])
        BY <1>1, <1>4, <4>2, <4>3 DEF Layout
      <4>5. j \in Nat
        BY <1>1, <1>2, NumberTypes
      <4> QED BY <1>5, <3>2, <4>4, <4>5 DEF Before, At
    <3> QED BY <3>2, <3>3
  <2> QED BY <1>11, <2>3, <2>4
<1>13. CanRun /\ InTime
  <2>1. At.op = "final" => job[At.job].step # "submit"
    BY <1>1, <1>2, <1>12 DEF Submission
  <2>2. At.op = "release" => Expired(sp[Sp(At.job)].value, job[At.job].thresh)
    <3> SUFFICES ASSUME At.op = "release" PROVE Expired(Value(j), job[j].thresh)
      BY <1>12 DEF Value
    <3>1. ~Pending(j, "final")
      BY <1>12
    <3>2. Value(j) >= job[j].end + 1
      BY <1>2, <1>5, <3>1 DEF Exact
    <3> QED BY <1>1, <1>2, <3>2, ReachedThresh
  <2>3. At.op # "work"
    BY <1>12
  <2> QED BY <1>7, <2>1, <2>2, <2>3 DEF CanRun, InTime
<1>14. Queued(At.job)
  BY <1>12 DEF Elems, Queued
<1> QED BY <1>1, <1>12, <1>13, <1>14 DEF Settled, Runs

\* While the engine waits in one job, the later ones have everything to do yet.
LEMMA BehindWaits ==
  ASSUME THyp, NEW c \in Elems(queue), Waits(c), NEW p \in Elems(queue), c < p, ~job[p].cancelled
  PROVE  Value(p) < job[p].end
<1>1. Places /\ Progress /\ OHyp /\ Types /\ Commands
  BY TimeTypes
<1>2. /\ p \in Job /\ Upto(p) \in Nat /\ dma.get \in Positions /\ \A k \in Positions : Off[k] \in Nat
      /\ job[p].slots >= 4 /\ job[p].slots \in Nat /\ Off[job[p].first] \in Nat
      /\ \A o \in Commanded : \E k \in Positions : /\ Off[k] = Upto(p) - 4 + Place[o]
                                                  /\ mem[k] = [job |-> p, op |-> o]
  BY QueuedLies
<1>3. "work" \in Commanded /\ Place["work"] = 0
  BY DEF Commanded, Place
<1>4. Off[dma.get] < Upto(c) /\ Upto(c) \in Nat
  <2>1. Ahead(dma.get) /\ mem[dma.get].job = c
    BY <1>2, <1>3 DEF Ahead, Waits, At
  <2> QED BY <1>2, <2>1, QueuedBusy, QueuedLies
<1>5. Upto(c) <= Off[job[p].first]
  BY <1>1 DEF Places
<1>6. PICK w \in Positions : Off[w] = Upto(p) - 4 /\ mem[w] = [job |-> p, op |-> "work"]
  BY <1>2, <1>3
<1>7. Off[w] >= Off[job[p].first]
  BY <1>2, <1>6 DEF Upto
<1>8. Ahead(w)
  <2>1. Off[w] >= Off[dma.get]
    BY <1>2, <1>4, <1>5, <1>7
  <2> QED BY <1>3, <1>6, <2>1 DEF Ahead
<1>9. Pending(p, "work")
  BY <1>6, <1>8 DEF Pending
<1> QED BY <1>1, <1>2, <1>9 DEF Progress, Told

\* The slots of one job are not those of another.
LEMMA Outside ==
  ASSUME THyp, NEW i \in Elems(queue), NEW v \in Elems(queue), v # i, NEW k \in Positions,
         Off[job[i].first] <= Off[k], Off[k] < Upto(i)
  PROVE  ~Harmless(k, v)
<1>1. Places /\ Types
  BY TimeTypes
<1>2. /\ i \in Job /\ Upto(i) \in Nat /\ Off[job[i].first] \in Nat /\ Off[k] \in Nat
  BY QueuedLies
<1>3. /\ v \in Job /\ Upto(v) \in Nat /\ Off[job[v].first] \in Nat /\ Upto(v) <= Reach /\ job[v].slots \in Nat
      /\ job[v].first \in Positions /\ Reach \in 0..(Ring - 1) /\ Ring \in Nat
      /\ Upto(v) = Off[job[v].first] + job[v].slots
  BY QueuedLies DEF Upto
<1>4. v \in Nat /\ i \in Nat
  BY <1>1, <1>2, <1>3, NumberTypes
<1>5. CASE v < i
  <2>1. Upto(v) <= Off[job[i].first]
    BY <1>1, <1>5 DEF Places
  <2>2. Off[job[v].first] <= Off[k]
    BY <1>2, <1>3, <2>1
  <2>3. Dist(k, job[v].first) = Off[k] - Off[job[v].first]
    BY <1>1, <1>3, <2>2, WalkDist
  <2>4. ~(Dist(k, job[v].first) < job[v].slots)
    BY <1>2, <1>3, <2>1, <2>3
  <2> QED BY <2>4 DEF Harmless
<1>6. CASE i < v
  <2>1. Upto(i) <= Off[job[v].first]
    BY <1>1, <1>6 DEF Places
  <2>2. Off[k] < Off[job[v].first]
    BY <1>2, <1>3, <2>1
  <2>3. Dist(k, job[v].first) = Off[k] - Off[job[v].first] + Ring
    BY <1>1, <1>3, <2>2, WalkBack
  <2> DEFINE x == Reach
  <2>4. ~(Dist(k, job[v].first) < job[v].slots)
    <3>1. x \in Int /\ x <= Ring - 1 /\ Upto(v) <= x
      BY <1>3
    <3> HIDE DEF x
    <3> QED BY <1>2, <1>3, <2>2, <2>3, <3>1
  <2> QED BY <2>4 DEF Harmless
<1> QED BY <1>4, <1>5, <1>6

-----------------------------------------------------------------------------
(* Completion.                                                             *)

\* update_cdma_locked() leaves a timer for the job that is the first then.
LEMMA UpdatedClock ==
  ASSUME CInv, NEW jb \in [Job -> Jobs], NEW sy, UpdateLocked(jb, sy), \A j \in Job : jb[j].timed
  PROVE  /\ \A j \in Elems(queue') : job'[j] = jb[j]
         /\ queue' # <<>> /\ ~hung' => ~Over(jb, sy, queue'[1])
         /\ \/ hung'
            \/ timer' = timer /\ queue' = queue /\ timer.client # 0
            \/ /\ timer.client = 0 \/ Over(jb, sy, queue[1])
               /\ timer' = IF queue' # <<>> THEN [client |-> queue'[1], pending |-> TRUE]
                           ELSE [client |-> 0, pending |-> FALSE]
<1> DEFINE n == Retired(jb, sy)
           out == {queue[i] : i \in 1..n}
           rest == SubSeq(queue, n + 1, Len(queue))
           hangs == n > 0 /\ Hangs(jb, queue[n])
<1>1. queue \in Seq(Job) /\ Distinct(queue) /\ Len(queue) \in Nat
  BY LenProperties DEF CInv, Types, Submission
<1>2. /\ n \in 0..Len(queue) /\ \A i \in 1..n : Over(jb, sy, queue[i])
      /\ n < Len(queue) => ~Over(jb, sy, queue[n + 1]) \/ hangs
  BY <1>1, RetiredFacts
<1>3. /\ queue' = rest /\ hung' = hangs
      /\ job' = [j \in Job |-> IF j \in out /\ jb[j].step = "done" THEN [jb[j] EXCEPT !.fence = "gone"]
                               ELSE jb[j]]
      /\ ~hangs => timer' = TimerAfter(jb, rest, n)
  BY DEF UpdateLocked
<1>4. out \cap Elems(rest) = {} /\ Elems(rest) \subseteq Job /\ rest \in Seq(Job) /\ (n = 0 => rest = queue)
  <2>1. n \in 0..Len(queue)
    BY <1>2
  <2> HIDE DEF n
  <2>2. /\ rest \in Seq(Job) /\ Elems(queue) = Out(n) \cup Elems(rest) /\ Out(n) \cap Elems(rest) = {}
        /\ (n = 0 => rest = queue)
    BY <1>1, <2>1, RestFacts
  <2>3. Elems(queue) \subseteq Job
    BY SpaceFacts
  <2> QED BY <2>2, <2>3 DEF Out
<1> HIDE DEF n, out, hangs
<1>5. /\ rest # <<>> => n < Len(queue) /\ rest[1] = queue[n + 1] /\ Head(rest) = rest[1]
      /\ rest # <<>> => rest[1] \in Elems(rest)
  <2>1. Len(rest) = Len(queue) - n /\ \A i \in 1..(Len(queue) - n) : rest[i] = queue[n + i]
    BY <1>1, <1>2, SubSeqProperties
  <2>2. rest # <<>> => Len(rest) > 0 /\ Len(rest) \in Nat /\ Head(rest) = rest[1]
    BY <1>4
  <2>3. rest # <<>> => 1 \in 1..Len(rest) /\ 1 \in 1..(Len(queue) - n)
    <3> DEFINE m == Len(rest)
    <3>1. m = Len(queue) - n /\ (rest # <<>> => m > 0 /\ m \in Nat)
      BY <2>1, <2>2
    <3> HIDE DEF m
    <3>2. rest # <<>> => 1 \in 1..m
      BY <3>1
    <3> QED BY <3>1, <3>2 DEF m
  <2> QED BY <1>1, <1>2, <2>1, <2>2, <2>3 DEF Elems
<1> HIDE DEF rest
<1>6. \A j \in Elems(rest) : job'[j] = jb[j]
  BY <1>3, <1>4
<1>7. rest # <<>> /\ ~hangs => ~Over(jb, sy, rest[1])
  BY <1>2, <1>5
<1>8. ASSUME ~hangs
      PROVE  \/ timer' = timer /\ rest = queue /\ timer.client # 0
             \/ /\ timer.client = 0 \/ Over(jb, sy, queue[1])
                /\ timer' = IF rest # <<>> THEN [client |-> rest[1], pending |-> TRUE]
                            ELSE [client |-> 0, pending |-> FALSE]
  <2>1. CASE n = 0 /\ timer.client # 0
    BY <1>3, <1>4, <1>8, <2>1 DEF TimerAfter
  <2>2. CASE ~(n = 0 /\ timer.client # 0)
    <3>1. timer.client = 0 \/ Over(jb, sy, queue[1])
      BY <1>1, <1>2, <2>2
    <3>2. rest # <<>> => jb[Head(rest)].timed /\ Head(rest) = rest[1]
      BY <1>4, <1>5
    <3> QED BY <1>3, <1>8, <2>2, <3>1, <3>2 DEF TimerAfter
  <2> QED BY <2>1, <2>2
<1> QED BY <1>3, <1>6, <1>7, <1>8

\* With the values of the counters in sp', which grow, the timer is that of the first job
\* that is not over: its fence waits.
LEMMA UpdatedTiming ==
  ASSUME THyp, ~hung, NEW jb \in [Job -> Jobs], UpdateLocked(jb, sp'), scene' = scene,
         \A j \in Job : /\ jb[j].timed /\ jb[j].fence = job[j].fence /\ jb[j].expired = job[j].expired
                        /\ jb[j].thresh = job[j].thresh /\ jb[j].end = job[j].end
                        /\ job[j].cancelled => jb[j].cancelled,
         \A s \in Syncpt : sp'[s].value = sp[s].value /\ sp'[s].min \in {sp[s].min, sp[s].value},
         IF Over(jb, sp', queue[1]) THEN handler' = 0
         ELSE handler' = handler /\ (handler # 0 => Waits(handler)'),
         update' \in BOOLEAN
  PROVE  /\ Timing' /\ \A j \in Job : job'[j] = [jb[j] EXCEPT !.fence = job'[j].fence]
         /\ Elems(queue') \subseteq Elems(queue)
<1>1. /\ CInv /\ Types /\ Numbers /\ NoWrap /\ Turns /\ Switches /\ Timing /\ Elems(queue) \subseteq Job
      /\ queue \in Seq(Job) /\ Len(queue) \in Nat /\ handler \in Job \cup {0}
      /\ timer \in [client : Job \cup {0}, pending : BOOLEAN]
  BY TimeTypes
<1>2. /\ \A j \in Elems(queue') : job'[j] = jb[j]
      /\ queue' # <<>> /\ ~hung' => ~Over(jb, sp', queue'[1])
      /\ \/ hung'
         \/ timer' = timer /\ queue' = queue /\ timer.client # 0
         \/ /\ timer.client = 0 \/ Over(jb, sp', queue[1])
            /\ timer' = IF queue' # <<>> THEN [client |-> queue'[1], pending |-> TRUE]
                        ELSE [client |-> 0, pending |-> FALSE]
  BY <1>1, UpdatedClock
<1>3. /\ \E n : Shorter(n)
      /\ \A j \in Job : job'[j] = [jb[j] EXCEPT !.fence = job'[j].fence]
  BY <1>1, RetiresFirst DEF Switches
<1>4. Elems(queue') \subseteq Elems(queue) /\ Elems(queue)' = Elems(queue') /\ queue' \in Seq(Job)
  BY <1>1, <1>3, ShorterFacts DEF Elems
<1>5. \A j \in Job : /\ Sp(j) \in Syncpt /\ Sp(j)' = Sp(j) /\ job'[j].timed /\ job'[j].cancelled = jb[j].cancelled
                     /\ job'[j].thresh = job[j].thresh /\ job'[j].expired = job[j].expired
  <2> SUFFICES ASSUME NEW j \in Job
               PROVE  /\ Sp(j) \in Syncpt /\ Sp(j)' = Sp(j) /\ job'[j].timed /\ job'[j].cancelled = jb[j].cancelled
                      /\ job'[j].thresh = job[j].thresh /\ job'[j].expired = job[j].expired
    OBVIOUS
  <2>1. jb[j] \in Jobs /\ job'[j] = [jb[j] EXCEPT !.fence = job'[j].fence]
    BY <1>3
  <2>2. /\ job'[j].timed = jb[j].timed /\ job'[j].cancelled = jb[j].cancelled
        /\ job'[j].thresh = jb[j].thresh /\ job'[j].expired = jb[j].expired
    BY <2>1 DEF Jobs
  <2> QED BY <1>1, <2>2, NumberTypes DEF Sp
<1>6. \A s \in Syncpt : /\ sp'[s].min >= sp[s].min /\ sp'[s].min \in scene.from..sp[s].max
                        /\ sp'[s].min \in Nat /\ sp[s].min \in Nat
  <2> SUFFICES ASSUME NEW s \in Syncpt
               PROVE  /\ sp'[s].min >= sp[s].min /\ sp'[s].min \in scene.from..sp[s].max
                      /\ sp'[s].min \in Nat /\ sp[s].min \in Nat
    OBVIOUS
  <2>1. sp'[s].min = sp[s].min \/ sp'[s].min = sp[s].value
    OBVIOUS
  <2> QED BY <1>1, <2>1, Between
<1>7. \A j \in Elems(queue) : /\ job[j].end \in Nat /\ job[j].thresh = job[j].end + 1
                              /\ Expired(sp'[Sp(j)].min, job[j].end) <=> sp'[Sp(j)].min >= job[j].end
  <2> SUFFICES ASSUME NEW j \in Elems(queue)
               PROVE  /\ job[j].end \in Nat /\ job[j].thresh = job[j].end + 1
                      /\ Expired(sp'[Sp(j)].min, job[j].end) <=> sp'[Sp(j)].min >= job[j].end
    OBVIOUS
  <2>1. Begun(j) /\ j \in Job
    BY <1>1 DEF Turns
  <2>2. sp'[Sp(j)].min \in scene.from..sp[Sp(j)].max
    BY <1>5, <1>6, <2>1
  <2> QED BY <1>1, <2>1, <2>2, Reached, ReachedThresh
<1>8. ASSUME NEW j \in Elems(queue'), ~job'[j].cancelled, job'[j].fence # "pending"
      PROVE  sp'[Sp(j)].min >= job[j].thresh
  <2>1. job'[j] = jb[j] /\ j \in Elems(queue) /\ j \in Job
    BY <1>1, <1>2, <1>4
  <2>2. ~job[j].cancelled /\ job[j].fence # "pending"
    BY <1>8, <2>1
  <2>3. sp[Sp(j)].min >= job[j].thresh
    BY <1>1, <2>1, <2>2 DEF Timing, Signalled
  <2> QED BY <1>5, <1>6, <1>7, <2>1, <2>3
<1>9. ASSUME ~hung' PROVE Signalled' /\ Clock'
  <2>1. Signalled'
    BY <1>1, <1>4, <1>5, <1>8 DEF Signalled
  <2>2. queue' # <<>> => queue'[1] \in Elems(queue')
    BY <1>4 DEF Elems
  <2>3. queue' # <<>> => job'[queue'[1]].fence = "pending"
    <3> SUFFICES ASSUME queue' # <<>>, job'[queue'[1]].fence # "pending" PROVE FALSE
      OBVIOUS
    <3> DEFINE h == queue'[1]
    <3>1. h \in Elems(queue') /\ h \in Elems(queue) /\ h \in Job /\ job'[h] = jb[h] /\ ~Over(jb, sp', h)
      BY <1>1, <1>2, <1>4, <1>9, <2>2
    <3>2. job'[h].fence # "pending"
      OBVIOUS
    <3> HIDE DEF h
    <3>3. ~jb[h].cancelled /\ ~Expired(sp'[Sp(h)].min, job[h].end)
      BY <3>1 DEF Over
    <3>4. sp'[Sp(h)].min >= job[h].thresh
      BY <1>8, <3>1, <3>2, <3>3
    <3>5. sp'[Sp(h)].min >= job[h].end
      BY <1>5, <1>6, <1>7, <3>1, <3>4
    <3> QED BY <1>7, <3>1, <3>3, <3>5
  <2>4. CASE timer' = timer /\ queue' = queue /\ timer.client # 0
    <3>1. queue # <<>> /\ Clock
      BY <1>1, <2>4 DEF Timing, CInv, Submission
    <3>2. ~Over(jb, sp', queue[1])
      BY <1>2, <1>9, <2>4, <3>1
    <3>3. handler' = handler /\ (handler # 0 => Waits(handler)')
      BY <3>2
    <3>4. handler # 0 => handler = timer.client /\ job'[handler].expired
      BY <1>1, <1>5, <3>1 DEF Clock
    <3> QED BY <2>1, <2>3, <2>4, <3>1, <3>3, <3>4 DEF Clock
  <2>5. CASE /\ timer.client = 0 \/ Over(jb, sp', queue[1])
             /\ timer' = IF queue' # <<>> THEN [client |-> queue'[1], pending |-> TRUE]
                         ELSE [client |-> 0, pending |-> FALSE]
    <3>1. handler' = 0
      <4>1. timer.client = 0 => handler = 0
        BY <1>1 DEF Timing, Clock
      <4> QED BY <2>5, <4>1
    <3>2. queue' # <<>> => queue'[1] \in Job /\ queue'[1] # 0
      BY <1>1, <1>4, <2>2, NumberTypes
    <3> QED BY <2>1, <2>3, <2>5, <3>1, <3>2 DEF Clock
  <2> QED BY <1>2, <1>9, <2>1, <2>4, <2>5
<1>10. Timing'
  BY <1>5, <1>9 DEF Timing
<1> QED BY <1>3, <1>4, <1>10

\* cdma_update_work(): jobs leave that have done all.
LEMMA UpdateTime == ASSUME THyp, UpdateRuns PROVE Timely'
<1>1. /\ Types /\ Numbers /\ Turns /\ Progress /\ Switches /\ CInv /\ OHyp /\ NoWrap /\ OwnTTL /\ Timing
      /\ Elems(queue) \subseteq Job /\ job \in [Job -> Jobs] /\ handler \in Job \cup {0}
  BY TimeTypes
<1>2. /\ UNCHANGED <<scene, sp, mem, dma, sub, handler>> /\ UpdateLocked(job, sp) /\ ~hung /\ Settled
      /\ update' = FALSE
  BY DEF UpdateRuns, Update, Locked
<1>3. /\ \A j \in Elems(queue) \ Elems(queue') : Over(job, sp, j)
      /\ pb'.pos = pb.pos /\ \A j \in Job : job'[j] = [job[j] EXCEPT !.fence = job'[j].fence]
  BY <1>1, <1>2, RetiresFirst DEF Switches
<1>4. \A j \in Job : /\ Kept(j) /\ job'[j].cancelled = job[j].cancelled /\ job'[j].failed = job[j].failed
                     /\ job'[j].expired = job[j].expired
  <2> SUFFICES ASSUME NEW j \in Job
               PROVE  /\ Kept(j) /\ job'[j].cancelled = job[j].cancelled /\ job'[j].failed = job[j].failed
                      /\ job'[j].expired = job[j].expired
    OBVIOUS
  <2>1. job[j] \in Jobs /\ job'[j] = [job[j] EXCEPT !.fence = job'[j].fence]
    BY <1>1, <1>3
  <2> QED BY <2>1 DEF Kept, Alike, Begun, Jobs
<1>5. \A j \in Elems(queue) : /\ Sp(j) \in Syncpt /\ Begun(j) /\ job[j].end \in Nat /\ Value(j) \in Nat
                              /\ Expired(sp[Sp(j)].min, job[j].end) => Value(j) >= job[j].end
  <2> SUFFICES ASSUME NEW j \in Elems(queue)
               PROVE  /\ Sp(j) \in Syncpt /\ Begun(j) /\ job[j].end \in Nat /\ Value(j) \in Nat
                      /\ Expired(sp[Sp(j)].min, job[j].end) => Value(j) >= job[j].end
    OBVIOUS
  <2>1. Sp(j) \in Syncpt /\ Begun(j)
    BY <1>1, NumberTypes DEF Turns
  <2>2. /\ sp[Sp(j)].min \in scene.from..sp[Sp(j)].max /\ sp[Sp(j)].min <= Value(j) /\ Value(j) \in Nat
        /\ sp[Sp(j)].min \in Nat
    BY <1>1, <2>1, Between DEF Value
  <2>3. /\ Expired(sp[Sp(j)].min, job[j].end) <=> sp[Sp(j)].min >= job[j].end
        /\ job[j].end \in Nat
    BY <1>1, <2>1, <2>2, Reached
  <2> QED BY <2>1, <2>2, <2>3
<1>6. /\ Timing' /\ Elems(queue') \subseteq Elems(queue)
  <2>1. \A j \in Job : job[j].timed
    BY <1>1 DEF Timing
  <2>2. handler # 0 => Waits(handler)' /\ ~Over(job, sp, queue[1])
    <3> SUFFICES ASSUME handler # 0 PROVE Waits(handler)' /\ ~Over(job, sp, queue[1])
      OBVIOUS
    <3> DEFINE c == handler
    <3>1. queue[1] = c /\ Waits(c) /\ c \in Elems(queue) /\ c = timer.client /\ c # 0
      BY <1>2, HandlerWaits
    <3>2. Waits(handler)'
      BY <1>2, <3>1 DEF Waits, Busy, At
    <3> HIDE DEF c
    <3>3. dma.get \in Positions /\ Ahead(dma.get) /\ mem[dma.get] = [job |-> c, op |-> "work"]
      <4>1. dma.get \in Positions /\ Off[dma.get] \in Nat
        BY <3>1, QueuedLies
      <4> QED BY <3>1, <4>1 DEF Ahead, Waits, At, Commanded
    <3>4. Pending(c, "work")
      BY <3>3 DEF Pending
    <3>5. Value(c) < job[c].end
      BY <1>1, <3>1, <3>4 DEF Progress, Told
    <3>6. ~job[c].cancelled
      BY <1>1, <3>1 DEF Switches
    <3> QED BY <1>5, <3>1, <3>2, <3>5, <3>6 DEF Over
  <2>3. \A s \in Syncpt : sp'[s].value = sp[s].value /\ sp'[s].min \in {sp[s].min, sp[s].value}
    BY <1>2
  <2>4. IF Over(job, sp, queue[1]) THEN handler' = 0
        ELSE handler' = handler /\ (handler # 0 => Waits(handler)')
    BY <1>2, <2>2
  <2>5. sp' = sp /\ UpdateLocked(job, sp') /\ (Over(job, sp', queue[1]) <=> Over(job, sp, queue[1]))
    BY <1>2
  <2> QED BY <1>1, <1>2, <2>1, <2>3, <2>4, <2>5, UpdatedTiming
<1>7. Places'
  BY <1>2, <1>3, <1>4, <1>6, PlacesKept
<1>8. Tally'
  <2>1. \A j, o : Pending(j, o)' <=> Pending(j, o)
    BY <1>2, PendingKept
  <2>2. ASSUME NEW j \in Job, Gone(j)', ~Gone(j) PROVE \A o \in Commanded : ~Pending(j, o)
    <3>1. j \in Elems(queue) /\ j \notin Elems(queue')
      BY <1>2, <1>4, <2>2 DEF Gone, Begun, Kept, Alike, Elems
    <3>2. Over(job, sp, j)
      BY <1>3, <3>1
    <3>3. CASE job[j].cancelled
      BY <1>1, <3>3 DEF Progress, Told
    <3>4. CASE ~job[j].cancelled
      <4>1. Value(j) >= job[j].end
        BY <1>5, <3>1, <3>2, <3>4 DEF Over
      <4> QED BY <1>2, <3>1, <3>4, <4>1, LeavesDone
    <3> QED BY <3>3, <3>4
  <2> QED BY <1>2, <1>4, <2>1, <2>2, TallyKept DEF Kept
<1>9. OwnTTL'
  BY <1>1, <1>4 DEF OwnTTL
<1> QED BY <1>6, <1>7, <1>8, <1>9 DEF Timely

-----------------------------------------------------------------------------
(* The timer and the engine.                                               *)

\* The job the engine waits in has its work to do.
LEMMA WaitsWork ==
  ASSUME OHyp, NEW c, Waits(c)
  PROVE  /\ c \in Job /\ Pending(c, "work") /\ Value(c) < job[c].end
         /\ dma.get \in Positions /\ Ahead(dma.get) /\ mem[dma.get] = [job |-> c, op |-> "work"]
<1>1. dma.get \in Positions /\ Off[dma.get] \in Nat /\ Progress
  BY OrderTypes, AheadFacts
<1>2. mem[dma.get] = [job |-> c, op |-> "work"]
  BY DEF Waits, At
<1>3. Ahead(dma.get)
  BY <1>1, <1>2 DEF Ahead, Commanded
<1>4. c \in Job
  BY <1>1, <1>2, <1>3, AheadFacts
<1>5. Pending(c, "work")
  BY <1>1, <1>2, <1>3 DEF Pending
<1> QED BY <1>1, <1>2, <1>3, <1>4, <1>5 DEF Progress, Told

\* A timer goes off when the engine waits in the work of the first job.
LEMMA FiresWaits ==
  ASSUME THyp, TimerGoesOff, ~hung
  PROVE  queue # <<>> /\ timer.client = queue[1] /\ Waits(queue[1]) /\ job[queue[1]].fence = "pending"
<1> DEFINE c == queue[1]
<1>1. /\ Types /\ Numbers /\ Timing /\ Switches /\ Submission /\ Layout /\ Tally /\ OHyp /\ NoWrap
      /\ timer \in [client : Job \cup {0}, pending : BOOLEAN]
  BY TimeTypes
<1>2. timer.pending /\ ~(CanRun /\ InTime) /\ ~update /\ \A s \in Syncpt : Due(s, sp[s].value) = {}
  BY TimeTypes DEF TimerGoesOff, TimerFires, AtRest, Runs
<1>3. /\ queue # <<>> /\ timer.client = c /\ job[c].fence = "pending" /\ ~job[c].cancelled
  <2>1. timer.client # 0
    BY <1>1, <1>2 DEF Timing, Clock
  <2>2. queue # <<>>
    BY <1>1, <2>1 DEF Submission
  <2> QED BY <1>1, <1>2, <2>1, <2>2 DEF Timing, Clock, Switches
<1>4. /\ c \in Elems(queue) /\ c \in Job /\ Begun(c) /\ c # sub.job /\ c \in Nat /\ Sp(c) \in Syncpt
      /\ \A p \in Job : Begun(p) /\ p < c => Gone(p)
  BY <1>1, <1>3, FirstQueued, NumberTypes
<1> HIDE DEF c
<1>5. ~(Value(c) >= job[c].end + 1) /\ job[c].end \in Nat
  <2>1. Value(c) \in scene.from..sp[Sp(c)].max
    BY <1>1, <1>4, Between DEF Value
  <2>2. ~Expired(Value(c), job[c].thresh)
    BY <1>2, <1>3, <1>4 DEF Due, Value
  <2> QED BY <1>1, <1>4, <2>1, <2>2, ReachedThresh
<1>6. Commanded = {"work", "final", "release"} /\ Rank["final"] = 2 /\ Rank["release"] = 3
  BY DEF Commanded, Rank
<1>7. Pending(c, "final")
  <2>1. ~Pending(c, "final") => Value(c) >= job[c].end + 2 - 1
    BY <1>1, <1>3, <1>4, <1>6 DEF Tally, Exact
  <2> QED BY <1>5, <2>1
<1>8. PICK k \in Positions : Ahead(k) /\ mem[k] = [job |-> c, op |-> "final"]
  BY <1>4, <1>7 DEF Pending
<1>9. Busy
  BY <1>4, <1>8, QueuedBusy
<1>10. PICK j, o : j = At.job /\ o = At.op
  OBVIOUS
<1>11. \/ o = "work" /\ j \in scene.hangs
       \/ o = "final" /\ job[j].step = "submit"
       \/ o = "release"
  BY <1>2, <1>9, <1>10 DEF CanRun, InTime
<1>12. /\ dma.get \in Positions /\ Off[dma.get] \in Nat /\ \A n \in Positions : Off[n] \in Nat
       /\ Ahead(dma.get) /\ j \in Job /\ j \in Nat /\ Begun(j) /\ Pending(j, o) /\ At = [job |-> j, op |-> o]
       /\ mem[dma.get] = At /\ o \in Commanded
  <2>1. dma.get \in Positions /\ Off[dma.get] \in Nat /\ \A n \in Positions : Off[n] \in Nat
    BY <1>4, QueuedLies
  <2>2. mem[dma.get] = At /\ o \in Commanded
    BY <1>6, <1>10, <1>11 DEF At
  <2>3. Ahead(dma.get)
    BY <1>10, <2>1, <2>2 DEF Ahead
  <2>4. /\ mem[dma.get].job \in Job /\ Pending(mem[dma.get].job, mem[dma.get].op) /\ Begun(mem[dma.get].job)
        /\ mem[dma.get] = [job |-> mem[dma.get].job, op |-> mem[dma.get].op]
    BY <1>1, <2>1, <2>3, AheadFacts
  <2> QED BY <1>1, <1>10, <2>1, <2>2, <2>3, <2>4, NumberTypes
<1>13. j = c /\ o # "release"
  <2>1. ASSUME j < c PROVE FALSE
    <3>1. Gone(j)
      BY <1>4, <1>12, <2>1
    <3> QED BY <1>1, <1>12, <3>1 DEF Tally, Exact
  <2>2. CASE dma.get = k
    BY <1>8, <1>12, <2>2
  <2>3. CASE dma.get # k
    <3>1. Off[dma.get] < Off[k]
      <4>1. Off[dma.get] # Off[k]
        BY <1>1, <1>12, <2>3, OffOne
      <4> QED BY <1>8, <1>12, <4>1 DEF Ahead
    <3>2. Before(mem[dma.get], mem[k])
      BY <1>1, <1>8, <1>12, <3>1 DEF Layout
    <3>3. j < c \/ (j = c /\ Rank[o] < 2)
      BY <1>6, <1>8, <1>12, <3>2 DEF Before
    <3> QED BY <1>6, <2>1, <3>3
  <2> QED BY <2>2, <2>3
<1>14. o = "work" /\ j \in scene.hangs
  BY <1>1, <1>4, <1>11, <1>13 DEF Submission
<1>15. Waits(c)
  BY <1>9, <1>12, <1>13, <1>14 DEF Waits
<1> QED BY <1>3, <1>15 DEF c

\* cdma_timeout_handler() is on its way, for that job.
LEMMA FiresTime == ASSUME THyp, TimerGoesOff PROVE Timely'
<1>1. /\ Types /\ Timing /\ OwnTTL /\ OHyp /\ job \in [Job -> Jobs] /\ Elems(queue) \subseteq Job
      /\ timer \in [client : Job \cup {0}, pending : BOOLEAN]
  BY TimeTypes
<1>2. /\ UNCHANGED <<scene, sp, pb, mem, dma, queue, sub, update, hung>>
      /\ timer' = [timer EXCEPT !.pending = FALSE] /\ handler' = timer.client
      /\ job' = [job EXCEPT ![timer.client].expired = TRUE]
  BY DEF TimerGoesOff, TimerFires
<1>3. \A i \in Job : /\ Kept(i) /\ job'[i].cancelled = job[i].cancelled /\ job'[i].failed = job[i].failed
                     /\ job'[i].timed = job[i].timed /\ job'[i].fence = job[i].fence
                     /\ (job'[i].expired <=> job[i].expired \/ i = timer.client)
  <2> SUFFICES ASSUME NEW i \in Job
               PROVE  /\ Kept(i) /\ job'[i].cancelled = job[i].cancelled /\ job'[i].failed = job[i].failed
                      /\ job'[i].timed = job[i].timed /\ job'[i].fence = job[i].fence
                      /\ (job'[i].expired <=> job[i].expired \/ i = timer.client)
    OBVIOUS
  <2>1. job[i] \in Jobs
    BY <1>1
  <2>2. CASE i = timer.client
    <3>1. job'[i] = [job[i] EXCEPT !.expired = TRUE]
      BY <1>1, <1>2, <2>2
    <3> QED BY <2>1, <2>2, <3>1 DEF Jobs, Kept, Alike, Begun
  <2>3. CASE i # timer.client
    <3>1. job'[i] = job[i]
      BY <1>1, <1>2, <2>3
    <3> QED BY <2>3, <3>1 DEF Kept, Alike, Begun
  <2> QED BY <2>2, <2>3
<1>4. Places'
  BY <1>2, <1>3, PlacesKept
<1>5. Tally'
  <2>1. \A j, o : Pending(j, o)' <=> Pending(j, o)
    BY <1>2, PendingKept
  <2>2. \A j \in Job : Gone(j)' => Gone(j)
    BY <1>2, <1>3 DEF Gone, Begun, Kept, Alike, Elems
  <2> QED BY <1>2, <1>3, <2>1, <2>2, TallyKept DEF Kept
<1>6. Timing'
  <2>1. \A j \in Job : job'[j].timed
    BY <1>1, <1>3 DEF Timing
  <2>2. ASSUME ~hung PROVE Signalled' /\ Clock'
    <3>1. queue # <<>> /\ timer.client = queue[1] /\ Waits(queue[1]) /\ job[queue[1]].fence = "pending"
      BY <2>2, FiresWaits
    <3>2. queue[1] \in Job /\ queue[1] # 0
      BY <1>1, <3>1, FirstQueued, NumberTypes
    <3>3. Elems(queue)' = Elems(queue) /\ \A j \in Job : Sp(j)' = Sp(j) /\ job'[j].thresh = job[j].thresh
      BY <1>2, <1>3 DEF Elems, Sp, Kept, Alike
    <3>4. Signalled'
      BY <1>1, <1>2, <1>3, <2>2, <3>3 DEF Timing, Signalled
    <3>5. Waits(queue[1])'
      BY <1>2, <3>1 DEF Waits, Busy, At
    <3>6. timer'.client = timer.client /\ ~timer'.pending /\ handler' = queue[1]
      BY <1>1, <1>2, <3>1
    <3>7. job'[queue[1]].expired /\ job'[queue[1]].fence = "pending"
      BY <1>3, <3>1, <3>2
    <3> QED BY <1>2, <3>1, <3>2, <3>4, <3>5, <3>6, <3>7 DEF Clock
  <2> QED BY <1>2, <2>1, <2>2 DEF Timing
<1>7. OwnTTL'
  BY <1>1, <1>3 DEF OwnTTL
<1> QED BY <1>4, <1>5, <1>6, <1>7 DEF Timely

\* The counter has all of what is done before the engine's next command.
LEMMA ExecReaches ==
  ASSUME THyp, Exec, Bump
  PROVE  LET j == At.job IN Value(j) + 1 >= job[j].end + Rank[At.op] - 1
<1> DEFINE j == At.job
           o == At.op
<1> SUFFICES Value(j) + 1 >= job[j].end + Rank[o] - 1
  OBVIOUS
<1>1. /\ Types /\ Numbers /\ Locking /\ Tally /\ OHyp
  BY TimeTypes
<1>2. /\ Commanded = {"work", "final", "release"} /\ Rank["work"] = 1 /\ Rank["final"] = 2
      /\ (o = "work" \/ o = "final")
  BY DEF Commanded, Rank, Bump
<1>3. /\ j \in Job /\ Begun(j) /\ Pending(j, o)
      /\ \A p \in Job, x \in Commanded : Pending(p, x) => Later(p, x, j, o) \/ (p = j /\ x = o)
  BY <1>1, <1>2, ExecPending
<1>4. ~job[j].cancelled /\ (o # "work" => ~Pending(j, "work"))
  BY <1>1, <1>2, ExecCounts
<1> HIDE DEF j, o
<1>5. /\ Numbered(j) /\ job[j].end \in Nat /\ Value(j) \in Nat /\ Value(j) >= scene.from /\ scene.from \in Nat
  BY <1>1, <1>3, NumberTypes, Between DEF Numbers, Numbered, Value
<1>6. \A p \in Job : p \in Nat /\ Exact(p)
  BY <1>1, NumberTypes DEF Tally
<1>7. CASE o = "final"
  <2>1. Value(j) >= job[j].end + 1 - 1
    BY <1>2, <1>3, <1>4, <1>6, <1>7 DEF Exact
  <2> QED BY <1>2, <1>5, <1>7, <2>1
<1>8. CASE o = "work"
  <2>1. CASE job[j].end = scene.from + 1
    BY <1>2, <1>5, <1>8, <2>1
  <2>2. ASSUME NEW p \in Job, p < j, Begun(p), Sp(p) = Sp(j), job[p].end + 2 = job[j].end
        PROVE  Value(j) >= job[j].end - 1
    <3>1. ~job[p].cancelled
      BY <1>1, <1>3, <1>4, <2>2 DEF Locking
    <3>2. ~Pending(p, "final")
      <4>1. ~Later(p, "final", j, o) /\ p # j
        BY <1>3, <1>6, <2>2 DEF Later
      <4> QED BY <1>2, <1>3, <4>1
    <3>3. Value(p) >= job[p].end + 2 - 1
      BY <1>2, <1>6, <2>2, <3>1, <3>2 DEF Exact
    <3>4. job[p].end \in Nat /\ Value(p) = Value(j)
      BY <1>1, <2>2 DEF Numbers, Numbered, Value
    <3> QED BY <1>5, <2>2, <3>3, <3>4
  <2> QED BY <1>2, <1>5, <1>8, <2>1, <2>2 DEF Numbered
<1> QED BY <1>2, <1>7, <1>8

\* The engine does what comes next, and the timer's handler is not on its way.
LEMMA ExecTime == ASSUME THyp, Exec PROVE Timely'
<1> DEFINE j == At.job
           o == At.op
<1>1. /\ Types /\ Numbers /\ Tally /\ Timing /\ OwnTTL /\ OHyp /\ job \in [Job -> Jobs] /\ Elems(queue) \subseteq Job
  BY TimeTypes
<1>2. /\ UNCHANGED <<scene, pb, mem, queue, sub, timer>> /\ dma'.put = dma.put
      /\ \A i \in Job : Kept(i) /\ job'[i].cancelled = job[i].cancelled /\ job'[i].failed = job[i].failed
      /\ \A s \in Syncpt : /\ sp'[s].min = sp[s].min
                           /\ sp'[s].value = IF Bump /\ s = Sp(j) THEN sp[s].value + 1 ELSE sp[s].value
  BY <1>1, ExecChanges
<1>3. \A i \in Job : /\ job'[i].timed = job[i].timed /\ job'[i].expired = job[i].expired
                     /\ job'[i].fence = job[i].fence
  <2> SUFFICES ASSUME NEW i \in Job
               PROVE  /\ job'[i].timed = job[i].timed /\ job'[i].expired = job[i].expired
                      /\ job'[i].fence = job[i].fence
    OBVIOUS
  <2>1. job[i] \in Jobs
    BY <1>1
  <2>2. job' = job \/ job' = [job EXCEPT ![j].ran = @ \cup {o}]
    BY DEF Exec
  <2> HIDE DEF j, o
  <2>3. job'[i] = job[i] \/ job'[i] = [job[i] EXCEPT !.ran = @ \cup {o}]
    BY <1>1, <2>2
  <2> QED BY <2>1, <2>3 DEF Jobs
<1>4. UNCHANGED <<handler, update, hung>>
  BY DEF Exec
<1>5. Places'
  BY <1>2, PlacesKept
<1>6. Timing'
  <2>1. \A s \in Syncpt : sp[s].min <= sp'[s].min /\ sp'[s].min \in Nat
    BY <1>1, <1>2, Between
  <2>2. ~hung => handler = 0
    <3> SUFFICES ASSUME ~hung, handler # 0 PROVE FALSE
      OBVIOUS
    <3>1. Waits(handler)
      BY HandlerWaits
    <3> QED BY <3>1 DEF Waits, Exec, CanRun
  <2>3. \A i \in Elems(queue) : job'[i].thresh = job[i].thresh
    BY <1>1, <1>2 DEF Kept, Alike
  <2> QED BY <1>1, <1>2, <1>3, <1>4, <2>1, <2>2, <2>3, TimingKept
<1>7. Tally'
  <2>1. Elems(queue)' = Elems(queue) /\ Elems(queue') = Elems(queue)
    BY <1>2 DEF Elems
  <2>2. \A p \in Job : (Begun(p)' <=> Begun(p)) /\ (Gone(p)' <=> Gone(p)) /\ job'[p].end = job[p].end
    BY <1>2, <2>1 DEF Gone, Begun, Kept, Alike
  <2>3. CASE o \notin Commanded
    <3>1. ~Ahead(dma.get)
      BY <2>3 DEF Ahead, At
    <3>2. \A k \in Positions : Ahead(k)' <=> Ahead(k)
      BY <1>1, <3>1, ExecAhead
    <3>3. Positions' = Positions
      BY <1>2 DEF Positions, Ring
    <3>4. \A p \in Job, x \in Commanded : Pending(p, x)' <=> Pending(p, x)
      BY <1>2, <3>2, <3>3 DEF Pending
    <3>5. ~Bump
      BY <2>3 DEF Bump, Commanded
    <3> QED BY <1>2, <2>2, <3>4, <3>5, TallyKept DEF Kept
  <2>4. CASE o \in Commanded
    <3>1. /\ j \in Job /\ \A p \in Job, x \in Commanded : Pending(p, x)' <=> Pending(p, x) /\ ~(p = j /\ x = o)
      BY <1>1, <2>4, ExecPending
    <3>2. Bump => Value(j) + 1 >= job[j].end + Rank[o] - 1
      BY ExecReaches
    <3>3. Bump <=> o \in {"work", "final"}
      BY DEF Bump
    <3> HIDE DEF j, o
    <3> SUFFICES ASSUME NEW p \in Job PROVE Exact(p)'
      BY DEF Tally
    <3>4. /\ Exact(p) /\ Sp(p) \in Syncpt /\ Sp(p)' = Sp(p) /\ Value(p) \in Nat
          /\ Begun(p) => job[p].end \in Nat
      BY <1>1, <1>2, NumberTypes, Between DEF Tally, Sp, Value, Numbers, Numbered
    <3>5. Value(p)' = IF Bump /\ Sp(p) = Sp(j) THEN Value(p) + 1 ELSE Value(p)
      BY <1>2, <3>4 DEF Value
    <3>6. ASSUME Gone(p)', NEW x \in Commanded PROVE ~Pending(p, x)'
      BY <2>2, <3>1, <3>4, <3>6 DEF Exact, Gone
    <3>7. ASSUME Begun(p), ~job'[p].cancelled, NEW x \in {"work", "final"}, ~Pending(p, x)'
          PROVE  Value(p)' >= job'[p].end + Rank[x] - 1
      <4>1. x \in Commanded /\ Rank[x] \in Nat
        BY DEF Commanded, Rank
      <4>2. ~job[p].cancelled
        BY <1>2, <3>7
      <4>3. CASE ~Pending(p, x)
        <5>1. Value(p) >= job[p].end + Rank[x] - 1
          BY <3>4, <3>7, <4>2, <4>3 DEF Exact
        <5> QED BY <2>2, <3>4, <3>5, <3>7, <4>1, <5>1
      <4>4. CASE Pending(p, x)
        <5>1. p = j /\ x = o
          BY <3>1, <3>7, <4>1, <4>4
        <5> QED BY <2>2, <3>2, <3>3, <3>5, <3>7, <5>1
      <4> QED BY <4>3, <4>4
    <3> QED BY <2>2, <3>6, <3>7 DEF Exact
  <2> QED BY <2>3, <2>4
<1>8. OwnTTL'
  BY <1>1, <1>2, <1>3 DEF OwnTTL
<1> QED BY <1>5, <1>6, <1>7, <1>8 DEF Timely

-----------------------------------------------------------------------------
(* Failures.                                                               *)

\* cdma_timeout_handler() finds the engine in the job whose timer has gone off, and fails it.
LEMMA HandlerCancels ==
  ASSUME THyp, Handler
  PROVE  /\ ~hung /\ handler # 0 /\ handler' = 0 /\ UNCHANGED <<scene, sub, update>>
         /\ StuckAt(handler) /\ Waits(handler) /\ queue # <<>> /\ queue[1] = handler /\ job[handler].expired
         /\ timer.client = handler
         /\ CancelFrom(handler, 1)
<1>1. /\ Types /\ Numbers /\ Timing /\ OHyp /\ NoWrap /\ Elems(queue) \subseteq Job /\ Turns /\ "legacy" \notin env
  BY TimeTypes
<1>2. ~hung /\ handler # 0 /\ handler' = 0 /\ UNCHANGED <<scene, sub, update>>
  BY DEF Handler, Locked
<1>3. /\ queue # <<>> /\ handler = queue[1] /\ Waits(handler) /\ handler = timer.client /\ handler \in Elems(queue)
      /\ handler \in Job
  BY <1>2, HandlerWaits
<1>4. job[handler].expired
  BY <1>1, <1>2 DEF Timing, Clock
<1>5. ~Completed(handler)
  <2>1. Value(handler) < job[handler].end
    BY <1>1, <1>3, WaitsWork
  <2>2. Begun(handler) /\ Sp(handler) \in Syncpt
    BY <1>1, <1>3, NumberTypes DEF Turns
  <2>3. Value(handler) \in scene.from..sp[Sp(handler)].max /\ Value(handler) \in Nat
    BY <1>1, <2>2, Between DEF Value
  <2>4. /\ Expired(Value(handler), job[handler].end) <=> Value(handler) >= job[handler].end
        /\ job[handler].end \in Nat
    BY <1>1, <1>3, <2>2, <2>3, Reached
  <2> QED BY <2>1, <2>3, <2>4 DEF Completed, Value
<1>6. StuckAt(handler) /\ Stuck(sp[Sp(handler)].value) = 1
  BY <1>1, <1>2, <1>3, <1>5, StuckFirst
<1>7. CancelFrom(handler, 1)
  <2> DEFINE c == timer.client
             k == Stuck(sp[Sp(c)].value)
  <2>1. c = handler /\ c # 0 /\ ~Completed(c) /\ k = 1 /\ queue[k] = c
    BY <1>2, <1>3, <1>5, <1>6
  <2>2. CancelFrom(queue[k], k)
    BY <1>1, <2>1 DEF Handler
  <2> HIDE DEF c, k
  <2> QED BY <2>1, <2>2
<1> QED BY <1>2, <1>3, <1>4, <1>6, <1>7

\* The slots that are made harmless are those of cancelled jobs.
LEMMA CancelPlaces == ASSUME THyp, NEW c, StuckAt(c), NEW V, Cancels(c, V) PROVE Places'
<1>1. /\ Types /\ Places /\ CInv /\ Elems(queue) \subseteq Job /\ OHyp
  BY TimeTypes
<1>2. /\ UNCHANGED <<scene, sub>> /\ pb'.pos = pb.pos /\ V \subseteq Elems(queue) /\ sub.step = "idle"
      /\ \A j \in Job : Kept(j) /\ (job'[j].cancelled <=> job[j].cancelled \/ j \in V)
      /\ \A k \in Positions : (\A i \in V \ {c} : ~Harmless(k, i)) => mem'[k] = mem[k]
  BY DEF Cancels, StuckAt
<1>3. Elems(queue') \subseteq Elems(queue)
  <2>1. PICK n : Shorter(n)
    BY DEF Cancels
  <2> QED BY <1>1, <2>1, ShorterFacts
<1>4. Ring' = Ring /\ Positions' = Positions /\ Off' = Off /\ Elems(queue)' = Elems(queue')
  BY <1>2 DEF Ring, Positions, Off, Dist, Elems
<1>5. \A i \in Elems(queue') : /\ Upto(i)' = Upto(i) /\ Off'[job'[i].first] = Off[job[i].first]
                               /\ job'[i].slots = job[i].slots
                               /\ (~job'[i].cancelled => ~job[i].cancelled /\ i \notin V)
  BY <1>1, <1>2, <1>3, <1>4 DEF Upto, Kept
<1>6. ASSUME NEW i \in Elems(queue'), ~job'[i].cancelled
      PROVE  job'[i].slots >= 4 /\ Lies(i, Upto(i) - 4, 4)'
  <2>1. i \in Elems(queue) /\ ~job[i].cancelled /\ i \notin V
    BY <1>3, <1>5, <1>6
  <2>2. /\ Upto(i) \in Nat /\ Off[job[i].first] \in Nat /\ job[i].slots \in Nat /\ job[i].slots >= 4
        /\ \A k \in Positions : Off[k] \in Nat
        /\ \A o \in Commanded : \E k \in Positions : /\ Off[k] = Upto(i) - 4 + Place[o]
                                                     /\ mem[k] = [job |-> i, op |-> o]
    BY <2>1, QueuedLies
  <2>3. ASSUME NEW o \in Commanded
        PROVE  \E k \in Positions : Off[k] = Upto(i) - 4 + Place[o] /\ mem'[k] = [job |-> i, op |-> o]
    <3>1. PICK k \in Positions : Off[k] = Upto(i) - 4 + Place[o] /\ mem[k] = [job |-> i, op |-> o]
      BY <2>2
    <3>2. Place[o] \in 0..3
      BY DEF Place, Commanded
    <3>3. Off[job[i].first] <= Off[k] /\ Off[k] < Upto(i)
      <4>1. Upto(i) = Off[job[i].first] + job[i].slots
        BY DEF Upto
      <4> QED BY <2>2, <3>1, <3>2, <4>1
    <3>4. \A v \in V \ {c} : ~Harmless(k, v)
      BY <1>2, <2>1, <3>3, Outside
    <3> QED BY <1>2, <3>1, <3>4
  <2> QED BY <1>4, <1>5, <2>2, <2>3 DEF Lies
<1>7. \A i, k \in Elems(queue') : i < k => Upto(i)' <= Off'[job'[k].first]
  BY <1>1, <1>3, <1>5 DEF Places
<1> QED BY <1>2, <1>4, <1>6, <1>7 DEF Places

\* Jobs that are left behind the failed one have everything to do yet.
LEMMA CancelTally ==
  ASSUME THyp, NEW c, StuckAt(c), Waits(c), queue # <<>>, queue[1] = c, NEW V, Cancels(c, V) PROVE Tally'
<1>1. /\ Types /\ Numbers /\ Progress /\ Tally /\ CInv /\ NoWrap /\ Elems(queue) \subseteq Job /\ OHyp
  BY TimeTypes
<1>2. /\ UNCHANGED <<scene, sub>> /\ V \subseteq Elems(queue) /\ \A i \in Elems(queue) : i \in V <=> Sp(i) = Sp(c)
      /\ \A j \in Job : Kept(j) /\ (job'[j].cancelled <=> job[j].cancelled \/ j \in V)
      /\ \A s \in Syncpt : sp'[s].value = sp[s].value /\ sp'[s].min \in {sp[s].min, sp[s].value}
      /\ \A j \in Elems(queue) \ Elems(queue') : job'[j].cancelled \/ Expired(sp'[Sp(j)].min, job[j].end)
      /\ \A p \in Job, x \in Commanded : Pending(p, x)' <=> Pending(p, x) /\ p > c /\ p \notin V
  BY DEF Cancels
<1>3. /\ c \in Elems(queue) /\ c \in Job /\ c \in Nat /\ \A p \in Job : Begun(p) /\ p < c => Gone(p)
  BY <1>1, FirstQueued, NumberTypes
<1> SUFFICES ASSUME NEW p \in Job PROVE Exact(p)'
  BY DEF Tally
<1>4. /\ Exact(p) /\ Told(p) /\ p \in Nat /\ Sp(p) \in Syncpt /\ Sp(p)' = Sp(p) /\ Value(p)' = Value(p)
      /\ (Begun(p)' <=> Begun(p)) /\ job'[p].end = job[p].end
  BY <1>1, <1>2, NumberTypes DEF Tally, Progress, Sp, Value, Kept, Alike, Begun
<1>5. ASSUME Gone(p)', NEW x \in Commanded, Pending(p, x)' PROVE FALSE
  <2>1. Pending(p, x) /\ p > c /\ p \notin V /\ Begun(p)
    BY <1>2, <1>4, <1>5 DEF Told
  <2>2. p \in Elems(queue) /\ p \notin Elems(queue')
    BY <1>2, <1>4, <1>5, <2>1 DEF Gone, Elems, Exact
  <2>3. ~job[p].cancelled /\ ~job'[p].cancelled
    BY <1>2, <1>4, <2>1 DEF Told
  <2>4. Value(p) < job[p].end
    BY <1>3, <2>1, <2>2, <2>3, BehindWaits
  <2>5. /\ sp'[Sp(p)].min \in scene.from..sp[Sp(p)].max /\ sp'[Sp(p)].min <= Value(p) /\ Value(p) \in Nat
        /\ sp'[Sp(p)].min \in Nat
    BY <1>1, <1>2, <1>4, Between DEF Value
  <2>6. Expired(sp'[Sp(p)].min, job[p].end)
    BY <1>2, <2>2, <2>3
  <2>7. sp'[Sp(p)].min >= job[p].end /\ job[p].end \in Nat
    BY <1>1, <2>1, <2>5, <2>6, Reached
  <2> QED BY <2>4, <2>5, <2>7
<1>6. ASSUME Begun(p), ~job'[p].cancelled, NEW x \in {"work", "final"}, ~Pending(p, x)'
      PROVE  Value(p)' >= job'[p].end + Rank[x] - 1
  <2>1. ~job[p].cancelled /\ p \notin V /\ p # c /\ x \in Commanded
    BY <1>2, <1>3, <1>6 DEF Commanded
  <2>2. ~Pending(p, x)
    <3>1. CASE p < c
      BY <1>3, <1>4, <1>6, <2>1, <3>1 DEF Exact
    <3>2. CASE p > c
      BY <1>2, <1>6, <2>1, <3>2
    <3> QED BY <1>3, <1>4, <2>1, <3>1, <3>2
  <2> QED BY <1>4, <1>6, <2>1, <2>2 DEF Exact
<1> QED BY <1>4, <1>5, <1>6 DEF Exact

\* cdma_timeout_handler() fails the job whose timer has gone off, and no other.
LEMMA HandlerTime == ASSUME THyp, Handler PROVE Timely'
<1>1. /\ Types /\ Timing /\ OwnTTL /\ OHyp /\ Elems(queue) \subseteq Job /\ job \in [Job -> Jobs]
      /\ queue \in Seq(Job) /\ Len(queue) \in Nat
  BY TimeTypes
<1>2. PICK c : c = handler
  OBVIOUS
<1>3. /\ ~hung /\ handler' = 0 /\ UNCHANGED <<scene, sub, update>>
      /\ StuckAt(c) /\ Waits(c) /\ queue # <<>> /\ queue[1] = c /\ job[c].expired /\ CancelFrom(c, 1)
      /\ timer.client = c
  BY <1>2, HandlerCancels
<1>4. PICK V : Cancels(c, V)
  BY <1>1, <1>3, CancelCancels
<1>5. Places' /\ Tally'
  BY <1>3, <1>4, CancelPlaces, CancelTally
<1> DEFINE W == Victims(1)
           jb == [i \in Job |-> [job[i] EXCEPT !.cancelled = @ \/ i \in W, !.failed = @ \/ i = c]]
<1>6. UpdateLocked(jb, sp')
  BY <1>3 DEF CancelFrom
<1>7. c \in W /\ c \in Job
  <2>1. /\ W = {queue[i] : i \in {n \in 1..Len(queue) : Sp(queue[n]) = Sp(queue[1])}}
        /\ 1 \in 1..Len(queue) /\ queue[1] = c /\ c \in Job
    BY <1>3 DEF Victims, StuckAt
  <2> HIDE DEF W
  <2> QED BY <2>1
<1> HIDE DEF W
<1>8. ASSUME NEW i \in Job
      PROVE  /\ jb[i] \in Jobs /\ jb[i].timed /\ jb[i].fence = job[i].fence /\ jb[i].expired = job[i].expired
             /\ jb[i].thresh = job[i].thresh /\ jb[i].end = job[i].end
             /\ jb[i].cancelled <=> job[i].cancelled \/ i \in W
  <2>1. job[i] \in Jobs /\ job[i].timed
    BY <1>1 DEF Timing
  <2>3. jb[i] = [job[i] EXCEPT !.cancelled = @ \/ i \in W, !.failed = @ \/ i = c]
    OBVIOUS
  <2> HIDE DEF jb
  <2>4. /\ jb[i] \in Jobs /\ jb[i].timed = job[i].timed /\ jb[i].fence = job[i].fence
        /\ jb[i].expired = job[i].expired /\ jb[i].thresh = job[i].thresh /\ jb[i].end = job[i].end
        /\ jb[i].cancelled <=> job[i].cancelled \/ i \in W
    <3> DEFINE x == job[i].cancelled \/ i \in W
               y == job[i].failed \/ i = c
    <3>1. jb[i] = [job[i] EXCEPT !.cancelled = x, !.failed = y] /\ x \in BOOLEAN /\ y \in BOOLEAN
      BY <2>3
    <3> HIDE DEF x, y
    <3>2. job[i] \in Jobs
      BY <1>1
    <3>3. jb[i] \in Jobs /\ jb[i].fence = job[i].fence /\ jb[i].thresh = job[i].thresh /\ jb[i].end = job[i].end
      BY <3>1, <3>2 DEF Jobs
    <3>4. jb[i].timed = job[i].timed
      BY <3>1, <3>2 DEF Jobs
    <3>5. jb[i].expired = job[i].expired
      BY <3>1, <3>2 DEF Jobs
    <3>6. jb[i].cancelled = x
      BY <3>1, <3>2 DEF Jobs
    <3> QED BY <3>3, <3>4, <3>5, <3>6 DEF x
  <2> QED BY <2>1, <2>4
<1>9. jb \in [Job -> Jobs]
  BY <1>8
<1>10. Over(jb, sp', queue[1])
  BY <1>3, <1>7, <1>8 DEF Over
<1> HIDE DEF jb
<1>11. /\ scene' = scene /\ update' \in BOOLEAN
       /\ \A s \in Syncpt : sp'[s].value = sp[s].value /\ sp'[s].min \in {sp[s].min, sp[s].value}
  BY <1>1, <1>3, <1>4 DEF Types, Cancels
<1>12. /\ Timing' /\ \A j \in Job : job'[j] = [jb[j] EXCEPT !.fence = job'[j].fence]
  BY <1>3, <1>6, <1>8, <1>9, <1>10, <1>11, UpdatedTiming
<1>13. OwnTTL'
  <2> SUFFICES ASSUME NEW j \in Job, job'[j].failed PROVE job'[j].expired
    BY DEF OwnTTL
  <2>1. job'[j].failed <=> job[j].failed \/ j = c
    BY <1>4 DEF Cancels
  <2>2. job[j].expired
    BY <1>1, <1>3, <2>1 DEF OwnTTL
  <2>3. job'[j].expired = jb[j].expired
    <3>1. jb[j] \in Jobs /\ job'[j] = [jb[j] EXCEPT !.fence = job'[j].fence]
      BY <1>8, <1>12
    <3> QED BY <3>1 DEF Jobs
  <2> QED BY <1>8, <2>2, <2>3
<1> QED BY <1>5, <1>12, <1>13 DEF Timely

-----------------------------------------------------------------------------
(* Their theorem.                                                          *)

\* At the start nobody is late.
LEMMA InitTime == Init => TInv
<1> SUFFICES ASSUME Init PROVE Timely
  BY DEF TInv
<1>1. /\ queue = <<>> /\ Elems(queue) = {} /\ sub.step = "idle" /\ timer.pending = FALSE /\ handler = 0
      /\ \A j \in Job : job[j].step = "new" /\ job[j].timed /\ ~job[j].failed
  BY EmptyFacts DEF Init
<1>2. Places
  BY <1>1 DEF Places
<1>3. Tally
  BY <1>1 DEF Tally, Exact, Begun
<1>4. Timing
  BY <1>1 DEF Timing, Signalled, Clock
<1>5. OwnTTL
  BY <1>1 DEF OwnTTL
<1> QED BY <1>2, <1>3, <1>4, <1>5 DEF Timely

\* No step makes anybody late.
LEMMA StepTime == CInv /\ WInv /\ OInv /\ TInv /\ [Next]_vars => TInv'
<1> SUFFICES ASSUME CInv, WInv, OInv, TInv, [Next]_vars, Roomy', NoWrap', Punctual' PROVE Timely'
  BY DEF TInv
<1>1. THyp /\ OHyp
  BY SameScene DEF THyp, OHyp, OInv, TInv, Roomy, NoWrap, Ring, Punctual, env
<1>2. CASE UNCHANGED vars
  BY <1>1, <1>2, SameTime
<1>3. CASE Next
  <2>1. ASSUME NEW j \in Job, BeginRuns(j) \/ Put(j) \/ FenceGivesUp(j) PROVE Timely'
    <3>1. CASE BeginRuns(j)
      BY <1>1, <3>1, BeginTime, OtherTime DEF BeginRuns
    <3> QED BY <1>1, <2>1, <3>1, OtherTime, FencesTime
  <2>2. ASSUME NEW s \in Syncpt, Interrupt(s) \/ Look(s) PROVE Timely'
    BY <1>1, <2>2, FencesTime
  <2>3. CASE Submit
    BY <1>1, <2>3, PushTime, WakeOrder, EndTime DEF Submit
  <2>4. CASE UpdateRuns \/ HandlerRuns \/ EngineRuns
    BY <1>1, <2>4, UpdateTime, HandlerTime, ExecTime DEF HandlerRuns, EngineRuns
  <2>5. CASE TimerGoesOff \/ StopRuns \/ StopCheck \/ StopWake
    BY <1>1, <2>5, FiresTime, OtherTime DEF StopRuns
  <2> QED BY <1>3, <2>1, <2>2, <2>3, <2>4, <2>5 DEF Next
<1> QED BY <1>2, <1>3

\* "the current sync_queue entry has exceeded its TTL": in a ring with room for all jobs,
\* while no counter wraps, and where drm.c does not ask for syncpt_recovery and fences and
\* timers keep their times, cdma_timeout_handler() fails no job but one whose own timer
\* has gone off: not one behind it, nor the one that has got the timer since; over hangs,
\* cancelled jobs, restarts of the DMA, cdma_stop() and engines that are early.
THEOREM FailsByOwnTimer == Spec => [](Roomy /\ NoWrap => OwnTimeout)
<1>1. TInv => (Roomy /\ NoWrap => OwnTimeout)
  BY DEF TInv, Timely, OwnTimeout, Punctual
<1>2. Init /\ [][Next]_vars /\ [](CInv /\ WInv /\ OInv) => []TInv
  <2>1. (CInv /\ WInv /\ OInv) /\ TInv /\ [Next]_vars => TInv'
    BY StepTime
  <2> QED BY <2>1, InitTime, PTL
<1> QED BY <1>1, <1>2, OrderInvariance, PTL DEF Spec
=============================================================================
