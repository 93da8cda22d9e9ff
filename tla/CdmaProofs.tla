----------------------------- MODULE CdmaProofs -----------------------------
(***************************************************************************)
(* Theorems about the command DMA of a host1x channel, for every number of *)
(* jobs and syncpoints, every ring and every trouble: what its queue and   *)
(* counters keep, and, in a ring with room for all jobs, that what the     *)
(* command processor fetches is whole.  The order in which it does the     *)
(* work is in CdmaOrder.                                                   *)
(***************************************************************************)
EXTENDS Cdma, SequenceFacts

-----------------------------------------------------------------------------
(* The slots of a set of jobs, added up.                                   *)

Pick(s) == CHOOSE j \in s : TRUE

\* f gives every subset of S its slots.
Adds(f, jb, S) ==
  f = [s \in SUBSET S |-> IF s = {} THEN 0 ELSE jb[Pick(s)].slots + f[s \ {Pick(s)}]]

\* Any set of subsets of a finite set has a member that no other is part of.
LEMMA Smallest ==
  ASSUME NEW S, IsFiniteSet(S), NEW C \in SUBSET (SUBSET S), C # {}
  PROVE  \E s \in C : \A t \in C : t \subseteq s => t = s
<1>1. IsWellFoundedOn(StrictSubsetOrdering(S), FiniteSubsetsOf(S))
  BY FS_StrictSubsetOrderingWellFounded
<1>2. C \subseteq FiniteSubsetsOf(S)
  BY FS_Subset DEF FiniteSubsetsOf
<1>3. PICK s \in C : \A t \in C : ~(<<t, s>> \in StrictSubsetOrdering(S))
  BY <1>1, <1>2, WFMin
<1> QED BY <1>3 DEF StrictSubsetOrdering

\* There are finitely many jobs, so that a smallest counterexample exists.
LEMMA FiniteJobs == IsFiniteSet(Job) /\ \A S \in SUBSET Job : IsFiniteSet(S)
<1>1. 1 \in Int /\ NJobs \in Int
  BY CdmaAssumption
<1>2. IsFiniteSet(Job)
  BY <1>1, FS_Interval DEF Job
<1> QED BY <1>2, FS_Subset

\* The smallest set of jobs for which something does not hold.
LEMMA SmallestJobs ==
  ASSUME NEW C \in SUBSET (SUBSET Job), C # {}
  PROVE  \E s \in C : \A t \in C : t \subseteq s => t = s
BY FiniteJobs, Smallest

\* A member picked is a member, and the set without it another one.
LEMMA Picked == ASSUME NEW s, s # {} PROVE Pick(s) \in s /\ s \ {Pick(s)} # s
BY DEF Pick

\* Two such functions agree where both are defined.
LEMMA AddsUnique ==
  ASSUME NEW jb, NEW S \in SUBSET Job, NEW T \in SUBSET Job, NEW f, Adds(f, jb, S), NEW g, Adds(g, jb, T)
  PROVE  \A s \in SUBSET (S \cap T) : f[s] = g[s]
<1> DEFINE C == {s \in SUBSET (S \cap T) : f[s] # g[s]}
<1> SUFFICES ASSUME C # {} PROVE FALSE
  OBVIOUS
<1>0. C \in SUBSET (SUBSET Job)
  OBVIOUS
<1>1. PICK s \in C : \A t \in C : t \subseteq s => t = s
  <2> HIDE DEF C
  <2> QED BY <1>0, SmallestJobs
<1>2. /\ f[s] = (IF s = {} THEN 0 ELSE jb[Pick(s)].slots + f[s \ {Pick(s)}])
      /\ g[s] = (IF s = {} THEN 0 ELSE jb[Pick(s)].slots + g[s \ {Pick(s)}])
  BY DEF Adds
<1>3. s # {}
  BY <1>2
<1>4. f[s \ {Pick(s)}] = g[s \ {Pick(s)}]
  BY <1>1, <1>3, Picked
<1> QED BY <1>2, <1>3, <1>4

\* SlotsOf is the last value of one.
LEMMA SlotsChosen ==
  ASSUME NEW jb, NEW S, NEW f, Adds(f, jb, S)
  PROVE  \E g : Adds(g, jb, S) /\ SlotsOf(jb, S) = g[S]
<1> DEFINE h == CHOOSE g : Adds(g, jb, S)
<1>1. Adds(h, jb, S)
  OBVIOUS
<1>2. SlotsOf(jb, S) = h[S]
  BY DEF SlotsOf, Adds, Pick, MapThenSumSet, MapThenFoldSet
<1> QED BY <1>1, <1>2

\* There is one for every set of jobs.
LEMMA AddsExists == ASSUME NEW jb, NEW S \in SUBSET Job PROVE \E f : Adds(f, jb, S)
<1> DEFINE C == {T \in SUBSET Job : ~\E f : Adds(f, jb, T)}
<1> SUFFICES ASSUME C # {} PROVE FALSE
  OBVIOUS
<1>0. C \in SUBSET (SUBSET Job)
  OBVIOUS
<1>1. PICK T \in C : \A t \in C : t \subseteq T => t = T
  <2> HIDE DEF C
  <2> QED BY <1>0, SmallestJobs
<1> DEFINE F == [s \in SUBSET T |-> IF s = {} THEN 0 ELSE jb[Pick(s)].slots + SlotsOf(jb, s \ {Pick(s)})]
<1>2. ASSUME NEW u \in SUBSET T, u # T PROVE F[u] = SlotsOf(jb, u)
  <2>1. PICK f : Adds(f, jb, u)
    BY <1>1, <1>2
  <2>2. PICK g : Adds(g, jb, u) /\ SlotsOf(jb, u) = g[u]
    BY <2>1, SlotsChosen
  <2>3. g[u] = (IF u = {} THEN 0 ELSE jb[Pick(u)].slots + g[u \ {Pick(u)}])
    BY <2>2 DEF Adds
  <2>4. CASE u = {}
    BY <2>2, <2>3, <2>4
  <2>5. CASE u # {}
    <3> DEFINE v == u \ {Pick(u)}
    <3>1. v \in SUBSET T /\ v # T
      BY <1>2, <2>5, Picked
    <3>2. PICK p : Adds(p, jb, v)
      BY <1>1, <3>1
    <3>3. PICK q : Adds(q, jb, v) /\ SlotsOf(jb, v) = q[v]
      BY <3>2, SlotsChosen
    <3>4. g[v] = q[v]
      BY <1>1, <2>2, <3>3, AddsUnique, SMTT(30)
    <3> QED BY <2>2, <2>3, <2>5, <3>3, <3>4
  <2> QED BY <2>4, <2>5
<1>3. ASSUME NEW s \in SUBSET T, s # {} PROVE F[s] = jb[Pick(s)].slots + F[s \ {Pick(s)}]
  <2>1. s \ {Pick(s)} \in SUBSET T /\ s \ {Pick(s)} # T
    BY <1>3, Picked
  <2>2. F[s \ {Pick(s)}] = SlotsOf(jb, s \ {Pick(s)})
    <3> HIDE DEF F
    <3> QED BY <1>2, <2>1
  <2> QED BY <1>3, <2>2
<1>4. F = [s \in SUBSET T |-> IF s = {} THEN 0 ELSE jb[Pick(s)].slots + F[s \ {Pick(s)}]]
  <2>1. \A s \in SUBSET T : F[s] = (IF s = {} THEN 0 ELSE jb[Pick(s)].slots + F[s \ {Pick(s)}])
    <3>1. F[{}] = 0
      OBVIOUS
    <3> HIDE DEF F
    <3> QED BY <1>3, <3>1
  <2>2. F = [s \in SUBSET T |-> F[s]]
    OBVIOUS
  <2> HIDE DEF F
  <2> QED BY <2>1, <2>2
<1>5. Adds(F, jb, T)
  <2> HIDE DEF F
  <2> QED BY <1>4 DEF Adds
<1> QED BY <1>1, <1>5

\* What SlotsOf computes, one job at a time.
LEMMA SlotsOne ==
  ASSUME NEW jb
  PROVE  /\ SlotsOf(jb, {}) = 0
         /\ \A S \in SUBSET Job : S # {} =>
              SlotsOf(jb, S) = jb[Pick(S)].slots + SlotsOf(jb, S \ {Pick(S)})
<1>1. ASSUME NEW S \in SUBSET Job
      PROVE  \E g : /\ Adds(g, jb, S) /\ SlotsOf(jb, S) = g[S]
                    /\ g[S] = (IF S = {} THEN 0 ELSE jb[Pick(S)].slots + g[S \ {Pick(S)}])
  <2>1. PICK f : Adds(f, jb, S)
    BY AddsExists
  <2>2. PICK g : Adds(g, jb, S) /\ SlotsOf(jb, S) = g[S]
    BY <2>1, SlotsChosen
  <2>3. g[S] = (IF S = {} THEN 0 ELSE jb[Pick(S)].slots + g[S \ {Pick(S)}])
    BY <2>2 DEF Adds
  <2> QED BY <2>2, <2>3
<1>2. SlotsOf(jb, {}) = 0
  BY <1>1
<1>3. ASSUME NEW S \in SUBSET Job, S # {}
      PROVE  SlotsOf(jb, S) = jb[Pick(S)].slots + SlotsOf(jb, S \ {Pick(S)})
  <2> DEFINE v == S \ {Pick(S)}
  <2>1. PICK g : /\ Adds(g, jb, S) /\ SlotsOf(jb, S) = g[S]
                 /\ g[S] = jb[Pick(S)].slots + g[v]
    BY <1>1, <1>3
  <2>2. PICK h : Adds(h, jb, v) /\ SlotsOf(jb, v) = h[v]
    BY <1>1
  <2>3. g[v] = h[v]
    BY <2>1, <2>2, AddsUnique
  <2> QED BY <2>1, <2>2, <2>3
<1> QED BY <1>2, <1>3

\* Every job has a number of slots.
Counts(jb) == \A j \in Job : jb[j].slots \in Nat

\* The slots of some jobs, as submitted, are a number: by the smallest set where they are not.
LEMMA SlotsNat == ASSUME NEW jb, Counts(jb), NEW S \in SUBSET Job PROVE SlotsOf(jb, S) \in Nat
<1> DEFINE C == {T \in SUBSET Job : SlotsOf(jb, T) \notin Nat}
<1> SUFFICES ASSUME C # {} PROVE FALSE
  OBVIOUS
<1>0. C \in SUBSET (SUBSET Job)
  OBVIOUS
<1>1. PICK T \in C : \A t \in C : t \subseteq T => t = T
  <2> HIDE DEF C
  <2> QED BY <1>0, SmallestJobs
<1>2. T # {}
  BY SlotsOne
<1>3. SlotsOf(jb, T \ {Pick(T)}) \in Nat
  BY <1>1, <1>2, Picked
<1>4. jb[Pick(T)].slots \in Nat
  BY <1>2, Picked DEF Counts
<1> QED BY <1>1, <1>2, <1>3, <1>4, SlotsOne

\* Any job of the set may come first.
LEMMA SlotsAny ==
  ASSUME NEW jb, Counts(jb), NEW S \in SUBSET Job, NEW j \in S
  PROVE  SlotsOf(jb, S) = jb[j].slots + SlotsOf(jb, S \ {j})
<1> DEFINE C == {T \in SUBSET Job : \E i \in T : SlotsOf(jb, T) # jb[i].slots + SlotsOf(jb, T \ {i})}
<1> SUFFICES ASSUME C # {} PROVE FALSE
  OBVIOUS
<1>0. C \in SUBSET (SUBSET Job)
  OBVIOUS
<1>1. PICK T \in C : \A t \in C : t \subseteq T => t = T
  <2> HIDE DEF C
  <2> QED BY <1>0, SmallestJobs
<1>2. PICK i \in T : SlotsOf(jb, T) # jb[i].slots + SlotsOf(jb, T \ {i})
  BY <1>1
<1> DEFINE p == Pick(T)
           U == T \ {p}
<1>3. p \in T /\ SlotsOf(jb, T) = jb[p].slots + SlotsOf(jb, U)
  BY <1>1, SlotsOne, Picked
<1>4. p # i
  BY <1>2, <1>3
<1> HIDE DEF p
<1>5. SlotsOf(jb, U) = jb[i].slots + SlotsOf(jb, U \ {i})
  BY <1>1, <1>3, <1>4, ZenonT(40)
<1>6. SlotsOf(jb, T \ {i}) = jb[p].slots + SlotsOf(jb, (T \ {i}) \ {p})
  BY <1>1, <1>3, <1>4
<1>7. (T \ {i}) \ {p} = U \ {i}
  OBVIOUS
<1>8. jb[p].slots \in Nat /\ jb[i].slots \in Nat /\ SlotsOf(jb, U \ {i}) \in Nat
  BY <1>1, <1>3, SlotsNat DEF Counts
<1> QED BY <1>2, <1>3, <1>5, <1>6, <1>7, <1>8

\* Two sets that share no job.
LEMMA SlotsBoth ==
  ASSUME NEW jb, Counts(jb), NEW A \in SUBSET Job, NEW B \in SUBSET Job, A \cap B = {}
  PROVE  SlotsOf(jb, A \cup B) = SlotsOf(jb, A) + SlotsOf(jb, B)
<1> DEFINE C == {T \in SUBSET A : SlotsOf(jb, T \cup B) # SlotsOf(jb, T) + SlotsOf(jb, B)}
<1> SUFFICES ASSUME C # {} PROVE FALSE
  OBVIOUS
<1>0. C \in SUBSET (SUBSET Job)
  OBVIOUS
<1>1. PICK T \in C : \A t \in C : t \subseteq T => t = T
  <2> HIDE DEF C
  <2> QED BY <1>0, SmallestJobs
<1>2. SlotsOf(jb, B) \in Nat
  BY SlotsNat
<1>3. T # {}
  <2> SUFFICES ASSUME T = {} PROVE FALSE
    OBVIOUS
  <2>1. T \cup B = B
    OBVIOUS
  <2>2. SlotsOf(jb, T \cup B) = SlotsOf(jb, B)
    BY <2>1, Zenon
  <2>3. SlotsOf(jb, T) = 0
    BY SlotsOne, Zenon
  <2>4. SlotsOf(jb, T \cup B) # SlotsOf(jb, T) + SlotsOf(jb, B)
    BY <1>1
  <2> QED BY <1>2, <2>2, <2>3, <2>4
<1>4. PICK j \in T : TRUE
  BY <1>3
<1>5. SlotsOf(jb, T) = jb[j].slots + SlotsOf(jb, T \ {j})
  BY SlotsAny
<1>6. SlotsOf(jb, T \cup B) = jb[j].slots + SlotsOf(jb, (T \cup B) \ {j})
  <2>1. T \cup B \in SUBSET Job /\ j \in T \cup B
    OBVIOUS
  <2> QED BY <2>1, SlotsAny
<1>7. (T \cup B) \ {j} = (T \ {j}) \cup B
  OBVIOUS
<1>8. SlotsOf(jb, (T \ {j}) \cup B) = SlotsOf(jb, T \ {j}) + SlotsOf(jb, B)
  BY <1>1, <1>4
<1>9. jb[j].slots \in Nat /\ SlotsOf(jb, T \ {j}) \in Nat
  BY SlotsNat DEF Counts
<1> QED BY <1>1, <1>2, <1>5, <1>6, <1>7, <1>8, <1>9

\* Only the slots of the jobs in the set matter.
LEMMA SlotsSame ==
  ASSUME NEW jb, NEW jc, Counts(jb), Counts(jc), NEW S \in SUBSET Job,
         \A j \in S : jb[j].slots = jc[j].slots
  PROVE  SlotsOf(jb, S) = SlotsOf(jc, S)
<1> DEFINE C == {T \in SUBSET S : SlotsOf(jb, T) # SlotsOf(jc, T)}
<1> SUFFICES ASSUME C # {} PROVE FALSE
  OBVIOUS
<1>0. C \in SUBSET (SUBSET Job)
  OBVIOUS
<1>1. PICK T \in C : \A t \in C : t \subseteq T => t = T
  <2> HIDE DEF C
  <2> QED BY <1>0, SmallestJobs
<1>2. T # {}
  BY <1>1, SlotsOne
<1>3. Pick(T) \in T /\ SlotsOf(jb, T \ {Pick(T)}) = SlotsOf(jc, T \ {Pick(T)})
  BY <1>1, <1>2, Picked
<1> QED BY <1>1, <1>2, <1>3, SlotsOne
-----------------------------------------------------------------------------
(* The inductive invariant.                                                *)

Positions == 0..(Ring - 1)
Jobs == [step : {"new", "refused", "submit", "held", "done", "stuck"}, first : Positions, slots : Nat,
         end : Int, thresh : Int, cancelled : BOOLEAN, timed : BOOLEAN,
         fence : {"none", "pending", "signalled", "missed", "gone"},
         ran : SUBSET {"work", "final", "release"}, expired : BOOLEAN, failed : BOOLEAN]

\* The types of all variables but the contents of the slots.
Types ==
  /\ scene \in Scenarios
  /\ sp \in [Syncpt -> [value : Int, min : Int, max : Int, locked : BOOLEAN]]
  /\ pb \in [pos : Positions, fence : Positions]
  /\ dma \in [get : Positions, put : Positions, on : BOOLEAN]
  /\ job \in [Job -> Jobs]
  /\ queue \in Seq(Job)
  /\ sub \in [step : {"idle", "push", "sleep", "yield", "end"}, job : Job \cup {0}, i : 0..4,
              free : Nat, used : Nat, first : Positions]
  /\ event \in {"none", "space", "empty"} /\ complete \in Nat
  /\ timer \in [client : Job \cup {0}, pending : BOOLEAN] /\ handler \in Job \cup {0}
  /\ update \in BOOLEAN /\ hung \in BOOLEAN /\ stop \in {"no", "check", "sleep", "done"}

\* A submission is that of a job which is not queued yet, and queued jobs have
\* been submitted once.
Submission ==
  /\ sub.step = "idle" <=> sub.job = 0
  /\ sub.step = "idle" => sub.free = 0 /\ sub.used = 0
  /\ sub.step \in {"push", "sleep", "yield"} => sub.i \in 1..3
  /\ \A j \in Job : job[j].step = "submit" <=> sub.job = j
  /\ \A j \in Elems(queue) : job[j].step \in {"held", "done"}
  /\ Distinct(queue)
  /\ timer.client # 0 => queue # <<>>

\* Everyone who sleeps has an event or a completion to wake up by.
Bit(on) == IF on THEN 1 ELSE 0
Wakeups == complete + Bit(event # "none") = Bit(sub.step = "sleep") + Bit(stop = "sleep")

\* What a submission believes to be free is free.
Slots == SlotsAccounted /\ sub.free <= Space

CInv == Types /\ Submission /\ Wakeups /\ Slots

-----------------------------------------------------------------------------
(* Distances in the ring, with positions p and f.                          *)

\* As far as the ring is long.
LEMMA RingFacts ==
  ASSUME NEW N \in Nat, N > 0, NEW x \in Int
  PROVE  /\ x % N \in 0..(N - 1)
         /\ 0 <= x /\ x < N => x % N = x
         /\ N <= x /\ x < 2 * N => x % N = x - N
         /\ 0 - N <= x /\ x < 0 => x % N = x + N
<1>1. x % N \in 0..(N - 1)
  OBVIOUS
<1>2. ASSUME 0 <= x, x < N PROVE x % N = x
  BY <1>2
<1>3. ASSUME N <= x, x < 2 * N PROVE x % N = x - N
  BY <1>3
<1>4. ASSUME 0 - N <= x, x < 0 PROVE x % N = x + N
  BY <1>4
<1> QED BY <1>1, <1>2, <1>3, <1>4

\* Writing n slots takes n from the space, freeing n gives them back.
LEMMA Moves ==
  ASSUME NEW N \in Nat, N > 0, NEW p \in 0..(N - 1), NEW f \in 0..(N - 1), NEW n \in Nat
  PROVE  /\ (f - p) % N \in 0..(N - 1) /\ (p + n) % N \in 0..(N - 1) /\ (f + n) % N \in 0..(N - 1)
         /\ n <= (f - p) % N => (f - ((p + n) % N)) % N = ((f - p) % N) - n
         /\ n + ((f - p) % N) < N => (((f + n) % N) - p) % N = ((f - p) % N) + n
<1>1. (f - p) % N \in 0..(N - 1) /\ (p + n) % N \in 0..(N - 1) /\ (f + n) % N \in 0..(N - 1)
  BY RingFacts
<1> DEFINE d == (f - p) % N
<1>2. d = (IF f >= p THEN f - p ELSE f - p + N)
  BY RingFacts
<1>3. ASSUME n <= d PROVE (f - ((p + n) % N)) % N = d - n
  <2> DEFINE q == (p + n) % N
  <2>1. p + n \in 0..(2 * N - 1)
    BY <1>1, <1>3
  <2>2. q = (IF p + n < N THEN p + n ELSE p + n - N)
    BY <2>1, RingFacts
  <2>3. (f - q) % N = (IF f >= q THEN f - q ELSE f - q + N)
    <3> q \in 0..(N - 1)
      BY <1>1
    <3> HIDE DEF q
    <3> QED BY RingFacts
  <2> HIDE DEF q, d
  <2> QED BY <1>2, <1>3, <2>2, <2>3
<1>4. ASSUME n + d < N PROVE (((f + n) % N) - p) % N = d + n
  <2> DEFINE q == (f + n) % N
  <2>1. f + n \in 0..(2 * N - 1)
    BY <1>1, <1>4
  <2>2. q = (IF f + n < N THEN f + n ELSE f + n - N)
    BY <2>1, RingFacts
  <2>3. (q - p) % N = (IF q >= p THEN q - p ELSE q - p + N)
    <3> q \in 0..(N - 1)
      BY <1>1
    <3> HIDE DEF q
    <3> QED BY RingFacts
  <2> HIDE DEF q, d
  <2> QED BY <1>2, <1>4, <2>2, <2>3
<1> QED BY <1>1, <1>3, <1>4

-----------------------------------------------------------------------------
(* What update_cdma_locked() does.                                         *)

\* The jobs of a queue up to its n-th, and the rest.
Out(n) == {queue[i] : i \in 1..n}

\* There is a first job that stays.
LEMMA RetiredFacts ==
  ASSUME queue \in Seq(Job), NEW jb, NEW sy
  PROVE  /\ Retired(jb, sy) \in 0..Len(queue)
         /\ \A i \in 1..Retired(jb, sy) : Over(jb, sy, queue[i])
         /\ Retired(jb, sy) < Len(queue) =>
              \/ ~Over(jb, sy, queue[Retired(jb, sy) + 1])
              \/ Retired(jb, sy) > 0 /\ Hangs(jb, queue[Retired(jb, sy)])
<1> DEFINE Stops(n) == n < Len(queue) => ~Over(jb, sy, queue[n + 1]) \/ (n > 0 /\ Hangs(jb, queue[n]))
           Found(n) == /\ \A i \in 1..n : Over(jb, sy, queue[i]) /\ (i < n => ~Hangs(jb, queue[i]))
                       /\ Stops(n)
           C == {n \in 0..Len(queue) : Stops(n)}
<1>1. C \subseteq Nat /\ C # {}
  <2>1. Len(queue) \in Nat
    OBVIOUS
  <2>2. Len(queue) \in C
    BY <2>1
  <2> QED BY <2>2
<1>2. PICK n \in C : \A m \in C : ~(<<m, n>> \in OpToRel(<, Nat))
  <2>1. IsWellFoundedOn(OpToRel(<, Nat), Nat)
    BY NatLessThanWellFounded
  <2> HIDE DEF C
  <2> QED BY <1>1, <2>1, WFMin
<1>3. n \in Nat /\ Len(queue) \in Nat /\ n <= Len(queue) /\ \A m \in C : ~(m < n)
  <2>1. n \in Nat /\ Len(queue) \in Nat /\ n <= Len(queue)
    OBVIOUS
  <2>2. ASSUME NEW m \in C PROVE ~(m < n)
    <3>1. m \in Nat
      OBVIOUS
    <3> HIDE DEF C
    <3> QED BY <1>2, <2>1, <3>1 DEF OpToRel
  <2> HIDE DEF C
  <2> QED BY <2>1, <2>2
<1>4. ASSUME NEW i \in 1..n PROVE Over(jb, sy, queue[i]) /\ (i < n => ~Hangs(jb, queue[i]))
  <2>1. i - 1 \in 0..Len(queue) /\ ~Stops(i - 1)
    BY <1>3
  <2>2. Over(jb, sy, queue[i])
    BY <1>3, <2>1
  <2>3. ASSUME i < n PROVE ~Hangs(jb, queue[i])
    <3>1. i \in 0..Len(queue) /\ ~Stops(i)
      BY <1>3, <2>3
    <3> QED BY <1>3, <3>1
  <2> QED BY <2>2, <2>3
<1>5. n \in 0..Len(queue) /\ Found(n)
  BY <1>4
<1>6. Retired(jb, sy) = CHOOSE m \in 0..Len(queue) : Found(m)
  BY DEF Retired
<1>7. Retired(jb, sy) \in 0..Len(queue) /\ Found(Retired(jb, sy))
  <2> HIDE DEF Found
  <2> QED BY <1>5, <1>6
<1> QED BY <1>7

\* The queue after n jobs have left it.
LEMMA RestFacts ==
  ASSUME queue \in Seq(Job), Distinct(queue), NEW n \in 0..Len(queue)
  PROVE  LET rest == SubSeq(queue, n + 1, Len(queue))
         IN  /\ rest \in Seq(Job) /\ Distinct(rest)
             /\ Out(n) \subseteq Job /\ Elems(queue) = Out(n) \cup Elems(rest)
             /\ Out(n) \cap Elems(rest) = {}
             /\ rest # <<>> => Head(rest) \in Job
             /\ n = 0 => rest = queue
<1> DEFINE rest == SubSeq(queue, n + 1, Len(queue))
<1>0. Len(queue) \in Nat /\ \A i \in 1..Len(queue) : queue[i] \in Job
  BY LenProperties, ElementOfSeq
<1>1. /\ rest \in Seq(Job) /\ Len(rest) = Len(queue) - n
      /\ \A i \in 1..(Len(queue) - n) : rest[i] = queue[n + i]
  BY <1>0, SubSeqProperties
<1>7. n = 0 => rest = queue
  <2> SUFFICES ASSUME n = 0 PROVE rest = queue
    OBVIOUS
  <2> QED BY <1>0, <1>1, SeqEqual
<1> HIDE DEF rest
<1>2. Distinct(rest)
  BY <1>0, <1>1 DEF Distinct
<1>3. Out(n) \subseteq Job
  BY <1>0 DEF Out
<1>4. Elems(queue) = Out(n) \cup Elems(rest)
  <2>1. ASSUME NEW x \in Elems(queue) PROVE x \in Out(n) \cup Elems(rest)
    <3>1. PICK i \in 1..Len(queue) : x = queue[i]
      BY DEF Elems
    <3>2. CASE i <= n
      BY <1>0, <3>1, <3>2 DEF Out
    <3>3. CASE i > n
      <4>1. i - n \in 1..Len(rest) /\ rest[i - n] = x
        BY <1>0, <1>1, <3>1, <3>3
      <4> QED BY <4>1 DEF Elems
    <3> QED BY <1>0, <3>2, <3>3
  <2>2. ASSUME NEW x \in Out(n) PROVE x \in Elems(queue)
    BY <1>0 DEF Out, Elems
  <2>3. ASSUME NEW x \in Elems(rest) PROVE x \in Elems(queue)
    <3>1. PICK i \in 1..Len(rest) : x = rest[i]
      BY DEF Elems
    <3>2. n + i \in 1..Len(queue) /\ x = queue[n + i]
      BY <1>0, <1>1, <3>1
    <3> QED BY <3>2 DEF Elems
  <2> QED BY <2>1, <2>2, <2>3
<1>5. Out(n) \cap Elems(rest) = {}
  <2> SUFFICES ASSUME NEW x \in Out(n), x \in Elems(rest) PROVE FALSE
    OBVIOUS
  <2>1. PICK i \in 1..n : x = queue[i]
    BY DEF Out
  <2>2. PICK k \in 1..Len(rest) : x = rest[k]
    BY DEF Elems
  <2>3. n + k \in 1..Len(queue) /\ queue[n + k] = queue[i] /\ i # n + k /\ i \in 1..Len(queue)
    BY <1>0, <1>1, <2>1, <2>2
  <2> QED BY <2>3 DEF Distinct
<1>6. rest # <<>> => Head(rest) \in Job
  BY <1>1
<1> QED BY <1>1, <1>2, <1>3, <1>4, <1>5, <1>6, <1>7 DEF rest

\* Constants that hold for every scenario.
LEMMA RingSize ==
  ASSUME Types
  PROVE  /\ Ring \in Nat /\ Ring > 5 /\ scene.sp \in [Job -> Syncpt] /\ 0 \notin Job
         /\ CounterMod \in Nat \ {0} /\ scene.at \in Positions /\ scene.from \in Int
<1>1. scene \in Scenarios
  BY DEF Types
<1>2. /\ scene.slots \in Nat /\ scene.slots > 5 /\ scene.sp \in [Job -> Syncpt]
      /\ scene.at \in 0..(scene.slots - 1) /\ scene.from \in 0..(CounterMod - 1)
  BY <1>1, CdmaAssumption
<1>3. CounterMod \in Nat \ {0} /\ 0 \notin Job
  BY CdmaAssumption DEF Job
<1> QED BY <1>2, <1>3 DEF Ring, Positions

\* The space of the ring, and the jobs that have the rest.
LEMMA SpaceFacts ==
  ASSUME CInv
  PROVE  /\ Space \in 0..(Ring - 1) /\ Counts(job) /\ Elems(queue) \in SUBSET Job
         /\ SlotsOf(job, Elems(queue)) \in Nat /\ sub.used \in Nat
         /\ Ring - 1 - Space = sub.used + SlotsOf(job, Elems(queue))
<1>1. Space \in 0..(Ring - 1)
  <2>1. Ring \in Nat /\ Ring > 5
    BY RingSize DEF CInv
  <2>2. pb.fence - pb.pos \in Int
    BY <2>1 DEF CInv, Types, Positions
  <2> QED BY <2>1, <2>2, RingFacts DEF Space, Dist
<1>2. Counts(job)
  BY DEF CInv, Types, Jobs, Counts
<1>3. Elems(queue) \in SUBSET Job
  BY LenProperties, ElementOfSeq DEF CInv, Types, Elems
<1>4. sub.used \in Nat
  BY DEF CInv, Types
<1>5. Ring - 1 - Space = sub.used + SlotsOf(job, Elems(queue))
  BY DEF CInv, Slots, SlotsAccounted, Elems
<1> QED BY <1>1, <1>2, <1>3, <1>4, <1>5, SlotsNat

\* update_cdma_locked() leaves a queue of jobs it had, a wakeup for each waiter it promises one,
\* and the slots accounted for: what it retires it gives back to the push buffer.
LEMMA UpdateFacts ==
  ASSUME CInv, NEW jb \in [Job -> Jobs], NEW sy, UpdateLocked(jb, sy), UNCHANGED <<scene, sub>>,
         \A j \in Job : jb[j].slots = job[j].slots /\ jb[j].step = job[j].step
  PROVE  /\ queue' \in Seq(Job) /\ Distinct(queue') /\ Elems(queue') \subseteq Elems(queue)
         /\ pb' \in [pos : Positions, fence : Positions]
         /\ job' \in [Job -> Jobs] /\ \A j \in Job : job'[j].step = job[j].step
         /\ timer' \in [client : Job \cup {0}, pending : BOOLEAN]
         /\ timer'.client # 0 => queue' # <<>>
         /\ event' \in {"none", "space", "empty"} /\ complete' \in Nat /\ hung' \in BOOLEAN
         /\ complete' + Bit(event' # "none") = complete + Bit(event # "none")
         /\ Slots'
<1> DEFINE n == Retired(jb, sy)
           out == Out(n)
           rest == SubSeq(queue, n + 1, Len(queue))
           hangs == n > 0 /\ Hangs(jb, queue[n])
<1>0. queue \in Seq(Job) /\ Distinct(queue) /\ n \in 0..Len(queue)
  BY RetiredFacts DEF CInv, Types, Submission
<1> HIDE DEF n
<1>1. /\ rest \in Seq(Job) /\ Distinct(rest)
      /\ out \subseteq Job /\ Elems(queue) = out \cup Elems(rest)
      /\ out \cap Elems(rest) = {}
      /\ rest # <<>> => Head(rest) \in Job
      /\ n = 0 => rest = queue
  BY <1>0, RestFacts
<1>2. /\ queue' = rest /\ pb' = [pb EXCEPT !.fence = (@ + SlotsOf(jb, out)) % Ring]
      /\ job' = [j \in Job |-> IF j \in out /\ jb[j].step = "done" THEN [jb[j] EXCEPT !.fence = "gone"]
                               ELSE jb[j]]
      /\ hung' = hangs
      /\ IF hangs THEN timer' = [client |-> 0, pending |-> FALSE] /\ UNCHANGED <<event, complete>>
         ELSE /\ timer' = TimerAfter(jb, rest, n)
              /\ event' = IF Signals(n, rest) THEN "none" ELSE event
              /\ complete' = IF Signals(n, rest) THEN complete + 1 ELSE complete
  BY DEF UpdateLocked, n, Out
<1> HIDE DEF rest, out, hangs
<1>3. queue' \in Seq(Job) /\ Distinct(queue') /\ Elems(queue') \subseteq Elems(queue)
  BY <1>1, <1>2
<1>4. job' \in [Job -> Jobs] /\ \A j \in Job : job'[j].step = job[j].step /\ job'[j].slots = job[j].slots
  <2>1. ASSUME NEW j \in Job
        PROVE  job'[j] \in Jobs /\ job'[j].step = job[j].step /\ job'[j].slots = job[j].slots
    <3>1. jb[j] \in Jobs /\ jb[j].step = job[j].step /\ jb[j].slots = job[j].slots
      OBVIOUS
    <3> QED BY <1>2, <3>1, SMTT(30) DEF Jobs
  <2> QED BY <1>2, <2>1
<1>5. /\ timer' \in [client : Job \cup {0}, pending : BOOLEAN]
      /\ timer'.client # 0 => queue' # <<>>
  <2>1. CASE hangs
    <3>1. timer' = [client |-> 0, pending |-> FALSE]
      BY <1>2, <2>1
    <3> QED BY <3>1
  <2>2. CASE ~hangs
    <3>2. timer' = TimerAfter(jb, rest, n) /\ queue' = rest
      BY <1>2, <2>2
    <3>1. timer \in [client : Job \cup {0}, pending : BOOLEAN] /\ (timer.client # 0 => queue # <<>>)
      BY DEF CInv, Types, Submission
    <3> QED BY <1>1, <3>1, <3>2 DEF TimerAfter
  <2> QED BY <2>1, <2>2
<1>6. /\ event' \in {"none", "space", "empty"} /\ complete' \in Nat /\ hung' \in BOOLEAN
      /\ complete' + Bit(event' # "none") = complete + Bit(event # "none")
  <2>1. event \in {"none", "space", "empty"} /\ complete \in Nat
    BY DEF CInv, Types
  <2>2. Signals(n, rest) => event # "none"
    BY <2>1 DEF Signals
  <2>3. hung' \in BOOLEAN
    BY <1>2 DEF hangs
  <2> QED BY <1>2, <2>1, <2>2, <2>3 DEF Bit
<1>7. /\ pb' \in [pos : Positions, fence : Positions] /\ Slots'
  <2> DEFINE a == SlotsOf(job, out)
             b == SlotsOf(job, Elems(rest))
  <2>1. Counts(job) /\ Counts(jb) /\ Counts(job') /\ out \in SUBSET Job /\ Elems(rest) \in SUBSET Job
    BY <1>1, <1>4, SpaceFacts DEF Jobs, Counts
  <2>2. SlotsOf(jb, out) = a /\ SlotsOf(job', Elems(rest)) = b
    BY <1>4, <2>1, SlotsSame
  <2>3. SlotsOf(job, Elems(queue)) = a + b /\ a \in Nat /\ b \in Nat
    <3>1. SlotsOf(job, out \cup Elems(rest)) = a + b
      BY <1>1, <2>1, SlotsBoth
    <3>2. SlotsOf(job, Elems(queue)) = SlotsOf(job, out \cup Elems(rest))
      BY <1>1, Zenon
    <3> QED BY <2>1, <3>1, <3>2, SlotsNat
  <2>4. /\ Space \in 0..(Ring - 1) /\ Ring \in Nat /\ Ring > 5 /\ sub.used \in Nat
        /\ Ring - 1 - Space = sub.used + (a + b)
    BY <2>3, SpaceFacts, RingSize DEF CInv
  <2> HIDE DEF a, b
  <2>5. pb.pos \in Positions /\ pb.fence \in Positions /\ pb \in [pos : Positions, fence : Positions]
    BY DEF CInv, Types
  <2>6. pb'.pos = pb.pos /\ pb'.fence = (pb.fence + a) % Ring /\ pb' = [pb EXCEPT !.fence = (pb.fence + a) % Ring]
    BY <1>2, <2>2, <2>5
  <2>7. pb'.fence \in Positions /\ (pb'.fence - pb'.pos) % Ring = Space + a
    BY <2>3, <2>4, <2>5, <2>6, Moves DEF Positions, Space, Dist
  <2>8. pb' \in [pos : Positions, fence : Positions]
    BY <2>5, <2>6, <2>7
  <2>9. Ring' = Ring /\ Space' = Space + a
    BY <2>7 DEF Space, Dist, Ring
  <2>10. SlotsAccounted'
    <3>1. {queue'[i] : i \in 1..Len(queue')} = Elems(rest)
      BY <1>2 DEF Elems
    <3>2. SlotsOf(job', {queue'[i] : i \in 1..Len(queue')}) = b
      BY <2>2, <3>1
    <3>3. Ring - 1 - (Space + a) = sub.used + b
      BY <2>3, <2>4
    <3> QED BY <2>9, <3>2, <3>3 DEF SlotsAccounted
  <2>11. sub'.free <= Space'
    <3>1. sub.free <= Space /\ sub.free \in Nat
      BY DEF CInv, Slots, Types
    <3> QED BY <2>3, <2>4, <2>9, <3>1
  <2> QED BY <2>8, <2>10, <2>11 DEF Slots
<1> QED BY <1>3, <1>4, <1>5, <1>6, <1>7

-----------------------------------------------------------------------------
(* One lemma for each action: it preserves the invariant.                  *)

\* The ring and the jobs' syncpoints are given with the scene and never change.
LEMMA StillThere ==
  ASSUME scene' = scene
  PROVE  Ring' = Ring /\ Positions' = Positions /\ Jobs' = Jobs /\ \A j : Sp(j)' = Sp(j)
BY DEF Ring, Positions, Jobs, Sp

\* The slots stay accounted for when nobody writes or frees any.
LEMMA Steady ==
  ASSUME CInv, UNCHANGED <<scene, pb, queue>>, sub'.used = sub.used, sub'.free = sub.free,
         job' \in [Job -> Jobs], \A j \in Job : job'[j].slots = job[j].slots
  PROVE  Slots'
<1>1. Counts(job) /\ Counts(job') /\ Elems(queue) \in SUBSET Job
  BY SpaceFacts DEF Counts, Jobs
<1>2. SlotsOf(job', Elems(queue)) = SlotsOf(job, Elems(queue))
  BY <1>1, SlotsSame
<1>3. {queue'[i] : i \in 1..Len(queue')} = Elems(queue) /\ {queue[i] : i \in 1..Len(queue)} = Elems(queue)
  BY DEF Elems
<1>4. SlotsOf(job', {queue'[i] : i \in 1..Len(queue')}) = SlotsOf(job, {queue[i] : i \in 1..Len(queue)})
  BY <1>2, <1>3
<1>5. Ring' = Ring /\ Space' = Space
  BY DEF Ring, Space, Dist
<1> QED BY <1>4, <1>5 DEF CInv, Slots, SlotsAccounted

\* Nor does anything else change where neither the queue nor a submission does.
LEMMA Quiet ==
  ASSUME CInv, UNCHANGED <<scene, pb, queue, sub, event, complete, stop, hung>>,
         job' \in [Job -> Jobs],
         \A j \in Job : /\ job'[j].slots = job[j].slots
                        /\ job'[j].step = "submit" <=> job[j].step = "submit"
                        /\ j \in Elems(queue) => job'[j].step \in {"held", "done"},
         sp' \in [Syncpt -> [value : Int, min : Int, max : Int, locked : BOOLEAN]],
         dma' \in [get : Positions, put : Positions, on : BOOLEAN],
         timer' \in [client : Job \cup {0}, pending : BOOLEAN], timer'.client = timer.client,
         handler' \in Job \cup {0}, update' \in BOOLEAN
  PROVE  CInv'
<1>1. Slots'
  BY Steady
<1>2. Positions' = Positions /\ Jobs' = Jobs
  BY StillThere
<1>3. Types'
  BY <1>2 DEF CInv, Types
<1>4. Submission'
  <2>1. Elems(queue)' = Elems(queue) /\ Distinct(queue)' = Distinct(queue)
    BY DEF Elems, Distinct
  <2>2. Elems(queue) \subseteq Job
    BY SpaceFacts
  <2> QED BY <2>1, <2>2 DEF CInv, Submission
<1>5. Wakeups'
  BY DEF CInv, Wakeups, Bit
<1> QED BY <1>1, <1>3, <1>4, <1>5 DEF CInv

\* At the start the ring is empty, nobody submits and nobody waits.
LEMMA InitCInv == Init => CInv
<1> SUFFICES ASSUME Init PROVE CInv
  OBVIOUS
<1>1. /\ Ring \in Nat /\ Ring > 5 /\ scene.at \in Positions /\ scene.from \in Int
      /\ 0 \in Positions /\ 0 \notin Job
  <2>1. scene \in Scenarios
    BY DEF Init
  <2>2. /\ scene.slots \in Nat /\ scene.slots > 5
        /\ scene.at \in 0..(scene.slots - 1) /\ scene.from \in 0..(CounterMod - 1)
    BY <2>1, CdmaAssumption
  <2>3. CounterMod \in Nat /\ 0 \notin Job
    BY CdmaAssumption DEF Job
  <2> QED BY <2>2, <2>3 DEF Ring, Positions
<1>2. (scene.at - 1) % Ring \in Positions
  BY <1>1, RingFacts DEF Positions
<1>3. Types
  <2>1. job \in [Job -> Jobs]
    BY <1>1 DEF Init, Jobs
  <2>2. sp \in [Syncpt -> [value : Int, min : Int, max : Int, locked : BOOLEAN]]
    BY <1>1 DEF Init
  <2>3. pb \in [pos : Positions, fence : Positions]
    BY <1>1, <1>2 DEF Init
  <2>4. dma \in [get : Positions, put : Positions, on : BOOLEAN]
    BY <1>1 DEF Init
  <2>5. sub \in [step : {"idle", "push", "sleep", "yield", "end"}, job : Job \cup {0}, i : 0..4,
                 free : Nat, used : Nat, first : Positions]
    BY <1>1 DEF Init
  <2>6. queue \in Seq(Job) /\ timer \in [client : Job \cup {0}, pending : BOOLEAN]
    BY DEF Init
  <2> QED BY <2>1, <2>2, <2>3, <2>4, <2>5, <2>6 DEF Init, Types
<1>4. Submission
  BY <1>1, EmptyFacts DEF Init, Submission
<1>5. Wakeups
  BY DEF Init, Wakeups, Bit
<1>6. Slots
  <2>1. Elems(queue) = {} /\ SlotsOf(job, {}) = 0
    BY EmptyFacts, SlotsOne DEF Init
  <2>2. SlotsOf(job, {queue[i] : i \in 1..Len(queue)}) = 0
    BY <2>1 DEF Elems
  <2>3. Space = Ring - 1
    <3>1. (scene.at - 1) % Ring = (IF scene.at = 0 THEN Ring - 1 ELSE scene.at - 1)
      BY <1>1, RingFacts DEF Positions
    <3>2. (((scene.at - 1) % Ring) - scene.at) % Ring = Ring - 1
      BY <1>1, <3>1, RingFacts DEF Positions
    <3> QED BY <3>2 DEF Space, Dist, Init
  <2>4. sub.used = 0 /\ sub.free = 0
    BY DEF Init
  <2> QED BY <1>1, <2>2, <2>3, <2>4 DEF Slots, SlotsAccounted
<1> QED BY <1>3, <1>4, <1>5, <1>6 DEF CInv

\* The types that most actions need.
LEMMA TypedJobs ==
  ASSUME CInv
  PROVE  /\ Types /\ job \in [Job -> Jobs] /\ \A j \in Job : job[j] \in Jobs
         /\ sp \in [Syncpt -> [value : Int, min : Int, max : Int, locked : BOOLEAN]]
         /\ dma \in [get : Positions, put : Positions, on : BOOLEAN]
         /\ timer \in [client : Job \cup {0}, pending : BOOLEAN]
         /\ update \in BOOLEAN /\ hung \in BOOLEAN /\ handler \in Job \cup {0}
BY DEF CInv, Types

\* host1x_cdma_begin(), with the increments host1x_job takes before: a job enters unqueued, without slots.
LEMMA BeginStep == ASSUME CInv, NEW j \in Job, Begin(j) PROVE CInv'
<1> DEFINE s == Sp(j)
           thresh == (sp[s].max + 2) % CounterMod
           end == (sp[s].max + 1) % CounterMod
<1>0. /\ scene' = scene /\ sub.step = "idle" /\ job[j].step = "new"
      /\ UNCHANGED <<pb, mem, queue, event, complete, timer, handler, update, stop, hung>>
  BY DEF Begin
<1>1. s \in Syncpt /\ thresh \in Int /\ end \in Int
  <2>1. s \in Syncpt /\ CounterMod \in Nat \ {0}
    BY RingSize, TypedJobs DEF Sp
  <2>2. sp[s].max \in Int
    <3> HIDE DEF s
    <3> QED BY <2>1, TypedJobs
  <2> HIDE DEF s
  <2> QED BY <2>1, <2>2, RingFacts
<1> HIDE DEF s, thresh, end
<1>2. CASE sp[s].locked
  <2>1. job' = [job EXCEPT ![j].step = "refused"] /\ UNCHANGED <<sub, sp, dma>>
    BY <1>2 DEF Begin, s
  <2>2. job' \in [Job -> Jobs] /\ \A i \in Job : job'[i].slots = job[i].slots
    BY <2>1, TypedJobs, SMTT(30) DEF Jobs
  <2>3. \A i \in Job : /\ job'[i].step = "submit" <=> job[i].step = "submit"
                       /\ i \in Elems(queue) => job'[i].step \in {"held", "done"}
    BY <1>0, <2>1, TypedJobs DEF Jobs, CInv, Submission
  <2> QED BY <1>0, <2>1, <2>2, <2>3, TypedJobs, Quiet
<1>3. CASE ~sp[s].locked
  <2>1. /\ sub' = [step |-> "push", job |-> j, i |-> 1, free |-> 0, used |-> 0, first |-> pb.pos]
        /\ job' = [job EXCEPT ![j].step = "submit", ![j].end = end, ![j].thresh = thresh]
        /\ sp' = [sp EXCEPT ![s].max = thresh]
        /\ dma' = IF dma.on THEN dma ELSE [get |-> pb.pos, put |-> pb.pos, on |-> TRUE]
    BY <1>3 DEF Begin, s, thresh, end
  <2>10. ASSUME NEW i \in Job
         PROVE  /\ job'[i] \in Jobs /\ job'[i].slots = job[i].slots
                /\ job'[i].step = (IF i = j THEN "submit" ELSE job[i].step)
    <3>1. job[i] \in Jobs
      BY TypedJobs
    <3>2. job'[i] = IF i = j THEN [job[i] EXCEPT !.step = "submit", !.end = end, !.thresh = thresh] ELSE job[i]
      BY <2>1, TypedJobs
    <3> QED BY <1>1, <3>1, <3>2, ZenonT(40) DEF Jobs
  <2>11. job' = [i \in Job |-> job'[i]]
    BY <2>1, TypedJobs
  <2>2. job' \in [Job -> Jobs] /\ \A i \in Job : job'[i].slots = job[i].slots
    BY <2>10, <2>11
  <2>3. \A i \in Job : job'[i].step = (IF i = j THEN "submit" ELSE job[i].step)
    BY <2>10
  <2>4. sp' \in [Syncpt -> [value : Int, min : Int, max : Int, locked : BOOLEAN]]
    BY <1>1, <2>1, TypedJobs
  <2>5. /\ dma' \in [get : Positions, put : Positions, on : BOOLEAN]
        /\ sub' \in [step : {"idle", "push", "sleep", "yield", "end"}, job : Job \cup {0}, i : 0..4,
                     free : Nat, used : Nat, first : Positions]
    BY <2>1 DEF CInv, Types
  <2>6. Types'
    BY <1>0, <2>2, <2>4, <2>5, StillThere DEF CInv, Types
  <2>7. Slots'
    BY <1>0, <2>1, <2>2, Steady DEF CInv, Submission
  <2>8. Wakeups'
    BY <1>0, <2>1 DEF CInv, Wakeups, Bit
  <2>9. Submission'
    <3>1. Elems(queue)' = Elems(queue) /\ Distinct(queue)' = Distinct(queue) /\ Elems(queue) \subseteq Job
      BY <1>0, SpaceFacts DEF Elems, Distinct
    <3>2. \A i \in Job : job[i].step # "submit" /\ (i \in Elems(queue) => job[i].step \in {"held", "done"})
      BY <1>0, RingSize DEF CInv, Submission
    <3>3. j # 0
      BY RingSize DEF CInv
    <3>4. sub'.step = "push" /\ sub'.job = j /\ sub'.i = 1
      BY <2>1
    <3>5. Distinct(queue) /\ (timer.client # 0 => queue # <<>>)
      BY DEF CInv, Submission
    <3> QED BY <1>0, <2>3, <3>1, <3>2, <3>3, <3>4, <3>5 DEF Submission
  <2> QED BY <2>6, <2>7, <2>8, <2>9 DEF CInv
<1> QED BY <1>2, <1>3

\* Putting a finished job gives no slot back a second time.
LEMMA PutStep == ASSUME CInv, NEW j \in Job, Put(j) PROVE CInv'
<1>1. /\ job[j].step = "held"
      /\ job' = [job EXCEPT
           ![j].step = IF ~Queued(j) /\ job[j].fence = "missed" THEN "stuck" ELSE "done",
           ![j].fence = IF Queued(j) THEN @ ELSE "gone"]
      /\ UNCHANGED <<scene, sp, pb, mem, dma, queue, sub, event, complete, timer, handler, update, stop, hung>>
  BY DEF Put
<1>2. Queued(j) <=> j \in Elems(queue)
  BY DEF Queued, Elems
<1>3. job' \in [Job -> Jobs] /\ \A i \in Job : job'[i].slots = job[i].slots
  <2> DEFINE st == IF ~Queued(j) /\ job[j].fence = "missed" THEN "stuck" ELSE "done"
             fe == IF Queued(j) THEN job[j].fence ELSE "gone"
  <2>1. job[j] \in Jobs /\ st \in {"stuck", "done"} /\ (fe = job[j].fence \/ fe = "gone")
    BY TypedJobs
  <2>2. job' = [job EXCEPT ![j].step = st, ![j].fence = fe]
    BY <1>1, TypedJobs DEF Jobs
  <2> HIDE DEF st, fe
  <2>3. [job[j] EXCEPT !.step = st, !.fence = fe] \in Jobs
    BY <2>1 DEF Jobs
  <2>4. [job[j] EXCEPT !.step = st, !.fence = fe].slots = job[j].slots
    BY <2>1 DEF Jobs
  <2>5. ASSUME NEW i \in Job PROVE job'[i] \in Jobs /\ job'[i].slots = job[i].slots
    BY <2>2, <2>3, <2>4, TypedJobs
  <2>6. job' = [i \in Job |-> job'[i]]
    BY <2>2, TypedJobs
  <2> QED BY <2>5, <2>6
<1>4. \A i \in Job : /\ job'[i].step = "submit" <=> job[i].step = "submit"
                     /\ i \in Elems(queue) => job'[i].step \in {"held", "done"}
  BY <1>1, <1>2, TypedJobs DEF Jobs, CInv, Submission
<1> QED BY <1>1, <1>3, <1>4, TypedJobs, Quiet

\* Steps that change nothing of a job but its fence and flags.
LEMMA SameSteps ==
  ASSUME CInv, \A j \in Job : job'[j].step = job[j].step
  PROVE  \A j \in Job : /\ job'[j].step = "submit" <=> job[j].step = "submit"
                        /\ j \in Elems(queue) => job'[j].step \in {"held", "done"}
BY DEF CInv, Submission

\* A fence that times out is signalled: the queue and the ring stay as they are.
LEMMA FenceTimeoutStep == ASSUME CInv, NEW j \in Job, FenceTimeout(j) PROVE CInv'
<1>1. /\ job' = [job EXCEPT ![j].fence = "signalled"] /\ update' = TRUE
      /\ UNCHANGED <<scene, sp, pb, mem, dma, queue, sub, event, complete, timer, handler, stop, hung>>
  BY DEF FenceTimeout
<1>2. /\ job' \in [Job -> Jobs]
      /\ \A i \in Job : job'[i].slots = job[i].slots /\ job'[i].step = job[i].step
  BY <1>1, TypedJobs DEF Jobs
<1> QED BY <1>1, <1>2, SameSteps, TypedJobs, Quiet

\* Reading a syncpoint changes its shadow value only.
LEMMA LoadFacts ==
  ASSUME Types, NEW s, Load(s)
  PROVE  sp' \in [Syncpt -> [value : Int, min : Int, max : Int, locked : BOOLEAN]]
BY ZenonT(40) DEF Types, Load

\* The syncpoint interrupt signals fences and asks for an update, no more.
LEMMA InterruptStep == ASSUME CInv, NEW s \in Syncpt, Interrupt(s) PROVE CInv'
<1> DEFINE D == Due(s, sp[s].value)
<1>1. /\ Load(s) /\ update' = TRUE
      /\ job' = [j \in Job |-> IF j \in D THEN [job[j] EXCEPT !.fence = "signalled"] ELSE job[j]]
      /\ UNCHANGED <<scene, pb, mem, dma, queue, sub, event, complete, timer, handler, stop, hung>>
  BY DEF Interrupt
<1> HIDE DEF D
<1>2. ASSUME NEW i \in Job
      PROVE  job'[i] \in Jobs /\ job'[i].slots = job[i].slots /\ job'[i].step = job[i].step
  <2>1. job[i] \in Jobs
    BY DEF CInv, Types
  <2> QED BY <1>1, <2>1, TypedJobs DEF Jobs
<1>3. job' \in [Job -> Jobs]
  BY <1>1, <1>2
<1> QED BY <1>1, <1>2, <1>3, LoadFacts, SameSteps, TypedJobs, Quiet

\* A reader that refreshes a shadow value disturbs nothing.
LEMMA LookStep == ASSUME CInv, NEW s \in Syncpt, Look(s) PROVE CInv'
<1>1. /\ Load(s)
      /\ UNCHANGED <<scene, pb, mem, dma, job, queue, sub, event, complete, timer, handler, update, stop, hung>>
  BY DEF Look
<1> QED BY <1>1, LoadFacts, SameSteps, TypedJobs, Quiet

\* The timer's expiry hands its client over to the handler.
LEMMA TimerFiresStep == ASSUME CInv, TimerFires PROVE CInv'
<1>1. /\ timer' = [timer EXCEPT !.pending = FALSE] /\ handler' = timer.client
      /\ job' = [job EXCEPT ![timer.client].expired = TRUE]
      /\ UNCHANGED <<scene, sp, pb, mem, dma, queue, sub, event, complete, update, stop, hung>>
  BY DEF TimerFires
<1>2. /\ job' \in [Job -> Jobs]
      /\ \A i \in Job : job'[i].slots = job[i].slots /\ job'[i].step = job[i].step
  <2>1. ASSUME NEW i \in Job
        PROVE  job'[i] \in Jobs /\ job'[i].slots = job[i].slots /\ job'[i].step = job[i].step
    <3>1. job[i] \in Jobs
      BY TypedJobs
    <3>2. job'[i] = IF i = timer.client THEN [job[i] EXCEPT !.expired = TRUE] ELSE job[i]
      BY <1>1, TypedJobs
    <3> QED BY <3>1, <3>2, ZenonT(40) DEF Jobs
  <2>2. job' = [i \in Job |-> job'[i]]
    BY <1>1, TypedJobs
  <2> QED BY <2>1, <2>2
<1>3. timer' \in [client : Job \cup {0}, pending : BOOLEAN] /\ timer'.client = timer.client
  BY <1>1 DEF CInv, Types
<1> QED BY <1>1, <1>2, <1>3, SameSteps, TypedJobs, Quiet

\* The engine fetches between the two pointers and never past put.
LEMMA ExecStep == ASSUME CInv, Exec PROVE CInv'
<1> DEFINE next == IF At.op = "pad" \/ dma.get = Ring - 1 THEN 0
                   ELSE IF At.op = "work" THEN dma.get + 2 ELSE dma.get + 1
<1>1. /\ dma' = [dma EXCEPT !.get = next % Ring]
      /\ sp' = IF At.op \in {"work", "final"} THEN [sp EXCEPT ![Sp(At.job)].value = (@ + 1) % CounterMod] ELSE sp
      /\ job' = IF At.op \in {"work", "final", "release"}
                  THEN [job EXCEPT ![At.job].ran = @ \cup {At.op}] ELSE job
      /\ UNCHANGED <<scene, pb, mem, queue, sub, event, complete, timer, handler, update, stop, hung>>
  BY DEF Exec
<1>2. dma' \in [get : Positions, put : Positions, on : BOOLEAN]
  <2>1. Ring \in Nat /\ Ring > 5 /\ dma.get \in Nat
    BY RingSize DEF CInv, Types, Positions
  <2>2. next \in Int
    BY <2>1
  <2>3. next % Ring \in Positions
    BY <2>1, <2>2, RingFacts DEF Positions
  <2> HIDE DEF next
  <2> QED BY <1>1, <2>3 DEF CInv, Types
<1> HIDE DEF next
<1>3. sp' \in [Syncpt -> [value : Int, min : Int, max : Int, locked : BOOLEAN]]
  <2>1. CounterMod \in Nat \ {0}
    BY RingSize DEF CInv
  <2>2. ASSUME NEW s \in Syncpt PROVE (sp[s].value + 1) % CounterMod \in Int
    <3>1. sp[s].value \in Int
      BY TypedJobs
    <3> QED BY <2>1, <3>1, RingFacts
  <2> QED BY <1>1, <2>2, TypedJobs, ZenonT(40)
<1>4. /\ job' \in [Job -> Jobs]
      /\ \A i \in Job : job'[i].slots = job[i].slots /\ job'[i].step = job[i].step
  <2>1. CASE At.op \in {"work", "final", "release"}
    <3>1. job' = [job EXCEPT ![At.job].ran = @ \cup {At.op}]
      BY <1>1, <2>1
    <3>2. ASSUME NEW i \in Job
          PROVE  job'[i] \in Jobs /\ job'[i].slots = job[i].slots /\ job'[i].step = job[i].step
      <4>1. job[i] \in Jobs
        BY TypedJobs
      <4>2. job'[i] = IF i = At.job THEN [job[i] EXCEPT !.ran = @ \cup {At.op}] ELSE job[i]
        BY <3>1, TypedJobs
      <4> QED BY <2>1, <4>1, <4>2 DEF Jobs
    <3>3. job' = [i \in Job |-> job'[i]]
      BY <3>1, TypedJobs
    <3> QED BY <3>2, <3>3
  <2>2. CASE At.op \notin {"work", "final", "release"}
    BY <1>1, <2>2, TypedJobs
  <2> QED BY <2>1, <2>2
<1> QED BY <1>1, <1>2, <1>3, <1>4, SameSteps, TypedJobs, Quiet

\* What is left of the invariant once update_cdma_locked() has run.
LEMMA Updated ==
  ASSUME CInv, NEW jb \in [Job -> Jobs], NEW sy, UpdateLocked(jb, sy),
         \A j \in Job : jb[j].slots = job[j].slots /\ jb[j].step = job[j].step,
         UNCHANGED <<scene, sub, stop>>,
         sp' \in [Syncpt -> [value : Int, min : Int, max : Int, locked : BOOLEAN]],
         dma' \in [get : Positions, put : Positions, on : BOOLEAN],
         handler' \in Job \cup {0}, update' \in BOOLEAN
  PROVE  CInv'
<1>1. /\ queue' \in Seq(Job) /\ Distinct(queue') /\ Elems(queue') \subseteq Elems(queue)
      /\ pb' \in [pos : Positions, fence : Positions]
      /\ job' \in [Job -> Jobs] /\ \A j \in Job : job'[j].step = job[j].step
      /\ timer' \in [client : Job \cup {0}, pending : BOOLEAN]
      /\ timer'.client # 0 => queue' # <<>>
      /\ event' \in {"none", "space", "empty"} /\ complete' \in Nat /\ hung' \in BOOLEAN
      /\ complete' + Bit(event' # "none") = complete + Bit(event # "none")
      /\ Slots'
  BY UpdateFacts
<1>2. Positions' = Positions /\ Jobs' = Jobs
  BY StillThere
<1>3. Types'
  BY <1>1, <1>2 DEF CInv, Types
<1>4. Submission'
  <2>1. Elems(queue)' = Elems(queue') /\ Distinct(queue)' = Distinct(queue')
    BY DEF Elems, Distinct
  <2>2. Elems(queue) \subseteq Job
    BY SpaceFacts
  <2>3. /\ sub.step = "idle" <=> sub.job = 0
        /\ sub.step = "idle" => sub.free = 0 /\ sub.used = 0
        /\ sub.step \in {"push", "sleep", "yield"} => sub.i \in 1..3
        /\ \A i \in Job : job[i].step = "submit" <=> sub.job = i
        /\ \A i \in Elems(queue) : job[i].step \in {"held", "done"}
    BY DEF CInv, Submission
  <2>4. \A i \in Elems(queue)' : job'[i].step \in {"held", "done"}
    BY <1>1, <2>1, <2>2, <2>3
  <2>5. ASSUME NEW i \in Job PROVE job'[i].step = "submit" <=> sub'.job = i
    <3>1. job'[i].step = job[i].step /\ sub' = sub
      BY <1>1
    <3>2. job[i].step = "submit" <=> sub.job = i
      BY <2>3
    <3> QED BY <3>1, <3>2
  <2> QED BY <1>1, <2>1, <2>3, <2>4, <2>5 DEF Submission
<1>5. Wakeups'
  BY <1>1 DEF CInv, Wakeups
<1> QED BY <1>1, <1>3, <1>4, <1>5 DEF CInv

\* cdma_update_work(): the update under the lock.
LEMMA UpdateStep == ASSUME CInv, Update PROVE CInv'
<1>1. /\ UpdateLocked(job, sp) /\ update' = FALSE
      /\ UNCHANGED <<scene, sp, mem, dma, sub, handler, stop>>
  BY DEF Update
<1> QED BY <1>1, TypedJobs, Updated

\* The job that the timeout work finds is one of the queue.
LEMMA StuckFacts ==
  ASSUME queue \in Seq(Job), NEW value
  PROVE  Stuck(value) \in 0..Len(queue)
<1> DEFINE S == {i \in 1..Len(queue) : value < job[queue[i]].end}
<1>1. S \subseteq Nat /\ Len(queue) \in Nat
  OBVIOUS
<1>2. CASE S = {}
  BY <1>1, <1>2 DEF Stuck
<1>3. CASE S # {}
  <2>1. PICK n \in S : \A m \in S : ~(<<m, n>> \in OpToRel(<, Nat))
    <3>1. IsWellFoundedOn(OpToRel(<, Nat), Nat)
      BY NatLessThanWellFounded
    <3> HIDE DEF S
    <3> QED BY <1>1, <1>3, <3>1, WFMin
  <2>2. \A m \in S : n <= m
    <3>1. \A m \in S : m \in Nat /\ n \in Nat
      BY <1>1
    <3> HIDE DEF S
    <3>2. ASSUME NEW m \in S PROVE ~(m < n)
      BY <2>1, <3>1 DEF OpToRel
    <3> QED BY <3>1, <3>2
  <2>3. Min(S) \in S
    <3> HIDE DEF S
    <3> QED BY <2>2 DEF Min
  <2>4. Stuck(value) = Min(S)
    BY <1>3 DEF Stuck
  <2>5. Min(S) \in 1..Len(queue)
    BY <2>3
  <2> QED BY <1>1, <2>4, <2>5
<1> QED BY <1>2, <1>3

\* Where cdma_resume() restarts fetching is a position of the ring.
LEMMA RestartFacts ==
  ASSUME CInv, NEW k \in 0..Len(queue), Restart(k)
  PROVE  dma' \in [get : Positions, put : Positions, on : BOOLEAN]
<1>1. RestartAt(k) \in Positions
  <2>1. CASE k = 0 \/ k = Len(queue)
    BY <2>1, TypedJobs DEF RestartAt
  <2>2. CASE ~(k = 0 \/ k = Len(queue))
    <3>1. queue \in Seq(Job) /\ Len(queue) \in Nat
      BY LenProperties DEF CInv, Types
    <3>2. k + 1 \in 1..Len(queue)
      BY <2>2, <3>1
    <3>3. queue[k + 1] \in Job
      BY <3>1, <3>2, ElementOfSeq
    <3>4. job[queue[k + 1]].first \in Positions
      BY <3>3, TypedJobs DEF Jobs
    <3> QED BY <2>2, <3>4 DEF RestartAt
  <2> QED BY <2>1, <2>2
<1>2. pb.pos \in Positions
  BY DEF CInv, Types
<1> QED BY <1>1, <1>2 DEF Restart

\* A timed-out job whose increments the CPU does: the queue and its slots stay as they are.
LEMMA RecoverStep ==
  ASSUME CInv, NEW k \in 1..Len(queue), NEW j \in Job, Recover(j, k), handler' = 0,
         UNCHANGED <<scene, sub, update, stop>>
  PROVE  CInv'
<1>1. /\ job' = [job EXCEPT ![j] = [@ EXCEPT !.timed = FALSE, !.failed = TRUE]]
      /\ sp' = [sp EXCEPT ![Sp(timer.client)] = [@ EXCEPT !.value = job[j].end, !.min = job[j].end]]
      /\ Restart(k)
      /\ UNCHANGED <<pb, mem, queue, event, complete, timer, hung>>
  BY DEF Recover
<1>2. /\ job' \in [Job -> Jobs]
      /\ \A i \in Job : job'[i].slots = job[i].slots /\ job'[i].step = job[i].step
  <2>1. ASSUME NEW i \in Job
        PROVE  job'[i] \in Jobs /\ job'[i].slots = job[i].slots /\ job'[i].step = job[i].step
    <3>1. job[i] \in Jobs
      BY TypedJobs
    <3>2. job'[i] = IF i = j THEN [job[i] EXCEPT !.timed = FALSE, !.failed = TRUE] ELSE job[i]
      BY <1>1, TypedJobs
    <3> QED BY <3>1, <3>2, ZenonT(40) DEF Jobs
  <2>2. job' = [i \in Job |-> job'[i]]
    BY <1>1, TypedJobs
  <2> QED BY <2>1, <2>2
<1>3. sp' \in [Syncpt -> [value : Int, min : Int, max : Int, locked : BOOLEAN]]
  <2>1. job[j].end \in Int
    BY TypedJobs DEF Jobs
  <2> QED BY <1>1, <2>1, TypedJobs
<1>4. dma' \in [get : Positions, put : Positions, on : BOOLEAN]
  BY <1>1, RestartFacts
<1>5. 0 \in Job \cup {0}
  OBVIOUS
<1> QED BY <1>1, <1>2, <1>3, <1>4, <1>5, SameSteps, TypedJobs, Quiet

\* A timed-out job that takes the later ones of its client with it.
LEMMA CancelStep ==
  ASSUME CInv, NEW k \in 1..Len(queue), NEW j \in Job, CancelFrom(j, k), handler' = 0,
         UNCHANGED <<scene, sub, update, stop>>
  PROVE  CInv'
<1> DEFINE sy == [s \in Syncpt |-> [sp[s] EXCEPT !.min = IF s = Sp(timer.client) THEN sp[s].value ELSE @,
                                                    !.locked = @ \/ s = Sp(j)]]
           jb == [i \in Job |-> [job[i] EXCEPT !.cancelled = @ \/ i \in Victims(k), !.failed = @ \/ i = j]]
<1>1. sp' = sy /\ UpdateLocked(jb, sy) /\ Restart(k)
  BY DEF CancelFrom
<1>2. ASSUME NEW i \in Job
      PROVE  jb[i] \in Jobs /\ jb[i].slots = job[i].slots /\ jb[i].step = job[i].step
  <2>1. job[i] \in Jobs
    BY TypedJobs
  <2>2. (job[i].cancelled \/ i \in Victims(k)) \in BOOLEAN /\ (job[i].failed \/ i = j) \in BOOLEAN
    OBVIOUS
  <2> QED BY <2>1, <2>2 DEF Jobs
<1>3. jb \in [Job -> Jobs]
  BY <1>2
<1>4. sy \in [Syncpt -> [value : Int, min : Int, max : Int, locked : BOOLEAN]]
  <2> SUFFICES ASSUME NEW s \in Syncpt PROVE sy[s] \in [value : Int, min : Int, max : Int, locked : BOOLEAN]
    OBVIOUS
  <2>1. sp[s] \in [value : Int, min : Int, max : Int, locked : BOOLEAN]
    BY TypedJobs
  <2>2. PICK m, l : /\ m = (IF s = Sp(timer.client) THEN sp[s].value ELSE sp[s].min)
                    /\ l = (sp[s].locked \/ s = Sp(j))
    OBVIOUS
  <2>3. m \in Int /\ l \in BOOLEAN
    BY <2>1, <2>2
  <2>4. sy[s] = [sp[s] EXCEPT !.min = m, !.locked = l]
    BY <2>2
  <2> HIDE DEF sy
  <2> QED BY <2>1, <2>3, <2>4, ZenonT(40)
<1> HIDE DEF sy, jb
<1>5. dma' \in [get : Positions, put : Positions, on : BOOLEAN]
  <2>1. k \in 0..Len(queue)
    BY LenProperties DEF CInv, Types
  <2> QED BY <1>1, <2>1, RestartFacts
<1> QED BY <1>1, <1>2, <1>3, <1>4, <1>5, TypedJobs, Updated

\* cdma_timeout_handler(), whichever of its returns it takes.
LEMMA HandlerStep == ASSUME CInv, Handler PROVE CInv'
<1> DEFINE c == timer.client
           k == Stuck(sp[Sp(c)].value)
<1>1. handler' = 0 /\ UNCHANGED <<scene, sub, update, stop>>
  BY DEF Handler
<1>2. queue \in Seq(Job) /\ Len(queue) \in Nat /\ \A i \in 1..Len(queue) : queue[i] \in Job
  BY LenProperties, ElementOfSeq DEF CInv, Types
<1>3. k \in 0..Len(queue)
  BY <1>2, StuckFacts
<1>4. \/ UNCHANGED <<sp, dma>> /\ UNCHANGED <<pb, mem, job, queue, event, complete, timer, hung>>
      \/ Load(Sp(c)) /\ UNCHANGED dma /\ UNCHANGED <<pb, mem, job, queue, event, complete, timer, hung>>
      \/ Load(Sp(c)) /\ Restart(0) /\ UNCHANGED <<pb, mem, job, queue, event, complete, timer, hung>>
      \/ k # 0 /\ Recover(queue[k], k)
      \/ k # 0 /\ CancelFrom(queue[k], k)
  BY DEF Handler
<1> HIDE DEF c, k
<1>5. CASE UNCHANGED <<sp, dma>> /\ UNCHANGED <<pb, mem, job, queue, event, complete, timer, hung>>
  BY <1>1, <1>5, SameSteps, TypedJobs, Quiet
<1>6. CASE Load(Sp(c)) /\ UNCHANGED dma /\ UNCHANGED <<pb, mem, job, queue, event, complete, timer, hung>>
  BY <1>1, <1>6, LoadFacts, SameSteps, TypedJobs, Quiet
<1>7. CASE Load(Sp(c)) /\ Restart(0) /\ UNCHANGED <<pb, mem, job, queue, event, complete, timer, hung>>
  BY <1>1, <1>2, <1>7, LoadFacts, RestartFacts, SameSteps, TypedJobs, Quiet
<1>8. CASE k # 0 /\ Recover(queue[k], k)
  BY <1>1, <1>2, <1>3, <1>8, RecoverStep
<1>9. CASE k # 0 /\ CancelFrom(queue[k], k)
  BY <1>1, <1>2, <1>3, <1>9, CancelStep
<1> QED BY <1>4, <1>5, <1>6, <1>7, <1>8, <1>9

\* Steps of cdma_stop() leave everything but the wake-ups alone.
LEMMA StopsOnly ==
  ASSUME CInv, UNCHANGED <<scene, sp, pb, job, queue, sub, timer, handler, update, hung>>,
         dma' \in [get : Positions, put : Positions, on : BOOLEAN],
         event' \in {"none", "space", "empty"}, complete' \in Nat,
         stop' \in {"no", "check", "sleep", "done"}, Wakeups'
  PROVE  CInv'
<1>1. Slots'
  BY TypedJobs, Steady
<1>2. Types'
  BY StillThere DEF CInv, Types
<1>3. Submission'
  <2>1. Elems(queue)' = Elems(queue) /\ Distinct(queue)' = Distinct(queue)
    BY DEF Elems, Distinct
  <2> QED BY <2>1 DEF CInv, Submission
<1> QED BY <1>1, <1>2, <1>3 DEF CInv

\* cdma_stop(), waiting for an empty queue and then stopping the engine.
LEMMA StopSteps == ASSUME CInv, StopCall \/ StopCheck \/ StopWake PROVE CInv'
<1>0. /\ event \in {"none", "space", "empty"} /\ complete \in Nat /\ Wakeups
      /\ stop \in {"no", "check", "sleep", "done"}
  BY DEF CInv, Types
<1>1. CASE StopCall
  <2>1. /\ stop = "no" /\ stop' = "check"
        /\ UNCHANGED <<scene, sp, pb, mem, dma, job, queue, sub, event, complete, timer, handler, update, hung>>
    BY <1>1 DEF StopCall
  <2>2. Wakeups'
    BY <1>0, <2>1 DEF Wakeups, Bit
  <2> QED BY <1>0, <2>1, <2>2, TypedJobs, StopsOnly
<1>2. CASE StopCheck
  <2>1. /\ stop = "check"
        /\ UNCHANGED <<scene, sp, pb, mem, job, queue, sub, complete, timer, handler, update, hung>>
        /\ \/ stop' = "done" /\ dma' = [dma EXCEPT !.on = FALSE] /\ UNCHANGED event
           \/ event = "none" /\ stop' = "sleep" /\ event' = "empty" /\ UNCHANGED dma
    BY <1>2 DEF StopCheck
  <2>2. Wakeups'
    BY <1>0, <2>1 DEF Wakeups, Bit
  <2>3. dma' \in [get : Positions, put : Positions, on : BOOLEAN]
    BY <2>1, TypedJobs
  <2> QED BY <1>0, <2>1, <2>2, <2>3, StopsOnly
<1>3. CASE StopWake
  <2>1. /\ stop = "sleep" /\ complete > 0
        /\ complete' = complete - 1 /\ stop' = "check"
        /\ UNCHANGED <<scene, sp, pb, mem, dma, job, queue, sub, event, timer, handler, update, hung>>
    BY <1>3 DEF StopWake
  <2>2. Wakeups' /\ complete' \in Nat
    BY <1>0, <2>1 DEF Wakeups, Bit
  <2> QED BY <1>0, <2>1, <2>2, TypedJobs, StopsOnly
<1> QED BY <1>1, <1>2, <1>3

\* Steps of a submission that neither begin nor end it.
Subs == [step : {"idle", "push", "sleep", "yield", "end"}, job : Job \cup {0}, i : 0..4,
         free : Nat, used : Nat, first : Positions]

\* The facts shared by every step inside host1x_cdma_push(): the queue and the jobs stay.
LEMMA Submitting ==
  ASSUME CInv, UNCHANGED <<scene, sp, job, queue, timer, handler, update, stop, hung>>,
         pb' \in [pos : Positions, fence : Positions],
         dma' \in [get : Positions, put : Positions, on : BOOLEAN],
         sub' \in Subs, sub'.job = sub.job, sub.step # "idle", sub'.step # "idle",
         sub'.step \in {"push", "sleep", "yield"} => sub'.i \in 1..3,
         event' \in {"none", "space", "empty"}, complete' \in Nat, Wakeups', Slots'
  PROVE  CInv'
<1>1. Types'
  <2>1. Positions' = Positions /\ Jobs' = Jobs
    BY StillThere
  <2> QED BY <2>1 DEF CInv, Types, Subs
<1>2. Submission'
  <2>1. Elems(queue)' = Elems(queue) /\ Distinct(queue)' = Distinct(queue)
    BY DEF Elems, Distinct
  <2> QED BY <2>1 DEF CInv, Submission
<1> QED BY <1>1, <1>2 DEF CInv

\* What a submission is and has before such a step.
LEMMA SubFacts ==
  ASSUME CInv
  PROVE  /\ sub \in Subs /\ sub.free <= Space
         /\ pb \in [pos : Positions, fence : Positions] /\ Ring \in Nat /\ Ring > 5
         /\ Space \in 0..(Ring - 1) /\ Ring - 1 - Space = sub.used + SlotsOf(job, Elems(queue))
         /\ SlotsOf(job, Elems(queue)) \in Nat
         /\ sub.step \in {"push", "sleep", "yield"} => sub.i \in 1..3
         /\ event \in {"none", "space", "empty"} /\ complete \in Nat /\ Wakeups
BY SpaceFacts, RingSize DEF CInv, Types, Subs, Slots, Submission

\* Slots that are written are used.
LEMMA Written ==
  ASSUME CInv, NEW n \in Nat, n <= Space, UNCHANGED <<scene, job, queue>>,
         pb' = [pb EXCEPT !.pos = (@ + n) % Ring],
         sub'.used = sub.used + n, sub'.free <= Space - n
  PROVE  pb' \in [pos : Positions, fence : Positions] /\ Slots'
<1>1. pb'.fence = pb.fence /\ pb'.pos = (pb.pos + n) % Ring
  BY SubFacts
<1>2. (pb.pos + n) % Ring \in Positions /\ (pb'.fence - pb'.pos) % Ring = Space - n
  BY <1>1, SubFacts, Moves DEF Space, Dist, Positions
<1>3. pb' \in [pos : Positions, fence : Positions]
  BY <1>2, SubFacts
<1>4. Ring' = Ring /\ Space' = Space - n
  BY <1>2 DEF Ring, Space, Dist
<1>5. /\ {queue'[i] : i \in 1..Len(queue')} = Elems(queue)
      /\ SlotsOf(job', {queue'[i] : i \in 1..Len(queue')}) = SlotsOf(job, Elems(queue))
  BY DEF Elems
<1>6. Ring - 1 - (Space - n) = (sub.used + n) + SlotsOf(job, Elems(queue))
  BY SubFacts DEF Subs
<1>7. SlotsAccounted'
  BY <1>4, <1>5, <1>6 DEF SlotsAccounted
<1> QED BY <1>3, <1>4, <1>7 DEF Slots

\* Waiting for space is a step of a submission that has none left.
LEMMA WaitStep ==
  ASSUME CInv, WaitForSpace, sub.step = "push",
         UNCHANGED <<scene, sp, job, queue, complete, timer, handler, update, stop, hung>>
  PROVE  CInv'
<1>1. /\ Flush /\ UNCHANGED <<pb, mem>>
      /\ \/ event = "none" /\ event' = "space" /\ sub' = [sub EXCEPT !.step = "sleep"]
         \/ event # "none" /\ UNCHANGED event /\ sub' = [sub EXCEPT !.step = "yield"]
  BY DEF WaitForSpace
<1>2. /\ sub' \in Subs /\ sub'.job = sub.job /\ sub'.used = sub.used /\ sub'.free = sub.free
      /\ sub'.i = sub.i /\ sub'.step \in {"sleep", "yield"}
      /\ sub'.step = "sleep" <=> event = "none"
  BY <1>1, SubFacts DEF Subs
<1>3. dma' \in [get : Positions, put : Positions, on : BOOLEAN]
  BY SubFacts, TypedJobs DEF Flush, WaitForSpace
<1>4. Wakeups' /\ event' \in {"none", "space", "empty"}
  BY <1>1, <1>2, SubFacts DEF Wakeups, Bit
<1>5. Slots'
  BY <1>1, <1>2, TypedJobs, Steady
<1> QED BY <1>1, <1>2, <1>3, <1>4, <1>5, SubFacts, Submitting

\* The submission goes on behind what it has written.
LEMMA PushedStep ==
  ASSUME CInv, sub.step = "push", NEW ops \in Seq({"pad", "work", "arg", "final", "release"}), Write(ops),
         NEW free \in Nat, Pushed(free, Len(ops)), Len(ops) <= Space, free <= Space - Len(ops),
         dma' \in [get : Positions, put : Positions, on : BOOLEAN],
         UNCHANGED <<scene, sp, job, queue, event, complete, timer, handler, update, stop, hung>>
  PROVE  CInv'
<1> DEFINE n == Len(ops)
<1>1. n \in Nat /\ pb' = [pb EXCEPT !.pos = (@ + n) % Ring]
  BY DEF Write
<1> HIDE DEF n
<1>2. sub' = [sub EXCEPT !.step = IF sub.i = 3 THEN "end" ELSE "push", !.i = @ + 1, !.free = free, !.used = @ + n]
  BY DEF Pushed, Ops, n
<1>3. sub \in Subs /\ sub.i \in 1..3
  BY SubFacts
<1>4. /\ sub' \in Subs /\ sub'.job = sub.job /\ sub'.used = sub.used + n /\ sub'.free = free
      /\ sub'.step \in {"push", "end"} /\ (sub'.step = "push" => sub'.i \in 1..3)
  <2> DEFINE st == IF sub.i = 3 THEN "end" ELSE "push"
  <2>1. sub.used + n \in Nat /\ sub.i + 1 \in 0..4 /\ (sub.i # 3 => sub.i + 1 \in 1..3)
    BY <1>1, <1>3 DEF Subs
  <2>2. sub' = [step |-> st, job |-> sub.job, i |-> sub.i + 1, free |-> free, used |-> sub.used + n,
                first |-> sub.first]
    BY <1>2, <1>3 DEF Subs
  <2>3. st \in {"push", "end"} /\ (st = "push" => sub.i # 3)
    OBVIOUS
  <2> HIDE DEF st
  <2> QED BY <1>3, <2>1, <2>2, <2>3 DEF Subs
<1>5. pb' \in [pos : Positions, fence : Positions] /\ Slots'
  BY <1>1, <1>4, Written DEF n
<1>6. Wakeups' /\ event' \in {"none", "space", "empty"} /\ complete' \in Nat
  BY <1>4, SubFacts DEF Wakeups, Bit
<1> QED BY <1>4, <1>5, <1>6, Submitting

\* host1x_cdma_push_wide(), with its padding before the ring's end.
LEMMA PushWideStep == ASSUME CInv, PushWide PROVE CInv'
<1> DEFINE ops == Padding \o <<"work", "arg">>
<1>1. /\ sub.step = "push"
      /\ UNCHANGED <<scene, sp, job, queue, complete, timer, handler, update, stop, hung>>
      /\ \/ WaitForSpace
         \/ /\ ~(Space < Len(ops)) /\ Write(ops) /\ Pushed(Space - Len(ops), Len(ops))
            /\ UNCHANGED <<dma, event>>
  BY DEF PushWide
<1>2. ops \in Seq({"pad", "work", "arg", "final", "release"}) /\ Len(ops) \in Nat
  BY DEF Padding
<1> HIDE DEF ops
<1>3. CASE WaitForSpace
  BY <1>1, <1>3, WaitStep
<1>4. CASE ~(Space < Len(ops)) /\ Write(ops) /\ Pushed(Space - Len(ops), Len(ops)) /\ UNCHANGED <<dma, event>>
  <2>1. Len(ops) <= Space /\ Space - Len(ops) \in Nat /\ Space - Len(ops) <= Space - Len(ops)
    BY <1>2, <1>4, SubFacts
  <2> QED BY <1>1, <1>2, <1>4, <2>1, TypedJobs, PushedStep
<1> QED BY <1>1, <1>3, <1>4

\* host1x_cdma_push().
LEMMA PushStep == ASSUME CInv, Push PROVE CInv'
<1> DEFINE had == IF sub.free = 0 THEN Space ELSE sub.free
           ops == <<Ops[sub.i]>>
<1>1. /\ sub.step = "push" /\ Ops[sub.i] # "work"
      /\ UNCHANGED <<scene, sp, job, queue, complete, timer, handler, update, stop, hung>>
      /\ \/ WaitForSpace
         \/ /\ ~(sub.free = 0 /\ Space = 0) /\ Write(ops) /\ Pushed(had - 1, 1)
            /\ Flush \/ UNCHANGED dma
            /\ UNCHANGED event
  BY DEF Push
<1>2. CASE WaitForSpace
  BY <1>1, <1>2, WaitStep
<1>3. CASE /\ ~(sub.free = 0 /\ Space = 0) /\ Write(ops) /\ Pushed(had - 1, 1)
           /\ Flush \/ UNCHANGED dma
           /\ UNCHANGED event
  <2>1. had - 1 \in Nat /\ 1 <= Space /\ had - 1 <= Space - 1
    BY <1>3, SubFacts DEF Subs
  <2>2. ops \in Seq({"pad", "work", "arg", "final", "release"}) /\ Len(ops) = 1
    BY <1>1, SubFacts DEF Ops
  <2>3. dma' \in [get : Positions, put : Positions, on : BOOLEAN]
    BY <1>3, SubFacts, TypedJobs DEF Flush
  <2> HIDE DEF had, ops
  <2> QED BY <1>1, <1>3, <2>1, <2>2, <2>3, PushedStep
<1> QED BY <1>1, <1>2, <1>3

\* A submission that wakes up, or takes the lock again.
LEMMA WakeStep == ASSUME CInv, Wake \/ Relock PROVE CInv'
<1>1. /\ UNCHANGED <<scene, sp, pb, mem, dma, job, queue, event, timer, handler, update, stop, hung>>
      /\ \/ /\ sub.step = "sleep" /\ complete > 0
            /\ complete' = complete - 1 /\ sub' = [sub EXCEPT !.step = "yield"]
         \/ sub.step = "yield" /\ sub' = [sub EXCEPT !.step = "push"] /\ UNCHANGED complete
  BY DEF Wake, Relock
<1>2. /\ sub' \in Subs /\ sub'.job = sub.job /\ sub'.used = sub.used /\ sub'.free = sub.free
      /\ sub'.i = sub.i /\ sub'.step \in {"yield", "push"}
  BY <1>1, SubFacts DEF Subs
<1>3. Wakeups' /\ complete' \in Nat
  BY <1>1, <1>2, SubFacts DEF Wakeups, Bit
<1>4. Slots'
  BY <1>1, <1>2, TypedJobs, Steady
<1> QED BY <1>1, <1>2, <1>3, <1>4, SubFacts, TypedJobs, Submitting

\* A job that ends its submission takes its slots into the queue.
LEMMA EndStep == ASSUME CInv, End PROVE CInv'
<1> DEFINE j == sub.job
           fe == IF Expired(sp[Sp(j)].min, job[j].thresh) THEN "missed" ELSE "pending"
           r == [job[j] EXCEPT !.step = "held", !.first = sub.first, !.slots = sub.used, !.fence = fe]
<1>1. /\ sub.step = "end" /\ Flush /\ queue' = Append(queue, j)
      /\ job' = [job EXCEPT ![j] = r]
      /\ timer' = IF queue = <<>> /\ timer.client = 0 THEN [client |-> j, pending |-> TRUE] ELSE timer
      /\ update' = (update \/ Expired(sp[Sp(j)].min, job[j].thresh))
      /\ sub' = [step |-> "idle", job |-> 0, i |-> 0, free |-> 0, used |-> 0, first |-> 0]
      /\ UNCHANGED <<scene, sp, pb, mem, event, complete, handler, stop, hung>>
  BY DEF End
<1>2. /\ j \in Job /\ job[j].step = "submit" /\ job[j] \in Jobs /\ j \notin Elems(queue)
      /\ queue \in Seq(Job) /\ Distinct(queue)
  BY <1>1, SubFacts, TypedJobs DEF CInv, Types, Submission, Subs
<1>3. fe \in {"missed", "pending"} /\ sub.used \in Nat /\ sub.first \in Positions
  BY SubFacts DEF Subs
<1> HIDE DEF j, fe
<1>4. r \in Jobs /\ r.slots = sub.used /\ r.step = "held"
  BY <1>2, <1>3 DEF Jobs
<1> HIDE DEF r
<1>5. /\ job' \in [Job -> Jobs] /\ job'[j] = r
      /\ \A i \in Job \ {j} : job'[i] = job[i]
  BY <1>1, <1>2, <1>4, TypedJobs
<1>6. /\ queue' \in Seq(Job) /\ Distinct(queue') /\ Elems(queue') = Elems(queue) \cup {j}
      /\ queue' # <<>>
  BY <1>1, <1>2, AppendFacts
<1>7. 0 \in Positions /\ 0 \notin Job
  BY SubFacts, RingSize, TypedJobs DEF Positions
<1>8. Types'
  <2>1. Positions' = Positions /\ Jobs' = Jobs
    BY <1>1, StillThere
  <2>2. dma' \in [get : Positions, put : Positions, on : BOOLEAN]
    BY <1>1, SubFacts, TypedJobs DEF Flush
  <2>3. timer' \in [client : Job \cup {0}, pending : BOOLEAN]
    BY <1>1, <1>2, TypedJobs
  <2>4. update' \in BOOLEAN
    BY <1>1, TypedJobs DEF Expired
  <2>5. sub' \in Subs
    BY <1>1, <1>7 DEF Subs
  <2> QED BY <1>1, <1>5, <1>6, <2>1, <2>2, <2>3, <2>4, <2>5 DEF CInv, Types, Subs
<1>9. Submission'
  <2>1. Elems(queue)' = Elems(queue) \cup {j} /\ Distinct(queue)'
    BY <1>6 DEF Elems, Distinct
  <2>2. ASSUME NEW i \in Job PROVE job'[i].step = "submit" <=> sub'.job = i
    <3>1. CASE i = j
      BY <1>1, <1>4, <1>5, <1>7, <3>1
    <3>2. CASE i # j
      <4>1. job[i].step # "submit"
        BY <3>2 DEF CInv, Submission, j
      <4> QED BY <1>1, <1>5, <1>7, <3>2, <4>1
    <3> QED BY <3>1, <3>2
  <2>3. \A i \in Elems(queue)' : job'[i].step \in {"held", "done"}
    <3>1. \A i \in Elems(queue) : job[i].step \in {"held", "done"} /\ i \in Job
      BY SpaceFacts DEF CInv, Submission
    <3> QED BY <1>4, <1>5, <2>1, <3>1
  <2> QED BY <1>1, <1>6, <2>1, <2>2, <2>3 DEF Submission
<1>10. Wakeups'
  BY <1>1, SubFacts DEF Wakeups, Bit
<1>11. Slots'
  <2>1. Counts(job) /\ Counts(job') /\ Elems(queue) \in SUBSET Job
    BY <1>5, SpaceFacts DEF Counts, Jobs
  <2>2. SlotsOf(job', Elems(queue) \cup {j}) = sub.used + SlotsOf(job', (Elems(queue) \cup {j}) \ {j})
    <3>1. Elems(queue) \cup {j} \in SUBSET Job /\ j \in Elems(queue) \cup {j}
      BY <1>2, <2>1
    <3>2. job'[j].slots = sub.used
      BY <1>4, <1>5
    <3> QED BY <2>1, <3>1, <3>2, SlotsAny
  <2>3. (Elems(queue) \cup {j}) \ {j} = Elems(queue)
    BY <1>2
  <2>4. SlotsOf(job', Elems(queue)) = SlotsOf(job, Elems(queue))
    <3>1. \A i \in Elems(queue) : job'[i].slots = job[i].slots
      BY <1>2, <1>5, <2>1
    <3> QED BY <2>1, <3>1, SlotsSame
  <2>5. {queue'[i] : i \in 1..Len(queue')} = Elems(queue) \cup {j}
    BY <1>6 DEF Elems
  <2>6. SlotsOf(job', {queue'[i] : i \in 1..Len(queue')}) = sub.used + SlotsOf(job, Elems(queue))
    BY <2>2, <2>3, <2>4, <2>5
  <2>7. Ring' = Ring /\ Space' = Space /\ sub'.used = 0 /\ sub'.free = 0
    BY <1>1 DEF Ring, Space, Dist
  <2> QED BY <2>6, <2>7, SubFacts DEF Slots, SlotsAccounted
<1> QED BY <1>8, <1>9, <1>10, <1>11 DEF CInv

-----------------------------------------------------------------------------
(* The theorems.                                                           *)

\* Every step keeps the invariant.
LEMMA StepCInv == CInv /\ [Next]_vars => CInv'
<1> SUFFICES ASSUME CInv, [Next]_vars PROVE CInv'
  OBVIOUS
<1>1. CASE UNCHANGED vars
  BY <1>1, SameSteps, TypedJobs, Quiet DEF vars
<1>2. CASE Next
  <2>1. ASSUME NEW j \in Job, BeginRuns(j) \/ Put(j) \/ FenceGivesUp(j) PROVE CInv'
    BY <2>1, BeginStep, PutStep, FenceTimeoutStep DEF BeginRuns, FenceGivesUp
  <2>2. ASSUME NEW s \in Syncpt, Interrupt(s) \/ Look(s) PROVE CInv'
    BY <2>2, InterruptStep, LookStep
  <2>3. CASE Submit
    BY <2>3, PushWideStep, PushStep, WakeStep, EndStep DEF Submit
  <2>4. CASE UpdateRuns \/ TimerGoesOff \/ HandlerRuns \/ EngineRuns
    BY <2>4, UpdateStep, TimerFiresStep, HandlerStep, ExecStep DEF UpdateRuns, TimerGoesOff, HandlerRuns, EngineRuns
  <2>5. CASE StopRuns \/ StopCheck \/ StopWake
    BY <2>5, StopSteps DEF StopRuns
  <2> QED BY <1>2, <2>1, <2>2, <2>3, <2>4, <2>5 DEF Next
<1> QED BY <1>1, <1>2

\* The invariant holds throughout.
LEMMA Invariance == Spec => []CInv
BY InitCInv, StepCInv, PTL DEF Spec

\* Positions stay in the ring, a job is queued once and submitted by one submission
\* at a time, and whoever sleeps has the one event or a completion to wake up by.
THEOREM TypeCorrect == Spec => []TypeOK
<1>1. ASSUME CInv PROVE TypeOK
  <2>1. Cardinality({queue[i] : i \in 1..Len(queue)}) = Len(queue)
    BY <1>1, DistinctCount DEF CInv, Types, Submission, Elems
  <2>2. \A j \in Job : /\ job[j].step \in {"new", "refused", "submit", "held", "done", "stuck"}
                       /\ job[j].step = "submit" <=> sub.job = j
                       /\ job[j].fence \in {"none", "pending", "signalled", "missed", "gone"}
    BY <1>1, TypedJobs DEF Jobs, CInv, Submission
  <2>3. complete \in 0..2
    BY <1>1 DEF CInv, Types, Wakeups, Bit
  <2>4. sub.step \in {"idle", "push", "sleep", "yield", "end"} /\ sub.job \in Job \cup {0}
    BY <1>1 DEF CInv, Types
  <2> QED BY <1>1, <2>1, <2>2, <2>3, <2>4 DEF CInv, Types, Submission, TypeOK, Positions
<1>2. CInv => TypeOK
  BY <1>1
<1> QED BY <1>2, Invariance, PTL

\* Over padding, waits, failures, cancelled jobs, restarts and stops, the slots that
\* are not free are those of the queued jobs and of the submission under way.
THEOREM NoSlotLost == Spec => []SlotsAccounted
<1>1. CInv => SlotsAccounted
  BY DEF CInv, Slots
<1> QED BY <1>1, Invariance, PTL

-----------------------------------------------------------------------------
(* What is written is never written over, and everything that says where   *)
(* to go on, DMAGET, DMAPUT and the ends of jobs, is at the beginning of a *)
(* command.  Failures overwrite jobs from end to end.                      *)

\* How far positions are from the first one that is written to.
Off == [k \in Positions |-> Dist(k, scene.at)]
Reach == Off[pb.pos]

\* The beginnings of commands, and of what is yet to be written.
Starts == {k \in Positions : Off[k] <= Reach /\ mem[k].op # "arg"}

Commands ==
  /\ mem \in [Positions -> [job : Job \cup {0},
                            op : {"nop", "pad", "work", "arg", "final", "release"}]]
  /\ \A k \in Positions : /\ Off[k] >= Reach => mem[k].op = "nop"
                          /\ mem[k].op = "arg" => k # 0 /\ mem[k - 1].op = "work"
                          /\ mem[k].op = "work" => k + 1 \in Positions /\ mem[k + 1].op = "arg"
                          /\ mem[k].op = "pad" => k = Ring - 1

Fetching == dma.get \in Starts /\ dma.put \in Starts /\ Off[dma.get] <= Off[dma.put]
Marks ==
  /\ Fetching
  /\ \A j \in Elems(queue) : /\ job[j].first \in Starts /\ job[j].slots <= 5
                             /\ (job[j].first + job[j].slots) % Ring \in Starts
  /\ sub.step # "idle" => sub.first \in Starts /\ (sub.first + sub.used) % Ring = pb.pos

\* A job takes five slots at most, and jobs are submitted in their order.
Budget ==
  /\ sub.step = "idle" => /\ Reach <= 5 * NJobs
                          /\ \A j \in Job : job[j].step = "new" => Reach <= 5 * (j - 1)
  /\ sub.step # "idle" => /\ Reach <= 5 * (sub.job - 1) + sub.used
                          /\ sub.used <= sub.i + 1 /\ (sub.i = 1 => sub.used = 0)
                          /\ \A j \in Job : job[j].step = "new" => j > sub.job

WInv == Roomy => Commands /\ Marks /\ Budget

-----------------------------------------------------------------------------
(* Positions.                                                              *)

\* Distances are those of a walk around the ring.
LEMMA OffFacts ==
  ASSUME Types, NEW k \in Positions
  PROVE  /\ Off[k] = (IF k >= scene.at THEN k - scene.at ELSE k - scene.at + Ring)
         /\ Off[k] \in 0..(Ring - 1) /\ Ring \in Nat /\ Ring > 5 /\ scene.at \in 0..(Ring - 1) /\ k \in 0..(Ring - 1)
<1>1. Off[k] = Dist(k, scene.at)
  BY DEF Off
<1> QED BY <1>1, RingSize, RingFacts DEF Dist, Positions

\* The next position is one further, but for the last one.
After(k) == IF k = Ring - 1 THEN 0 ELSE k + 1
\* The next position lies one slot further from where the ring's contents begin.
LEMMA NextOff ==
  ASSUME Types, NEW k \in Positions, Off[k] < Ring - 1
  PROVE  After(k) \in Positions /\ Off[After(k)] = Off[k] + 1
<1> DEFINE n == After(k)
<1>1. n \in Positions
  BY OffFacts DEF Positions, After
<1>2. Off[n] = (IF n >= scene.at THEN n - scene.at ELSE n - scene.at + Ring)
  <2> HIDE DEF n
  <2> QED BY <1>1, OffFacts
<1>3. Off[n] = Off[k] + 1
  BY <1>2, OffFacts DEF After
<1> QED BY <1>1, <1>3

\* Two positions are not equally far.
LEMMA OffOne ==
  ASSUME Types, NEW k \in Positions, NEW n \in Positions, Off[k] = Off[n]
  PROVE  k = n
BY OffFacts

\* The types that the positions and the budget of slots need.
LEMMA ReachFacts ==
  ASSUME CInv
  PROVE  /\ pb.pos \in Positions /\ Reach \in 0..(Ring - 1) /\ Ring \in Nat /\ Ring > 5 /\ NJobs \in Nat
         /\ sub.step # "idle" => sub.job \in 1..NJobs
         /\ Job = 1..NJobs /\ Types
<1>1. Types /\ pb.pos \in Positions
  BY DEF CInv, Types
<1>2. sub.step # "idle" => sub.job \in 1..NJobs
  BY DEF CInv, Types, Submission, Job
<1>3. Reach \in 0..(Ring - 1) /\ Ring \in Nat /\ Ring > 5
  BY <1>1, OffFacts DEF Reach
<1> QED BY <1>1, <1>2, <1>3, CdmaAssumption DEF Job

-----------------------------------------------------------------------------
(* Steps that do not write.                                                *)

\* Nothing that is kept whole changes, but for what is fetched.
LEMMA QuietWhole ==
  ASSUME CInv, WInv, UNCHANGED <<scene, mem>>, pb'.pos = pb.pos,
         \A j \in Job : /\ job'[j].first = job[j].first /\ job'[j].slots = job[j].slots
                        /\ job'[j].step = "new" => job[j].step = "new",
         Elems(queue') \subseteq Elems(queue),
         sub'.step = "idle" <=> sub.step = "idle",
         sub'.job = sub.job, sub'.i = sub.i, sub'.used = sub.used, sub'.first = sub.first,
         Roomy => Fetching'
  PROVE  WInv'
<1> SUFFICES ASSUME Roomy PROVE Commands' /\ Marks' /\ Budget'
  BY DEF WInv, Roomy, Ring
<1>1. Commands /\ Marks /\ Budget /\ Fetching'
  BY DEF WInv
<1>2. Ring' = Ring /\ Positions' = Positions /\ Off' = Off /\ Reach' = Reach /\ Starts' = Starts
  BY DEF Ring, Positions, Reach, Off, Dist, Starts
<1>3. Commands'
  BY <1>1, <1>2 DEF Commands
<1>4. Marks'
  <2>1. Elems(queue)' = Elems(queue') /\ Elems(queue) \subseteq Job
    BY SpaceFacts DEF Elems
  <2>2. ASSUME NEW j \in Elems(queue)'
        PROVE  /\ job'[j].first \in Starts' /\ job'[j].slots <= 5
               /\ (job'[j].first + job'[j].slots) % Ring' \in Starts'
    BY <1>1, <1>2, <2>1 DEF Marks
  <2>3. (sub'.first + sub'.used) % Ring' = (sub.first + sub.used) % Ring
    BY <1>2
  <2> QED BY <1>1, <1>2, <2>2, <2>3 DEF Marks
<1>5. Budget'
  BY <1>1, <1>2 DEF Budget
<1> QED BY <1>3, <1>4, <1>5

-----------------------------------------------------------------------------
(* Submission.                                                             *)

\* DMAGET and DMAPUT may go to where the CPU will write next.
LEMMA PosStarts ==
  ASSUME CInv, Commands
  PROVE  pb.pos \in Starts /\ \A k \in Starts : Off[k] <= Off[pb.pos]
BY ReachFacts DEF Commands, Starts, Reach

\* A submission begins at the write position, with the whole of its budget left.
LEMMA BeginWhole == ASSUME CInv, WInv, NEW j \in Job, Begin(j) PROVE WInv'
<1>1. /\ sub.step = "idle" /\ job[j].step = "new" /\ job \in [Job -> Jobs]
      /\ UNCHANGED <<scene, pb, mem, queue>>
  BY TypedJobs DEF Begin
<1>2. CASE UNCHANGED <<sub, dma>> /\ job' = [job EXCEPT ![j].step = "refused"]
  <2>1. \A i \in Job : /\ job'[i].first = job[i].first /\ job'[i].slots = job[i].slots
                       /\ job'[i].step = "new" => job[i].step = "new"
    BY <1>1, <1>2 DEF Jobs
  <2>2. Roomy => Fetching'
    BY <1>1, <1>2 DEF WInv, Marks, Fetching, Starts, Positions, Reach, Off, Dist, Ring
  <2> QED BY <1>1, <1>2, <2>1, <2>2, QuietWhole
<1>3. CASE /\ sub' = [step |-> "push", job |-> j, i |-> 1, free |-> 0, used |-> 0, first |-> pb.pos]
           /\ \A i \in Job : /\ job'[i].first = job[i].first /\ job'[i].slots = job[i].slots
                             /\ job'[i].step = IF i = j THEN "submit" ELSE job[i].step
           /\ dma' = IF dma.on THEN dma ELSE [get |-> pb.pos, put |-> pb.pos, on |-> TRUE]
           /\ \A i \in 1..(j - 1) : job[i].step # "new"
  <2> SUFFICES ASSUME Roomy PROVE Commands' /\ Marks' /\ Budget'
    BY <1>1 DEF WInv, Roomy, Ring
  <2>1. Commands /\ Marks /\ Budget /\ pb.pos \in Starts
    BY PosStarts DEF WInv
  <2>2. Ring' = Ring /\ Positions' = Positions /\ Off' = Off /\ Reach' = Reach /\ Starts' = Starts
    BY <1>1 DEF Ring, Positions, Reach, Off, Dist, Starts
  <2>3. Elems(queue)' = Elems(queue) /\ Elems(queue) \subseteq Job
    BY <1>1, SpaceFacts DEF Elems
  <2>4. Commands'
    BY <1>1, <2>1, <2>2 DEF Commands
  <2>5. (sub'.first + sub'.used) % Ring = pb.pos
    <3>1. sub'.first + sub'.used = pb.pos
      BY <1>3, ReachFacts DEF Positions
    <3> QED BY <3>1, ReachFacts, RingFacts DEF Positions
  <2>6. Fetching'
    <3>1. CASE dma.on
      BY <1>3, <2>1, <2>2, <3>1 DEF Marks, Fetching
    <3>2. CASE ~dma.on
      <4>1. dma'.get = pb.pos /\ dma'.put = pb.pos
        BY <1>3, <3>2
      <4>2. Off[pb.pos] <= Off[pb.pos]
        BY ReachFacts, OffFacts
      <4> QED BY <2>1, <2>2, <4>1, <4>2 DEF Fetching
    <3> QED BY <3>1, <3>2
  <2>7. Marks'
    <3>1. sub'.first \in Starts' /\ (sub'.first + sub'.used) % Ring' = pb'.pos
      BY <1>1, <1>3, <2>1, <2>2, <2>5
    <3>2. ASSUME NEW i \in Elems(queue)'
          PROVE  /\ job'[i].first \in Starts' /\ job'[i].slots <= 5
                 /\ (job'[i].first + job'[i].slots) % Ring' \in Starts'
      BY <1>3, <2>1, <2>2, <2>3 DEF Marks
    <3> QED BY <2>6, <3>1, <3>2 DEF Marks
  <2>8. Budget'
    <3>1. Reach <= 5 * (j - 1) /\ Reach \in Nat /\ j \in Nat
      BY <1>1, <2>1, ReachFacts DEF Budget
    <3>2. \A i \in Job : job'[i].step = "new" => i > j
      <4> SUFFICES ASSUME NEW i \in Job, job'[i].step = "new" PROVE i > j
        OBVIOUS
      <4>1. i # j /\ job[i].step = "new"
        BY <1>3
      <4>2. i \notin 1..(j - 1) /\ i \in 1..NJobs /\ j \in 1..NJobs /\ NJobs \in Nat
        BY <1>3, <4>1, ReachFacts
      <4> QED BY <4>1, <4>2
    <3> QED BY <1>3, <2>2, <3>1, <3>2 DEF Budget
  <2> QED BY <2>4, <2>7, <2>8
<1>4. ASSUME NEW end, NEW thresh, job' = [job EXCEPT ![j].step = "submit", ![j].end = end, ![j].thresh = thresh]
      PROVE  \A i \in Job : /\ job'[i].first = job[i].first /\ job'[i].slots = job[i].slots
                            /\ job'[i].step = IF i = j THEN "submit" ELSE job[i].step
  BY <1>1, <1>4 DEF Jobs
<1>5. \/ UNCHANGED <<sub, dma>> /\ job' = [job EXCEPT ![j].step = "refused"]
      \/ /\ sub' = [step |-> "push", job |-> j, i |-> 1, free |-> 0, used |-> 0, first |-> pb.pos]
         /\ job' = [job EXCEPT ![j].step = "submit", ![j].end = (sp[Sp(j)].max + 1) % CounterMod,
                               ![j].thresh = (sp[Sp(j)].max + 2) % CounterMod]
         /\ dma' = IF dma.on THEN dma ELSE [get |-> pb.pos, put |-> pb.pos, on |-> TRUE]
  BY DEF Begin
<1>6. \A i \in 1..(j - 1) : job[i].step # "new"
  BY DEF Begin
<1> QED BY <1>2, <1>3, <1>4, <1>5, <1>6

\* Where host1x_pushbuffer_push() writes up to three commands.
LEMMA WritesTo ==
  ASSUME CInv, NEW ops \in Seq({"pad", "work", "arg", "final", "release"}), Len(ops) \in 1..3, Write(ops),
         Reach + Len(ops) < Ring
  PROVE  LET p == pb.pos
             q == After(p)
             r == After(q)
         IN  /\ p \in Positions /\ q \in Positions /\ Off[p] = Reach /\ Off[q] = Reach + 1
             /\ Len(ops) > 1 => r \in Positions /\ Off[r] = Reach + 2
             /\ mem' = [k \in Positions |->
                          IF k = p THEN [job |-> sub.job, op |-> ops[1]]
                          ELSE IF k = q /\ Len(ops) > 1 THEN [job |-> sub.job, op |-> ops[2]]
                          ELSE IF k = r /\ Len(ops) > 2 THEN [job |-> sub.job, op |-> ops[3]]
                          ELSE mem[k]]
             /\ pb'.pos \in Positions /\ Off[pb'.pos] = Reach + Len(ops)
<1> DEFINE p == pb.pos
           q == After(p)
           r == After(q)
<1>1. p \in 0..(Ring - 1) /\ Ring \in Nat /\ Ring > 5 /\ Off[p] = Reach /\ Types /\ p \in Positions
  BY ReachFacts DEF Positions, Reach
<1>2. Reach \in Nat /\ Len(ops) \in Nat
  BY ReachFacts
<1>3. q \in Positions /\ Off[q] = Reach + 1
  <2>1. Off[p] < Ring - 1
    <3>1. ASSUME NEW n \in 1..3, Reach + n < Ring PROVE Reach < Ring - 1
      BY <1>1, <1>2, <3>1
    <3>2. Reach < Ring - 1
      BY <3>1
    <3> HIDE DEF p
    <3> QED BY <1>1, <3>2
  <2> HIDE DEF p
  <2> QED BY <1>1, <2>1, NextOff
<1>4. Len(ops) > 1 => r \in Positions /\ Off[r] = Reach + 2
  <2> HIDE DEF q
  <2> QED BY <1>1, <1>2, <1>3, NextOff
<1>5. Len(ops) > 2 => After(r) \in Positions /\ Off[After(r)] = Reach + 3
  <2> HIDE DEF q, r
  <2> QED BY <1>1, <1>2, <1>4, NextOff
<1>6. q = (IF p = Ring - 1 THEN 0 ELSE p + 1) /\ r = (IF q = Ring - 1 THEN 0 ELSE q + 1)
  BY DEF After
<1>7. ASSUME NEW k \in Positions
      PROVE  /\ Dist(k, p) = (IF k >= p THEN k - p ELSE k - p + Ring)
             /\ Dist(k, p) + 1 <= 1 <=> k = p
             /\ Dist(k, p) + 1 = 2 <=> k = q
             /\ Dist(k, p) + 1 = 3 <=> k = r
             /\ Dist(k, p) \in Nat
  <2>1. Dist(k, p) = (IF k >= p THEN k - p ELSE k - p + Ring)
    <3> HIDE DEF p
    <3> QED BY <1>1, RingFacts DEF Dist, Positions
  <2> HIDE DEF p, q, r
  <2> QED BY <1>1, <1>6, <2>1 DEF Positions
<1>8. ASSUME NEW k \in Positions
      PROVE  mem'[k] = IF k = p THEN [job |-> sub.job, op |-> ops[1]]
                       ELSE IF k = q /\ Len(ops) > 1 THEN [job |-> sub.job, op |-> ops[2]]
                       ELSE IF k = r /\ Len(ops) > 2 THEN [job |-> sub.job, op |-> ops[3]]
                       ELSE mem[k]
  <2> DEFINE i == Dist(k, p) + 1
  <2>1. mem'[k] = IF i <= Len(ops) THEN [job |-> sub.job, op |-> ops[i]] ELSE mem[k]
    BY DEF Write, Positions
  <2>2. /\ i \in Nat /\ i >= 1 /\ (i = 1 <=> k = p) /\ (i = 2 <=> k = q) /\ (i = 3 <=> k = r)
    <3>1. Dist(k, p) \in Nat
      BY <1>7
    <3> QED BY <1>7, <3>1
  <2> HIDE DEF i, p, q, r
  <2> QED BY <1>2, <2>1, <2>2, SMTT(30)
<1>9. mem' = [k \in Positions |-> mem'[k]]
  BY DEF Write, Positions
<1>10. pb'.pos = (p + Len(ops)) % Ring
  BY DEF Write, CInv, Types
<1>11. pb'.pos = (IF Len(ops) = 1 THEN q ELSE IF Len(ops) = 2 THEN r ELSE After(r))
  <2>1. (p + Len(ops)) % Ring = IF p + Len(ops) < Ring THEN p + Len(ops) ELSE p + Len(ops) - Ring
    <3> HIDE DEF p
    <3> QED BY <1>1, <1>2, RingFacts
  <2>2. After(r) = (IF r = Ring - 1 THEN 0 ELSE r + 1)
    BY DEF After
  <2>3. Len(ops) = 1 \/ Len(ops) = 2 \/ Len(ops) = 3
    OBVIOUS
  <2> HIDE DEF p, q, r
  <2>4. CASE Len(ops) = 1
    BY <1>1, <1>6, <1>10, <2>1, <2>4
  <2>5. CASE Len(ops) = 2
    BY <1>1, <1>6, <1>10, <2>1, <2>5
  <2>6. CASE Len(ops) = 3
    BY <1>1, <1>6, <1>10, <2>1, <2>2, <2>6
  <2> QED BY <2>3, <2>4, <2>5, <2>6
<1>12. pb'.pos \in Positions /\ Off[pb'.pos] = Reach + Len(ops)
  <2>1. Len(ops) = 1 \/ Len(ops) = 2 \/ Len(ops) = 3
    OBVIOUS
  <2> HIDE DEF p, q, r
  <2>2. CASE Len(ops) = 1
    BY <1>3, <1>11, <2>2
  <2>3. CASE Len(ops) = 2
    BY <1>4, <1>11, <2>3
  <2>4. CASE Len(ops) = 3
    BY <1>5, <1>11, <2>4
  <2> QED BY <2>1, <2>2, <2>3, <2>4
<1>13. mem' = [k \in Positions |->
                 IF k = p THEN [job |-> sub.job, op |-> ops[1]]
                 ELSE IF k = q /\ Len(ops) > 1 THEN [job |-> sub.job, op |-> ops[2]]
                 ELSE IF k = r /\ Len(ops) > 2 THEN [job |-> sub.job, op |-> ops[3]]
                 ELSE mem[k]]
  <2> HIDE DEF p, q, r
  <2> QED BY <1>8, <1>9
<1> HIDE DEF p, q, r
<1>14. QED BY <1>1, <1>3, <1>4, <1>12, <1>13 DEF p, q, r

\* n slots are written, which are those of W, with commands that are whole.
WholeIn(n, W) ==
  /\ n \in 1..3 /\ W \in SUBSET Positions
  /\ pb'.pos \in Positions /\ Off[pb'.pos] = Reach + n
  /\ mem' \in [Positions -> [job : Job \cup {0},
                             op : {"nop", "pad", "work", "arg", "final", "release"}]]
  /\ \A k \in Positions \ W : mem'[k] = mem[k]
  /\ \A k \in W : /\ Off[k] >= Reach /\ Off[k] < Reach + n
                  /\ mem'[k].op = "arg" => k # 0 /\ k - 1 \in W /\ mem'[k - 1].op = "work"
                  /\ mem'[k].op = "work" => k + 1 \in W /\ mem'[k + 1].op = "arg"
                  /\ mem'[k].op = "pad" => k = Ring - 1
  /\ mem'[pb.pos].op # "arg"

\* What is written is whole, so everything is, and no beginning is written over.
LEMMA WrittenWhole ==
  ASSUME CInv, Commands, scene' = scene, NEW n, NEW W, WholeIn(n, W)
  PROVE  /\ Commands' /\ Off' = Off /\ Reach' = Reach + n /\ Starts \subseteq Starts'
         /\ pb'.pos \in Starts'
<1>1. Ring' = Ring /\ Positions' = Positions /\ Off' = Off
  BY DEF Ring, Positions, Off, Dist
<1> USE DEF WholeIn
<1>2. Reach' = Reach + n /\ Reach \in Nat /\ Ring \in Nat /\ Types
  BY <1>1, ReachFacts DEF Reach
<1>3. \A k \in Positions : Off[k] \in Nat /\ k \in 0..(Ring - 1)
  BY <1>2, OffFacts
<1>4. \A k \in W : mem[k].op = "nop"
  BY DEF Commands
<1>5. ASSUME NEW k \in Positions
      PROVE  /\ Off[k] >= Reach' => mem'[k].op = "nop"
             /\ mem'[k].op = "arg" => k # 0 /\ mem'[k - 1].op = "work"
             /\ mem'[k].op = "work" => k + 1 \in Positions /\ mem'[k + 1].op = "arg"
             /\ mem'[k].op = "pad" => k = Ring - 1
  <2>1. CASE k \in W
    <3>1. ~(Off[k] >= Reach')
      BY <1>2, <1>3, <2>1
    <3> QED BY <2>1, <3>1
  <2>2. CASE k \notin W
    <3>1. mem'[k] = mem[k]
      BY <2>2
    <3>2. Off[k] >= Reach' => mem'[k].op = "nop"
      BY <1>2, <1>3, <3>1 DEF Commands
    <3>3. mem'[k].op = "arg" => k # 0 /\ mem'[k - 1].op = "work"
      <4> SUFFICES ASSUME mem'[k].op = "arg" PROVE k # 0 /\ mem'[k - 1].op = "work"
        OBVIOUS
      <4>1. k # 0 /\ mem[k - 1].op = "work"
        BY <3>1 DEF Commands
      <4>2. k - 1 \in Positions /\ k - 1 \notin W
        BY <1>2, <1>3, <1>4, <4>1 DEF Positions
      <4> QED BY <4>1, <4>2
    <3>4. mem'[k].op = "work" => k + 1 \in Positions /\ mem'[k + 1].op = "arg"
      <4> SUFFICES ASSUME mem'[k].op = "work" PROVE k + 1 \in Positions /\ mem'[k + 1].op = "arg"
        OBVIOUS
      <4>1. k + 1 \in Positions /\ mem[k + 1].op = "arg"
        BY <3>1 DEF Commands
      <4>2. k + 1 \notin W
        BY <1>4, <4>1
      <4> QED BY <4>1, <4>2
    <3>5. mem'[k].op = "pad" => k = Ring - 1
      BY <3>1 DEF Commands
    <3> QED BY <3>2, <3>3, <3>4, <3>5
  <2> QED BY <2>1, <2>2
<1>6. Commands'
  BY <1>1, <1>5 DEF Commands
<1>7. ASSUME NEW k \in Starts PROVE k \in Starts'
  <2>1. k \in Positions /\ Off[k] <= Reach /\ mem[k].op # "arg"
    BY DEF Starts
  <2>2. Off[k] <= Reach'
    BY <1>2, <1>3, <2>1
  <2>3. mem'[k].op # "arg"
    <3>1. CASE k \in W
      <4>1. Off[k] = Off[pb.pos]
        BY <1>2, <1>3, <2>1, <3>1 DEF Reach
      <4>2. k = pb.pos
        BY <2>1, <4>1, ReachFacts, OffOne
      <4> QED BY <4>2
    <3>2. CASE k \notin W
      BY <2>1, <3>2
    <3> QED BY <3>1, <3>2
  <2> QED BY <1>1, <2>1, <2>2, <2>3 DEF Starts
<1>8. pb'.pos \in Starts'
  <2>1. Off[pb'.pos] >= Reach' /\ Off[pb'.pos] <= Reach'
    BY <1>2
  <2>2. mem'[pb'.pos].op = "nop"
    BY <1>5, <2>1
  <2> QED BY <1>1, <2>1, <2>2 DEF Starts
<1> QED BY <1>1, <1>2, <1>6, <1>7, <1>8

\* The three things that a submission writes.
LEMMA WritesWhole ==
  ASSUME CInv, Commands, scene' = scene, NEW ops, Write(ops), Reach + Len(ops) < Ring,
         \/ ops = <<"work", "arg">> /\ pb.pos # Ring - 1
         \/ ops = <<"pad", "work", "arg">> /\ pb.pos = Ring - 1
         \/ ops = <<"final">> \/ ops = <<"release">>
  PROVE  /\ Commands' /\ Off' = Off /\ Reach' = Reach + Len(ops) /\ Starts \subseteq Starts'
         /\ pb'.pos \in Starts'
<1> DEFINE p == pb.pos
           q == After(p)
           r == After(q)
           n == Len(ops)
           C == {"pad", "work", "arg", "final", "release"}
<1>1. ops \in Seq(C) /\ n \in 1..3
  <2>1. ops = <<"work", "arg">> => ops \in Seq(C) /\ n = 2
    <3>1. <<"work", "arg">> \in Seq(C) /\ Len(<<"work", "arg">>) = 2
      OBVIOUS
    <3> QED BY <3>1
  <2>2. ops = <<"pad", "work", "arg">> => ops \in Seq(C) /\ n = 3
    <3>1. <<"pad", "work", "arg">> \in Seq(C)
      OBVIOUS
    <3> QED BY <3>1
  <2>3. ops = <<"final">> \/ ops = <<"release">> => ops \in Seq(C) /\ n = 1
    <3>1. \A c \in C : <<c>> \in Seq(C) /\ Len(<<c>>) = 1
      OBVIOUS
    <3>2. "final" \in C /\ "release" \in C
      OBVIOUS
    <3> HIDE DEF C
    <3> QED BY <3>1, <3>2
  <2> QED BY <2>1, <2>2, <2>3
<1>2. /\ p \in Positions /\ q \in Positions /\ Off[p] = Reach /\ Off[q] = Reach + 1
      /\ n > 1 => r \in Positions /\ Off[r] = Reach + 2
      /\ mem' = [k \in Positions |->
                   IF k = p THEN [job |-> sub.job, op |-> ops[1]]
                   ELSE IF k = q /\ n > 1 THEN [job |-> sub.job, op |-> ops[2]]
                   ELSE IF k = r /\ n > 2 THEN [job |-> sub.job, op |-> ops[3]]
                   ELSE mem[k]]
      /\ pb'.pos \in Positions /\ Off[pb'.pos] = Reach + n
  BY <1>1, WritesTo
<1>3. /\ q = (IF p = Ring - 1 THEN 0 ELSE p + 1) /\ r = (IF q = Ring - 1 THEN 0 ELSE q + 1)
      /\ Ring \in Nat /\ Ring > 5 /\ p \in 0..(Ring - 1) /\ Reach \in Nat
  BY ReachFacts DEF After, Positions
<1>4. sub.job \in Job \cup {0} /\ mem \in [Positions -> [job : Job \cup {0}, op : C \cup {"nop"}]]
  BY DEF CInv, Types, Commands
<1> HIDE DEF p, q, r
<1>5. CASE ops = <<"work", "arg">> /\ p # Ring - 1
  <2> DEFINE W == {p, q}
  <2>1. n = 2 /\ ops[1] = "work" /\ ops[2] = "arg" /\ p # q /\ q = p + 1 /\ p = q - 1 /\ q # 0
    BY <1>3, <1>5
  <2>2. /\ mem'[p] = [job |-> sub.job, op |-> "work"] /\ mem'[q] = [job |-> sub.job, op |-> "arg"]
        /\ \A k \in Positions \ W : mem'[k] = mem[k]
    BY <1>2, <2>1
  <2>3. mem' \in [Positions -> [job : Job \cup {0}, op : {"nop", "pad", "work", "arg", "final", "release"}]]
    BY <1>2, <1>4, <2>1
  <2>4. \A k \in W : Off[k] >= Reach /\ Off[k] < Reach + n
    BY <1>2, <1>3, <2>1
  <2>5. \A k \in W : /\ mem'[k].op = "arg" => k # 0 /\ k - 1 \in W /\ mem'[k - 1].op = "work"
                     /\ mem'[k].op = "work" => k + 1 \in W /\ mem'[k + 1].op = "arg"
                     /\ mem'[k].op = "pad" => k = Ring - 1
    BY <2>1, <2>2
  <2>6. W \in SUBSET Positions /\ mem'[pb.pos].op # "arg"
    BY <1>2, <2>2 DEF p
  <2>7. Off[pb'.pos] = Reach + n /\ pb'.pos \in Positions
    BY <1>2
  <2> HIDE DEF n, W
  <2>8. WholeIn(n, W)
    BY <1>1, <2>2, <2>3, <2>4, <2>5, <2>6, <2>7 DEF WholeIn
  <2>9. /\ Commands' /\ Off' = Off /\ Reach' = Reach + n /\ Starts \subseteq Starts'
        /\ pb'.pos \in Starts'
    BY <2>8, WrittenWhole
  <2> QED BY <2>9 DEF n
<1>6. CASE ops = <<"pad", "work", "arg">> /\ p = Ring - 1
  <2> DEFINE W == {p, q, r}
  <2>1. /\ n = 3 /\ ops[1] = "pad" /\ ops[2] = "work" /\ ops[3] = "arg"
        /\ p # q /\ p # r /\ q # r /\ r = q + 1 /\ q = r - 1 /\ r # 0
    BY <1>3, <1>6
  <2>2. /\ mem'[p] = [job |-> sub.job, op |-> "pad"] /\ mem'[q] = [job |-> sub.job, op |-> "work"]
        /\ mem'[r] = [job |-> sub.job, op |-> "arg"]
        /\ \A k \in Positions \ W : mem'[k] = mem[k]
    BY <1>2, <2>1
  <2>3. mem' \in [Positions -> [job : Job \cup {0}, op : {"nop", "pad", "work", "arg", "final", "release"}]]
    BY <1>2, <1>4, <2>1
  <2>4. \A k \in W : Off[k] >= Reach /\ Off[k] < Reach + n
    BY <1>2, <1>3, <2>1
  <2>5. \A k \in W : /\ mem'[k].op = "arg" => k # 0 /\ k - 1 \in W /\ mem'[k - 1].op = "work"
                     /\ mem'[k].op = "work" => k + 1 \in W /\ mem'[k + 1].op = "arg"
                     /\ mem'[k].op = "pad" => k = Ring - 1
    BY <1>6, <2>1, <2>2
  <2>6. W \in SUBSET Positions /\ mem'[pb.pos].op # "arg"
    BY <1>2, <2>1, <2>2 DEF p
  <2>7. Off[pb'.pos] = Reach + n /\ pb'.pos \in Positions
    BY <1>2
  <2> HIDE DEF n, W
  <2>8. WholeIn(n, W)
    BY <1>1, <2>2, <2>3, <2>4, <2>5, <2>6, <2>7 DEF WholeIn
  <2>9. /\ Commands' /\ Off' = Off /\ Reach' = Reach + n /\ Starts \subseteq Starts'
        /\ pb'.pos \in Starts'
    BY <2>8, WrittenWhole
  <2> QED BY <2>9 DEF n
<1>7. CASE ops = <<"final">> \/ ops = <<"release">>
  <2> DEFINE W == {p}
  <2>1. n = 1 /\ ops[1] \in {"final", "release"}
    BY <1>7
  <2>2. /\ mem'[p] = [job |-> sub.job, op |-> ops[1]]
        /\ \A k \in Positions \ W : mem'[k] = mem[k]
    BY <1>2, <2>1
  <2>3. mem' \in [Positions -> [job : Job \cup {0}, op : {"nop", "pad", "work", "arg", "final", "release"}]]
    BY <1>2, <1>4, <2>1
  <2>4. \A k \in W : Off[k] >= Reach /\ Off[k] < Reach + n
    BY <1>2, <1>3, <2>1
  <2>5. \A k \in W : /\ mem'[k].op = "arg" => k # 0 /\ k - 1 \in W /\ mem'[k - 1].op = "work"
                     /\ mem'[k].op = "work" => k + 1 \in W /\ mem'[k + 1].op = "arg"
                     /\ mem'[k].op = "pad" => k = Ring - 1
    BY <2>1, <2>2
  <2>6. W \in SUBSET Positions /\ mem'[pb.pos].op # "arg"
    BY <1>2, <2>1, <2>2 DEF p
  <2>7. Off[pb'.pos] = Reach + n /\ pb'.pos \in Positions
    BY <1>2
  <2> HIDE DEF n, W
  <2>8. WholeIn(n, W)
    BY <1>1, <2>2, <2>3, <2>4, <2>5, <2>6, <2>7 DEF WholeIn
  <2>9. /\ Commands' /\ Off' = Off /\ Reach' = Reach + n /\ Starts \subseteq Starts'
        /\ pb'.pos \in Starts'
    BY <2>8, WrittenWhole
  <2> QED BY <2>9 DEF n
<1> QED BY <1>5, <1>6, <1>7 DEF p

\* DMAPUT may move up to where the CPU will write next.
LEMMA FlushWhole ==
  ASSUME CInv, WInv, Roomy, dma'.get = dma.get, dma'.put \in {dma.put, pb.pos}
  PROVE  dma'.get \in Starts /\ dma'.put \in Starts /\ Off[dma'.get] <= Off[dma'.put]
BY PosStarts DEF WInv, Marks, Fetching

\* Where the submission of a job has come to.
LEMMA SubmittedTo ==
  ASSUME NEW N \in Nat, N > 5, NEW first \in 0..(N - 1), NEW used \in Nat, NEW n \in Nat, used + n <= 5
  PROVE  (first + (used + n)) % N = (((first + used) % N) + n) % N
<1> DEFINE x == first + used
<1>1. x \in Nat /\ first + (used + n) = x + n /\ x + n < 2 * N /\ x + n \in Nat
  OBVIOUS
<1> HIDE DEF x
<1>2. CASE x < N
  BY <1>1, <1>2, RingFacts DEF x
<1>3. CASE x >= N
  <2>1. x % N = x - N /\ (x + n) % N = x + n - N
    BY <1>1, <1>3, RingFacts
  <2>2. (x - N) + n \in Nat /\ (x - N) + n < N
    BY <1>1, <1>3
  <2>3. ((x - N) + n) % N = (x - N) + n
    BY <2>2, RingFacts
  <2> QED BY <1>1, <2>1, <2>3 DEF x
<1> QED BY <1>1, <1>2, <1>3

\* What a submission writes next.
NextOps(ops) ==
  \/ sub.i = 1 /\ ops = <<"work", "arg">> /\ pb.pos # Ring - 1
  \/ sub.i = 1 /\ ops = <<"pad", "work", "arg">> /\ pb.pos = Ring - 1
  \/ sub.i = 2 /\ ops = <<"final">>
  \/ sub.i = 3 /\ ops = <<"release">>

\* The slots of five-slot jobs, the current one included, end below a ring that has
\* room for all of them.
LEMMA BelowRing ==
  ASSUME NEW r \in Nat, NEW m \in Nat, NEW u \in Nat, NEW j \in Nat, NEW J \in Nat, NEW N \in Nat,
         r <= 5 * (j - 1) + u, u + m <= 5, j <= J, 5 * J < N
  PROVE  r + m < N
<1>1. r + m <= 5 * j
  OBVIOUS
<1>2. 5 * j <= 5 * J
  OBVIOUS
<1> QED BY <1>1, <1>2

\* What is written next lies within the budget, and in the ring.
LEMMA Fits ==
  ASSUME CInv, WInv, Roomy, sub.step = "push", NEW ops, NextOps(ops)
  PROVE  /\ Len(ops) \in 1..3 /\ sub.i \in 1..3 /\ sub.used \in Nat /\ sub.used + Len(ops) <= sub.i + 2
         /\ Reach + Len(ops) < Ring /\ sub.used + Len(ops) <= 5
         /\ Reach + Len(ops) <= 5 * (sub.job - 1) + (sub.used + Len(ops))
<1> DEFINE n == Len(ops)
<1>1. Commands /\ Marks /\ Budget
  BY DEF WInv
<1>2. sub.step # "idle"
  OBVIOUS
<1>3. /\ n \in 1..3 /\ sub.i \in 1..3 /\ sub.used \in Nat /\ sub.used + n <= sub.i + 2
  <2>1. sub.i = 1 => sub.used = 0
    BY <1>1, <1>2 DEF Budget
  <2>2. sub.used <= sub.i + 1 /\ sub.used \in Nat
    BY <1>1, <1>2, SubFacts DEF Budget, Subs
  <2>3. (sub.i = 1 /\ n \in 2..3) \/ (sub.i \in 2..3 /\ n = 1)
    BY DEF NextOps
  <2> HIDE DEF n
  <2> QED BY <2>1, <2>2, <2>3
<1>4. /\ Ring \in Nat /\ Ring > 5 /\ Reach \in Nat /\ sub.job \in 1..NJobs /\ NJobs \in Nat /\ 5 * NJobs < Ring
      /\ Reach <= 5 * (sub.job - 1) + sub.used
  BY <1>1, <1>2, ReachFacts DEF Roomy, Budget
<1>5. Reach + n < Ring /\ Reach + n <= 5 * (sub.job - 1) + (sub.used + n) /\ sub.used + n <= 5
  <2> HIDE DEF n
  <2>1. sub.used + n <= 5
    BY <1>3
  <2>3. Reach + n <= 5 * (sub.job - 1) + (sub.used + n)
    BY <1>3, <1>4, SMTT(30)
  <2>4. Reach + n < Ring
    <3>1. n \in Nat /\ sub.job \in Nat /\ sub.job <= NJobs
      BY <1>3, <1>4
    <3> QED BY <3>1, <2>1, <1>3, <1>4, BelowRing
  <2> QED BY <2>1, <2>3, <2>4
<1> QED BY <1>3, <1>5

\* What is written within the budget lies past all that was, whole and unfetched.
LEMMA PushedWhole ==
  ASSUME CInv, WInv, sub.step = "push", NEW ops, Write(ops), NEW free, Pushed(free, Len(ops)),
         NextOps(ops),
         dma'.get = dma.get, dma'.put \in {dma.put, pb.pos}, UNCHANGED <<scene, job, queue>>
  PROVE  WInv'
<1> SUFFICES ASSUME Roomy PROVE Commands' /\ Marks' /\ Budget'
  BY DEF WInv, Roomy, Ring
<1> DEFINE n == Len(ops)
<1>1. Commands /\ Marks /\ Budget
  BY DEF WInv
<1>2. /\ sub'.step # "idle" /\ sub'.i = sub.i + 1 /\ sub'.used = sub.used + n
      /\ sub'.job = sub.job /\ sub'.first = sub.first /\ sub.step # "idle"
  BY SubFacts DEF Pushed, Subs
<1>3. /\ n \in 1..3 /\ sub.i \in 1..3 /\ sub.used \in Nat /\ sub.used + n <= sub.i + 2
      /\ Reach + n < Ring /\ Reach + n <= 5 * (sub.job - 1) + (sub.used + n) /\ sub.used + n <= 5
  BY Fits
<1>4. Ring \in Nat /\ Ring > 5
  BY ReachFacts
<1>6. /\ Commands' /\ Off' = Off /\ Reach' = Reach + n /\ Starts \subseteq Starts'
      /\ pb'.pos \in Starts'
  BY <1>1, <1>3, WritesWhole DEF NextOps
<1>7. Ring' = Ring /\ Positions' = Positions /\ Elems(queue)' = Elems(queue) /\ Elems(queue) \subseteq Job
  BY SpaceFacts DEF Ring, Positions, Elems
<1>8. Marks'
  <2>1. Fetching'
    BY <1>6, FlushWhole DEF Fetching
  <2>2. sub'.first \in Starts' /\ (sub'.first + sub'.used) % Ring' = pb'.pos
    <3>1. pb'.pos = (pb.pos + n) % Ring /\ sub.first \in Starts /\ (sub.first + sub.used) % Ring = pb.pos
      BY <1>1, <1>2 DEF Write, CInv, Types, Marks
    <3>2. sub.first \in 0..(Ring - 1)
      BY <3>1 DEF Starts, Positions
    <3>3. (sub.first + (sub.used + n)) % Ring = (((sub.first + sub.used) % Ring) + n) % Ring
      <4> DEFINE N == Ring
                 f == sub.first
                 u == sub.used
      <4>1. N \in Nat /\ N > 5 /\ f \in 0..(N - 1) /\ u \in Nat /\ n \in Nat /\ u + n <= 5
        BY <1>3, <1>4, <3>2
      <4> HIDE DEF n, N, f, u
      <4>2. (f + (u + n)) % N = (((f + u) % N) + n) % N
        BY <4>1, SubmittedTo
      <4> QED BY <4>2 DEF N, f, u
    <3> HIDE DEF n
    <3> QED BY <1>2, <1>6, <1>7, <3>1, <3>3
  <2>3. ASSUME NEW i \in Elems(queue)'
        PROVE  /\ job'[i].first \in Starts' /\ job'[i].slots <= 5
               /\ (job'[i].first + job'[i].slots) % Ring' \in Starts'
    BY <1>1, <1>6, <1>7 DEF Marks
  <2> QED BY <2>1, <2>2, <2>3 DEF Marks
<1>9. Budget'
  <2>1. sub'.used <= sub'.i + 1 /\ sub'.i # 1 /\ Reach' <= 5 * (sub'.job - 1) + sub'.used
    <3> HIDE DEF n
    <3>1. sub'.used <= sub'.i + 1
      BY <1>2, <1>3
    <3>2. sub'.i # 1
      BY <1>2, <1>3
    <3>3. Reach' <= 5 * (sub'.job - 1) + sub'.used
      BY <1>2, <1>3, <1>6
    <3> QED BY <3>1, <3>2, <3>3
  <2>2. \A j \in Job : job'[j].step = "new" => j > sub'.job
    BY <1>1, <1>2 DEF Budget
  <2> QED BY <1>2, <2>1, <2>2 DEF Budget
<1> QED BY <1>6, <1>8, <1>9

\* A submission that has to wait hands the engine whole commands only.
LEMMA WaitWhole ==
  ASSUME CInv, WInv, sub.step = "push", WaitForSpace, UNCHANGED <<scene, job, queue>>
  PROVE  WInv'
<1>1. /\ UNCHANGED <<mem, pb>> /\ dma'.get = dma.get /\ dma'.put = pb.pos
      /\ sub'.step # "idle" /\ sub'.job = sub.job /\ sub'.i = sub.i
      /\ sub'.used = sub.used /\ sub'.first = sub.first
  BY SubFacts, TypedJobs DEF WaitForSpace, Flush, Subs
<1>2. Roomy => Fetching'
  <2>1. Off' = Off /\ Starts' = Starts
    BY <1>1 DEF Ring, Positions, Reach, Off, Dist, Starts
  <2> QED BY <1>1, <2>1, FlushWhole DEF Fetching
<1> QED BY <1>1, <1>2, QuietWhole

\* The padding of host1x_cdma_push_wide() fills the end of the ring, where it is needed.
LEMMA PushesWide ==
  ASSUME CInv, sub.step = "push", Ops[sub.i] = "work"
  PROVE  NextOps(Padding \o <<"work", "arg">>)
<1> DEFINE ops == Padding \o <<"work", "arg">>
<1>2. sub.i = 1
  BY SubFacts DEF Ops
<1>3. pb.pos \in 0..(Ring - 1) /\ Ring \in Nat
  BY ReachFacts DEF Positions
<1>4. NextOps(ops)
  <2>1. CASE pb.pos + 2 > Ring
    <3>1. pb.pos = Ring - 1
      BY <1>3, <2>1
    <3>2. ops = <<"pad", "work", "arg">>
      <4>1. Padding = <<"pad">>
        BY <2>1 DEF Padding
      <4>2. <<"pad">> \o <<"work", "arg">> = <<"pad", "work", "arg">>
        <5> DEFINE s == <<"pad">>
                   t == <<"work", "arg">>
                   u == <<"pad", "work", "arg">>
                   C == {"pad", "work", "arg"}
        <5>1. /\ s \in Seq(C) /\ t \in Seq(C) /\ u \in Seq(C)
              /\ Len(s) = 1 /\ Len(t) = 2 /\ Len(u) = 3
              /\ s[1] = u[1] /\ t[1] = u[2] /\ t[2] = u[3]
          OBVIOUS
        <5> HIDE DEF s, t, u, C
        <5>2. s \o t \in Seq(C) /\ Len(s \o t) = 3 /\ \A i \in 1..3 : (s \o t)[i] = u[i]
          <6>1. /\ s \o t \in Seq(C) /\ Len(s \o t) = Len(s) + Len(t)
                /\ \A i \in 1..(Len(s) + Len(t)) : (s \o t)[i] = IF i <= Len(s) THEN s[i] ELSE t[i - Len(s)]
            BY <5>1, ConcatProperties, Zenon
          <6>2. (s \o t)[1] = s[1] /\ (s \o t)[2] = t[1] /\ (s \o t)[3] = t[2]
            BY <5>1, <6>1
          <6>3. \A i \in 1..3 : i = 1 \/ i = 2 \/ i = 3
            OBVIOUS
          <6> QED BY <5>1, <6>1, <6>2, <6>3
        <5>3. s \o t = u
          BY <5>1, <5>2, SeqEqual
        <5> QED BY <5>3 DEF s, t, u
      <4> QED BY <4>1, <4>2
    <3> QED BY <1>2, <3>1, <3>2 DEF NextOps
  <2>2. CASE ~(pb.pos + 2 > Ring)
    <3>1. pb.pos # Ring - 1
      BY <1>3, <2>2
    <3>2. ops = <<"work", "arg">>
      <4>1. Padding = <<>>
        BY <2>2 DEF Padding
      <4>2. <<>> \o <<"work", "arg">> = <<"work", "arg">>
        OBVIOUS
      <4> QED BY <4>1, <4>2
    <3> QED BY <1>2, <3>1, <3>2 DEF NextOps
  <2> QED BY <2>1, <2>2
<1> QED BY <1>4

\* host1x_cdma_push_wide() writes opcode and argument together, past the padding.
LEMMA PushWideWhole == ASSUME CInv, WInv, PushWide PROVE WInv'
<1> DEFINE ops == Padding \o <<"work", "arg">>
<1>1. /\ sub.step = "push" /\ Ops[sub.i] = "work" /\ UNCHANGED <<scene, job, queue>>
      /\ \/ WaitForSpace
         \/ Write(ops) /\ Pushed(Space - Len(ops), Len(ops)) /\ UNCHANGED dma
  BY DEF PushWide
<1>4. NextOps(ops)
  BY <1>1, PushesWide
<1> HIDE DEF ops
<1>5. CASE WaitForSpace
  BY <1>1, <1>5, WaitWhole
<1>6. CASE Write(ops) /\ Pushed(Space - Len(ops), Len(ops)) /\ UNCHANGED dma
  <2>1. dma'.get = dma.get /\ dma'.put \in {dma.put, pb.pos}
    BY <1>6
  <2> QED BY <1>1, <1>4, <1>6, <2>1, PushedWhole
<1> QED BY <1>1, <1>5, <1>6

\* host1x_cdma_push() writes one slot.
LEMMA PushWhole == ASSUME CInv, WInv, Push PROVE WInv'
<1> DEFINE had == IF sub.free = 0 THEN Space ELSE sub.free
           ops == <<Ops[sub.i]>>
<1>1. /\ sub.step = "push" /\ Ops[sub.i] # "work" /\ UNCHANGED <<scene, job, queue>>
      /\ \/ WaitForSpace
         \/ Write(ops) /\ Pushed(had - 1, 1) /\ (Flush \/ UNCHANGED dma)
  BY DEF Push
<1>2. NextOps(ops) /\ Len(ops) = 1
  <2>1. sub.i \in 1..3
    BY <1>1, SubFacts
  <2>2. sub.i \in {2, 3}
    BY <1>1, <2>1 DEF Ops
  <2> QED BY <2>2 DEF NextOps, Ops
<1>3. CASE WaitForSpace
  BY <1>1, <1>3, WaitWhole
<1>4. CASE Write(ops) /\ Pushed(had - 1, 1) /\ (Flush \/ UNCHANGED dma)
  <2>1. dma'.get = dma.get /\ dma'.put \in {dma.put, pb.pos}
    BY <1>4, TypedJobs DEF Flush
  <2> HIDE DEF ops, had
  <2> QED BY <1>1, <1>2, <1>4, <2>1, PushedWhole
<1> QED BY <1>1, <1>3, <1>4

\* host1x_cdma_end() queues the job where it began and lets the engine fetch it whole.
LEMMA EndWhole == ASSUME CInv, WInv, End PROVE WInv'
<1> DEFINE j == sub.job
<1>1. /\ sub.step = "end" /\ dma' = [dma EXCEPT !.put = pb.pos] /\ queue' = Append(queue, j)
      /\ sub' = [step |-> "idle", job |-> 0, i |-> 0, free |-> 0, used |-> 0, first |-> 0]
      /\ UNCHANGED <<scene, pb, mem>>
  BY DEF End, Flush
<1>2. j \in Job /\ queue \in Seq(Job)
  BY <1>1 DEF CInv, Types, Submission
<1>3. ASSUME NEW i \in Job
      PROVE  /\ i # j => job'[i] = job[i]
             /\ i = j => /\ job'[i].first = sub.first /\ job'[i].slots = sub.used
                         /\ job'[i].step = "held"
  BY <1>2, TypedJobs DEF End, Jobs
<1> SUFFICES ASSUME Roomy PROVE Commands' /\ Marks' /\ Budget'
  BY <1>1 DEF WInv, Roomy, Ring
<1>4. Commands /\ Marks /\ Budget
  BY DEF WInv
<1>5. Ring' = Ring /\ Positions' = Positions /\ Off' = Off /\ Reach' = Reach /\ Starts' = Starts
  BY <1>1 DEF Ring, Positions, Reach, Off, Dist, Starts
<1>6. Elems(queue)' = Elems(queue) \cup {j} /\ Elems(queue) \subseteq Job
  <2>1. Elems(queue') = Elems(queue) \cup {j}
    BY <1>1, <1>2, AppendFacts
  <2> QED BY <2>1, SpaceFacts DEF Elems
<1>7. Commands'
  BY <1>1, <1>4, <1>5 DEF Commands
<1>8. sub.used \in Nat /\ sub.used <= 5 /\ Reach <= 5 * (j - 1) + sub.used /\ sub.first \in Starts
  <2>1. sub.used <= sub.i + 1 /\ sub.i \in 0..4 /\ sub.used \in Nat
    BY <1>1, <1>4, SubFacts DEF Subs, Budget
  <2> QED BY <1>1, <1>4, <2>1 DEF Budget, Marks
<1>9. Marks'
  <2>1. Fetching'
    <3>1. dma'.get = dma.get /\ dma'.put = pb.pos
      BY <1>1, TypedJobs
    <3> QED BY <1>5, <3>1, FlushWhole DEF Fetching
  <2>2. pb.pos \in Starts /\ (sub.first + sub.used) % Ring = pb.pos
    BY <1>1, <1>4, PosStarts DEF Marks
  <2>3. ASSUME NEW i \in Elems(queue)'
        PROVE  /\ job'[i].first \in Starts' /\ job'[i].slots <= 5
               /\ (job'[i].first + job'[i].slots) % Ring' \in Starts'
    <3>1. CASE i = j
      BY <1>2, <1>3, <1>5, <1>8, <2>2, <3>1
    <3>2. CASE i # j
      BY <1>3, <1>4, <1>5, <1>6, <3>2 DEF Marks
    <3> QED BY <3>1, <3>2
  <2> QED BY <1>1, <2>1, <2>3 DEF Marks
<1>10. Budget'
  <2>1. /\ j \in 1..NJobs /\ NJobs \in Nat /\ Reach \in Nat
        /\ \A i \in Job : i \in Nat
    BY <1>1, ReachFacts
  <2>2. Reach <= 5 * j /\ 5 * j <= 5 * NJobs
    BY <1>8, <2>1
  <2>3. ASSUME NEW i \in Job, job'[i].step = "new" PROVE Reach <= 5 * (i - 1)
    <3>1. i # j
      BY <1>3, <2>3
    <3>2. job[i].step = "new"
      BY <1>3, <2>3, <3>1
    <3>3. i > j
      BY <1>1, <1>4, <3>2 DEF Budget
    <3> QED BY <2>1, <2>2, <3>3
  <2> QED BY <1>1, <1>5, <2>1, <2>2, <2>3 DEF Budget
<1> QED BY <1>7, <1>9, <1>10

-----------------------------------------------------------------------------
(* The hardware.                                                           *)

\* The command processor goes from command to command, and not past DMAPUT.
LEMMA NextStarts ==
  ASSUME CInv, Commands, Fetching, dma.get # dma.put,
         NEW next, next = (IF At.op = "pad" \/ dma.get = Ring - 1 THEN 0
                           ELSE IF At.op = "work" THEN dma.get + 2 ELSE dma.get + 1)
  PROVE  /\ (next % Ring) \in Starts /\ Off[next % Ring] <= Off[dma.put] /\ Off[dma.get] < Off[next % Ring]
         /\ \A k \in Positions : Off[dma.get] < Off[k] /\ Off[k] < Off[next % Ring] => mem[k].op = "arg"
<1> DEFINE g == dma.get
           f == After(g)
<1>1. /\ g \in Positions /\ dma.put \in Positions /\ mem[g].op # "arg" /\ mem[dma.put].op # "arg"
      /\ Off[g] <= Off[dma.put] /\ Off[dma.put] <= Reach
  BY DEF Fetching, Starts
<1>2. Ring \in Nat /\ Ring > 5 /\ Types /\ Reach \in Nat /\ Reach < Ring /\ g \in 0..(Ring - 1)
  BY <1>1, ReachFacts DEF Positions
<1>3. \A k \in Positions : Off[k] \in Nat /\ k \in 0..(Ring - 1)
  BY <1>2, OffFacts
<1>4. Off[g] < Off[dma.put]
  BY <1>1, <1>2, <1>3, OffOne
<1>5. f \in Positions /\ Off[f] = Off[g] + 1 /\ Off[f] <= Off[dma.put]
  <2>1. Off[g] < Ring - 1
    BY <1>1, <1>2, <1>3, <1>4
  <2>2. f \in Positions /\ Off[f] = Off[g] + 1
    BY <1>1, <1>2, <2>1, NextOff
  <2> QED BY <1>1, <1>3, <1>4, <2>2
<1>6. f = IF g = Ring - 1 THEN 0 ELSE g + 1
  BY DEF After
<1>7. ASSUME NEW k \in Positions
      PROVE  /\ mem[k].op = "arg" => k # 0 /\ mem[k - 1].op = "work"
             /\ mem[k].op = "work" => k + 1 \in Positions /\ mem[k + 1].op = "arg"
             /\ mem[k].op = "pad" => k = Ring - 1
  BY DEF Commands
<1> HIDE DEF f
<1>8. CASE mem[g].op = "work"
  <2> DEFINE h == After(f)
  <2>1. g + 1 \in Positions /\ mem[g + 1].op = "arg" /\ g # Ring - 1 /\ f = g + 1
    BY <1>1, <1>2, <1>3, <1>6, <1>7, <1>8
  <2>2. f # dma.put
    BY <1>1, <2>1
  <2>3. Off[f] < Off[dma.put]
    BY <1>1, <1>2, <1>3, <1>5, <2>2, OffOne
  <2>4. h \in Positions /\ Off[h] = Off[f] + 1 /\ Off[h] <= Off[dma.put]
    <3>1. Off[f] < Ring - 1
      BY <1>1, <1>2, <1>3, <1>5, <2>3
    <3>2. h \in Positions /\ Off[h] = Off[f] + 1
      BY <1>2, <1>5, <3>1, NextOff
    <3> QED BY <1>1, <1>3, <1>5, <2>3, <3>2
  <2>5. h = IF f = Ring - 1 THEN 0 ELSE f + 1
    BY DEF After
  <2> HIDE DEF h
  <2>6. next = g + 2
    BY <1>8, <2>1 DEF At
  <2>7. next % Ring = h
    <3>1. CASE f = Ring - 1
      BY <1>2, <2>1, <2>5, <2>6, <3>1, RingFacts
    <3>2. CASE f # Ring - 1
      BY <1>2, <1>3, <1>5, <2>1, <2>5, <2>6, <3>2, RingFacts
    <3> QED BY <3>1, <3>2
  <2>8. mem[h].op # "arg"
    <3> SUFFICES ASSUME mem[h].op = "arg" PROVE FALSE
      OBVIOUS
    <3>1. h # 0 /\ mem[h - 1].op = "work"
      BY <1>7, <2>4
    <3>2. h - 1 = f
      BY <1>2, <1>3, <1>5, <2>5, <3>1
    <3> QED BY <2>1, <3>1, <3>2
  <2>9. Off[h] <= Reach
    BY <1>1, <1>2, <1>3, <2>4
  <2>10. \A k \in Positions : Off[g] < Off[k] /\ Off[k] < Off[h] => mem[k].op = "arg"
    <3> SUFFICES ASSUME NEW k \in Positions, Off[g] < Off[k], Off[k] < Off[h] PROVE mem[k].op = "arg"
      OBVIOUS
    <3>1. Off[k] = Off[f]
      BY <1>1, <1>3, <1>5, <2>4
    <3>2. k = f
      BY <1>2, <1>5, <3>1, OffOne
    <3> QED BY <2>1, <3>2
  <2>11. Off[g] < Off[h]
    BY <1>1, <1>3, <1>5, <2>4
  <2> QED BY <2>4, <2>7, <2>8, <2>9, <2>10, <2>11 DEF Starts
<1>9. CASE mem[g].op # "work"
  <2>1. next = f
    <3>1. mem[g].op = "pad" => g = Ring - 1
      BY <1>1, <1>7
    <3> QED BY <1>6, <1>9, <3>1 DEF At
  <2>2. f % Ring = f
    BY <1>2, <1>3, <1>5, RingFacts
  <2>3. mem[f].op # "arg"
    <3> SUFFICES ASSUME mem[f].op = "arg" PROVE FALSE
      OBVIOUS
    <3>1. f # 0 /\ mem[f - 1].op = "work"
      BY <1>5, <1>7
    <3>2. f - 1 = g
      BY <1>2, <1>6, <3>1
    <3> QED BY <1>9, <3>1, <3>2
  <2>4. Off[f] <= Reach
    BY <1>1, <1>2, <1>3, <1>5
  <2>5. \A k \in Positions : ~(Off[g] < Off[k] /\ Off[k] < Off[f])
    BY <1>1, <1>3, <1>5
  <2>6. Off[g] < Off[f]
    BY <1>1, <1>3, <1>5
  <2> QED BY <1>5, <2>1, <2>2, <2>3, <2>4, <2>5, <2>6 DEF Starts
<1> QED BY <1>8, <1>9

\* The engine goes from the beginning of a command to the beginning of the next.
LEMMA ExecWhole == ASSUME CInv, WInv, Exec PROVE WInv'
<1> DEFINE next == IF At.op = "pad" \/ dma.get = Ring - 1 THEN 0
                   ELSE IF At.op = "work" THEN dma.get + 2 ELSE dma.get + 1
<1>1. /\ CanRun /\ dma' = [dma EXCEPT !.get = next % Ring]
      /\ job' = IF At.op \in {"work", "final", "release"}
                  THEN [job EXCEPT ![At.job].ran = @ \cup {At.op}] ELSE job
      /\ UNCHANGED <<scene, pb, mem, queue, sub>>
  BY DEF Exec
<1>2. Roomy => Fetching'
  <2> SUFFICES ASSUME Roomy PROVE Fetching'
    OBVIOUS
  <2>1. dma.get # dma.put /\ Commands /\ Fetching
    BY <1>1 DEF CanRun, Busy, WInv, Marks
  <2>2. (next % Ring) \in Starts /\ Off[next % Ring] <= Off[dma.put]
    BY <2>1, NextStarts
  <2>3. Off' = Off /\ Starts' = Starts
    BY <1>1 DEF Ring, Positions, Reach, Off, Dist, Starts
  <2>4. dma'.get = next % Ring /\ dma'.put = dma.put
    BY <1>1, TypedJobs
  <2> HIDE DEF next
  <2> QED BY <2>1, <2>2, <2>3, <2>4 DEF Fetching
<1>3. \A i \in Job : /\ job'[i].first = job[i].first /\ job'[i].slots = job[i].slots
                     /\ job'[i].step = job[i].step
  BY <1>1, TypedJobs DEF Jobs
<1> HIDE DEF next
<1> QED BY <1>1, <1>2, <1>3, QuietWhole

-----------------------------------------------------------------------------
(* Completion and timeouts.                                                *)

\* The update moves no job and writes no slot.
LEMMA UpdatedSame ==
  ASSUME CInv, NEW jb \in [Job -> Jobs], NEW sy, UpdateLocked(jb, sy), UNCHANGED <<scene, sub>>,
         \A i \in Job : /\ jb[i].first = job[i].first /\ jb[i].slots = job[i].slots
                        /\ jb[i].step = job[i].step
  PROVE  /\ pb'.pos = pb.pos /\ Elems(queue') \subseteq Elems(queue)
         /\ \A i \in Job : /\ job'[i].first = job[i].first /\ job'[i].slots = job[i].slots
                           /\ job'[i].step = job[i].step
<1>1. Elems(queue') \subseteq Elems(queue)
  BY UpdateFacts
<1>2. pb'.pos = pb.pos
  BY DEF UpdateLocked, CInv, Types
<1>3. ASSUME NEW i \in Job
      PROVE  job'[i].first = jb[i].first /\ job'[i].slots = jb[i].slots /\ job'[i].step = jb[i].step
  <2>1. PICK out : job' = [j \in Job |-> IF j \in out /\ jb[j].step = "done" THEN [jb[j] EXCEPT !.fence = "gone"]
                                         ELSE jb[j]]
    BY DEF UpdateLocked
  <2>2. jb[i] \in Jobs
    OBVIOUS
  <2> QED BY <2>1, <2>2 DEF Jobs
<1> QED BY <1>1, <1>2, <1>3

\* cdma_update_work() retires jobs; it leaves the commands as they are.
LEMMA UpdateWhole == ASSUME CInv, WInv, Update PROVE WInv'
<1>1. UpdateLocked(job, sp) /\ UNCHANGED <<scene, mem, dma, sub>>
  BY DEF Update
<1>2. /\ pb'.pos = pb.pos /\ Elems(queue') \subseteq Elems(queue)
      /\ \A i \in Job : /\ job'[i].first = job[i].first /\ job'[i].slots = job[i].slots
                        /\ job'[i].step = job[i].step
  BY <1>1, TypedJobs, UpdatedSame
<1>3. Roomy => Fetching'
  BY <1>1, <1>2 DEF WInv, Marks, Fetching, Starts, Positions, Reach, Off, Dist, Ring
<1> QED BY <1>1, <1>2, <1>3, QuietWhole

\* CDMA restarts at the beginning of a command.
LEMMA RestartWhole ==
  ASSUME CInv, Commands, Marks, NEW k \in 0..Len(queue), Restart(k)
  PROVE  dma'.get \in Starts /\ dma'.put \in Starts /\ Off[dma'.get] <= Off[dma'.put]
<1>1. dma'.get = RestartAt(k) /\ dma'.put = pb.pos
  BY DEF Restart
<1>2. RestartAt(k) \in Starts
  <2>1. CASE k = 0 \/ k = Len(queue)
    BY <2>1 DEF RestartAt, Marks, Fetching
  <2>2. CASE ~(k = 0 \/ k = Len(queue))
    <3>1. queue \in Seq(Job) /\ Len(queue) \in Nat
      BY LenProperties DEF CInv, Types
    <3>2. k + 1 \in 1..Len(queue)
      BY <2>2, <3>1
    <3>3. queue[k + 1] \in Elems(queue)
      BY <3>2 DEF Elems
    <3> QED BY <2>2, <3>3 DEF RestartAt, Marks
  <2> QED BY <2>1, <2>2
<1> QED BY <1>1, <1>2, PosStarts

\* A step of the timeout work that restarts CDMA and overwrites nothing.
LEMMA RestartedWhole ==
  ASSUME CInv, WInv, NEW k \in 0..Len(queue), Restart(k), UNCHANGED <<scene, sub, mem, pb, queue>>,
         \A i \in Job : /\ job'[i].first = job[i].first /\ job'[i].slots = job[i].slots
                        /\ job'[i].step = job[i].step
  PROVE  WInv'
<1>1. Roomy => Fetching'
  <2> SUFFICES ASSUME Roomy PROVE Fetching'
    OBVIOUS
  <2>1. dma'.get \in Starts /\ dma'.put \in Starts /\ Off[dma'.get] <= Off[dma'.put]
    BY RestartWhole DEF WInv
  <2>2. Off' = Off /\ Starts' = Starts
    BY DEF Ring, Positions, Reach, Off, Dist, Starts
  <2> QED BY <2>1, <2>2 DEF Fetching
<1> QED BY <1>1, QuietWhole

\* Distances from the beginning of a job.
LEMMA FromFirst ==
  ASSUME NEW N \in Nat, N > 5, NEW f \in 0..(N - 1), NEW n \in Nat, n <= 5, NEW k \in 0..(N - 1)
  PROVE  /\ (k - f) % N \in Nat
         /\ (k - f) % N = n => k = (f + n) % N
         /\ k # 0 => (k - f) % N = IF k = f THEN 0 ELSE (((k - 1) - f) % N) + 1
<1>1. \A i \in 0..(N - 1) : (i - f) % N = (IF i >= f THEN i - f ELSE i - f + N)
  BY RingFacts
<1>2. (f + n) % N = (IF f + n < N THEN f + n ELSE f + n - N)
  BY RingFacts
<1>3. k # 0 => k - 1 \in 0..(N - 1)
  OBVIOUS
<1>4. (k - f) % N = (IF k >= f THEN k - f ELSE k - f + N)
  BY <1>1
<1>5. k # 0 => ((k - 1) - f) % N = (IF k - 1 >= f THEN (k - 1) - f ELSE (k - 1) - f + N)
  BY <1>1, <1>3
<1>6. (k - f) % N = n => k = (f + n) % N
  BY <1>2, <1>4
<1> QED BY <1>4, <1>5, <1>6

\* Jobs are overwritten from end to end, so what is left is whole.
LEMMA CancelledWhole ==
  ASSUME CInv, Commands, Marks, scene' = scene, pb'.pos = pb.pos, NEW V \in SUBSET Elems(queue),
         mem' = [s \in 0..(Ring - 1) |-> IF \E i \in V : Harmless(s, i) THEN [mem[s] EXCEPT !.op = "nop"]
                                         ELSE mem[s]]
  PROVE  Commands' /\ Off' = Off /\ Reach' = Reach /\ Starts \subseteq Starts'
<1>1. Ring' = Ring /\ Positions' = Positions /\ Off' = Off /\ Reach' = Reach
  BY DEF Ring, Positions, Reach, Off, Dist
<1>2. Ring \in Nat /\ Ring > 5 /\ Elems(queue) \subseteq Job
  BY ReachFacts, SpaceFacts
<1>3. ASSUME NEW i \in V
      PROVE  LET f == job[i].first
                 n == job[i].slots
             IN  /\ f \in 0..(Ring - 1) /\ n \in Nat /\ n <= 5 /\ mem[f].op # "arg"
                 /\ mem[(f + n) % Ring].op # "arg"
                 /\ \A s : Harmless(s, i) <=> (s - f) % Ring < n
  <2>1. job[i] \in Jobs
    BY <1>2, TypedJobs
  <2>2. job[i].first \in Starts /\ job[i].slots <= 5 /\ (job[i].first + job[i].slots) % Ring \in Starts
    BY DEF Marks
  <2> QED BY <2>1, <2>2 DEF Jobs, Starts, Positions, Harmless, Dist
<1>4. ASSUME NEW k \in Positions, k # 0, mem[k].op = "arg", NEW i \in V
      PROVE  Harmless(k, i) <=> Harmless(k - 1, i)
  <2> DEFINE f == job[i].first
             n == job[i].slots
             d == (k - f) % Ring
             c == ((k - 1) - f) % Ring
  <2>1. /\ f \in 0..(Ring - 1) /\ n \in Nat /\ n <= 5 /\ mem[f].op # "arg"
        /\ mem[(f + n) % Ring].op # "arg"
        /\ (Harmless(k, i) <=> d < n) /\ (Harmless(k - 1, i) <=> c < n)
    BY <1>3
  <2>2. k \in 0..(Ring - 1) /\ k - 1 \in 0..(Ring - 1)
    BY <1>2, <1>4 DEF Positions
  <2> HIDE DEF f, n
  <2>3. k # f /\ k # (f + n) % Ring
    BY <1>4, <2>1
  <2>4. d \in Nat /\ c \in Nat /\ d # n /\ d = c + 1
    <3>1. c \in Nat
      BY <1>2, <2>1, <2>2, RingFacts, SMTT(30)
    <3>2. /\ d \in Nat /\ (d = n => k = (f + n) % Ring)
          /\ k # 0 => d = IF k = f THEN 0 ELSE c + 1
      <4> DEFINE N == Ring
      <4>1. N \in Nat /\ N > 5 /\ f \in 0..(N - 1) /\ n \in Nat /\ n <= 5 /\ k \in 0..(N - 1)
        BY <1>2, <2>1, <2>2
      <4> HIDE DEF N
      <4>2. /\ (k - f) % N \in Nat /\ ((k - f) % N = n => k = (f + n) % N)
            /\ k # 0 => (k - f) % N = IF k = f THEN 0 ELSE (((k - 1) - f) % N) + 1
        BY <4>1, FromFirst, SMTT(30)
      <4> QED BY <4>2 DEF N
    <3> QED BY <1>4, <2>3, <3>1, <3>2
  <2> HIDE DEF d, c
  <2> QED BY <2>1, <2>4
<1>5. ASSUME NEW k \in Positions
      PROVE  /\ Off[k] >= Reach' => mem'[k].op = "nop"
             /\ mem'[k].op = "arg" => k # 0 /\ mem'[k - 1].op = "work"
             /\ mem'[k].op = "work" => k + 1 \in Positions /\ mem'[k + 1].op = "arg"
             /\ mem'[k].op = "pad" => k = Ring - 1
             /\ mem'[k].op = mem[k].op \/ mem'[k].op = "nop"
  <2>1. /\ Off[k] >= Reach => mem[k].op = "nop"
        /\ mem[k].op = "arg" => k # 0 /\ mem[k - 1].op = "work"
        /\ mem[k].op = "work" => k + 1 \in Positions /\ mem[k + 1].op = "arg"
        /\ mem[k].op = "pad" => k = Ring - 1
    BY DEF Commands
  <2>2. \A s \in Positions :
          mem'[s].op = IF \E i \in V : Harmless(s, i) THEN "nop" ELSE mem[s].op
    BY DEF Commands, Positions
  <2>3. mem'[k].op = "arg" => k # 0 /\ mem'[k - 1].op = "work"
    <3> SUFFICES ASSUME mem'[k].op = "arg" PROVE k # 0 /\ mem'[k - 1].op = "work"
      OBVIOUS
    <3>1. mem[k].op = "arg" /\ ~\E i \in V : Harmless(k, i)
      BY <2>2
    <3>2. k # 0 /\ mem[k - 1].op = "work" /\ ~\E i \in V : Harmless(k - 1, i)
      BY <1>4, <2>1, <3>1
    <3>3. k - 1 \in Positions
      BY <1>2, <3>2 DEF Positions
    <3> QED BY <2>2, <3>2, <3>3
  <2>4. mem'[k].op = "work" => k + 1 \in Positions /\ mem'[k + 1].op = "arg"
    <3> SUFFICES ASSUME mem'[k].op = "work" PROVE k + 1 \in Positions /\ mem'[k + 1].op = "arg"
      OBVIOUS
    <3>1. mem[k].op = "work" /\ ~\E i \in V : Harmless(k, i)
      BY <2>2
    <3>2. k + 1 \in Positions /\ mem[k + 1].op = "arg" /\ k + 1 # 0 /\ (k + 1) - 1 = k
      BY <1>2, <2>1, <3>1 DEF Positions
    <3>3. ~\E i \in V : Harmless(k + 1, i)
      BY <1>4, <3>1, <3>2
    <3> QED BY <2>2, <3>2, <3>3
  <2> QED BY <1>1, <2>1, <2>2, <2>3, <2>4
<1>6. mem' \in [Positions -> [job : Job \cup {0},
                              op : {"nop", "pad", "work", "arg", "final", "release"}]]
  BY DEF Commands, Positions
<1>7. Commands'
  BY <1>1, <1>5, <1>6, ZenonT(40) DEF Commands
<1>8. Starts \subseteq Starts'
  BY <1>1, <1>5 DEF Starts
<1> QED BY <1>1, <1>7, <1>8

\* All the slots of a cancelled job become no-ops, each a command of its own.
LEMMA CancelWhole ==
  ASSUME CInv, WInv, NEW k \in 1..Len(queue), NEW j \in Job, CancelFrom(j, k), UNCHANGED <<scene, sub>>
  PROVE  WInv'
<1> DEFINE sy == [s \in Syncpt |-> [sp[s] EXCEPT !.min = IF s = Sp(timer.client) THEN sp[s].value ELSE @,
                                                    !.locked = @ \/ s = Sp(j)]]
           jb == [i \in Job |-> [job[i] EXCEPT !.cancelled = @ \/ i \in Victims(k), !.failed = @ \/ i = j]]
           V == Victims(k) \ {j}
<1>1. /\ UpdateLocked(jb, sy) /\ Restart(k)
      /\ mem' = [s \in 0..(Ring - 1) |-> IF \E i \in V : Harmless(s, i) THEN [mem[s] EXCEPT !.op = "nop"]
                                         ELSE mem[s]]
  BY DEF CancelFrom
<1>2. ASSUME NEW i \in Job
      PROVE  /\ jb[i] \in Jobs /\ jb[i].first = job[i].first /\ jb[i].slots = job[i].slots
             /\ jb[i].step = job[i].step
  <2>1. job[i] \in Jobs
    BY TypedJobs
  <2>2. (job[i].cancelled \/ i \in Victims(k)) \in BOOLEAN /\ (job[i].failed \/ i = j) \in BOOLEAN
    OBVIOUS
  <2> QED BY <2>1, <2>2 DEF Jobs
<1>3. jb \in [Job -> Jobs]
  BY <1>2
<1>4. V \in SUBSET Elems(queue) /\ k \in 0..Len(queue)
  <2>1. queue \in Seq(Job) /\ Len(queue) \in Nat
    BY LenProperties DEF CInv, Types
  <2>2. k..Len(queue) \subseteq 1..Len(queue)
    BY <2>1
  <2> QED BY <2>1, <2>2 DEF Victims, Elems
<1> HIDE DEF sy, jb, V
<1>5. /\ pb'.pos = pb.pos /\ Elems(queue') \subseteq Elems(queue)
      /\ \A i \in Job : /\ job'[i].first = job[i].first /\ job'[i].slots = job[i].slots
                        /\ job'[i].step = job[i].step
  BY <1>1, <1>2, <1>3, UpdatedSame
<1> SUFFICES ASSUME Roomy PROVE Commands' /\ Marks' /\ Budget'
  BY DEF WInv, Roomy, Ring
<1>6. Commands /\ Marks /\ Budget
  BY DEF WInv
<1>7. Commands' /\ Off' = Off /\ Reach' = Reach /\ Starts \subseteq Starts'
  BY <1>1, <1>4, <1>5, <1>6, CancelledWhole
<1>8. Marks'
  <2>1. Fetching'
    BY <1>1, <1>4, <1>6, <1>7, RestartWhole DEF Fetching
  <2>2. Ring' = Ring /\ Elems(queue)' = Elems(queue') /\ Elems(queue) \subseteq Job
    BY SpaceFacts DEF Ring, Elems
  <2>3. ASSUME NEW i \in Elems(queue)'
        PROVE  /\ job'[i].first \in Starts' /\ job'[i].slots <= 5
               /\ (job'[i].first + job'[i].slots) % Ring' \in Starts'
    BY <1>5, <1>6, <1>7, <2>2 DEF Marks
  <2>4. sub'.step # "idle" => sub'.first \in Starts' /\ (sub'.first + sub'.used) % Ring' = pb'.pos
    BY <1>5, <1>6, <1>7, <2>2 DEF Marks
  <2> QED BY <2>1, <2>3, <2>4 DEF Marks
<1>9. Budget'
  BY <1>5, <1>6, <1>7 DEF Budget
<1> QED BY <1>7, <1>8, <1>9

\* cdma_timeout_handler() restarts fetching at the beginning of a command.
LEMMA HandlerWhole == ASSUME CInv, WInv, Handler PROVE WInv'
<1> DEFINE c == timer.client
           k == Stuck(sp[Sp(c)].value)
<1>1. UNCHANGED <<scene, sub>>
  BY DEF Handler
<1>2. queue \in Seq(Job) /\ Len(queue) \in Nat /\ \A i \in 1..Len(queue) : queue[i] \in Job
  BY LenProperties, ElementOfSeq DEF CInv, Types
<1>3. k \in 0..Len(queue)
  BY <1>2, StuckFacts
<1>4. \/ UNCHANGED <<pb, mem, dma, job, queue>>
      \/ Restart(0) /\ UNCHANGED <<pb, mem, job, queue>>
      \/ k # 0 /\ Recover(queue[k], k)
      \/ k # 0 /\ CancelFrom(queue[k], k)
  BY DEF Handler
<1> HIDE DEF c, k
<1>5. CASE UNCHANGED <<pb, mem, dma, job, queue>>
  <2>1. Roomy => Fetching'
    BY <1>1, <1>5 DEF WInv, Marks, Fetching, Starts, Positions, Reach, Off, Dist, Ring
  <2> QED BY <1>1, <1>5, <2>1, QuietWhole
<1>6. CASE Restart(0) /\ UNCHANGED <<pb, mem, job, queue>>
  BY <1>1, <1>2, <1>6, RestartedWhole
<1>7. CASE k # 0 /\ Recover(queue[k], k)
  <2>1. /\ job' = [job EXCEPT ![queue[k]] = [@ EXCEPT !.timed = FALSE, !.failed = TRUE]]
        /\ Restart(k) /\ UNCHANGED <<pb, mem, queue>>
    BY <1>7 DEF Recover
  <2>2. \A i \in Job : /\ job'[i].first = job[i].first /\ job'[i].slots = job[i].slots
                       /\ job'[i].step = job[i].step
    BY <2>1, TypedJobs DEF Jobs
  <2> QED BY <1>1, <1>3, <2>1, <2>2, RestartedWhole
<1>8. CASE k # 0 /\ CancelFrom(queue[k], k)
  BY <1>1, <1>2, <1>3, <1>8, CancelWhole
<1> QED BY <1>4, <1>5, <1>6, <1>7, <1>8

-----------------------------------------------------------------------------
(* The other steps, and the theorem.                                       *)

\* Steps that leave the ring, the queue and the places of jobs alone.
LEMMA OtherWhole ==
  ASSUME CInv, WInv, UNCHANGED <<scene, mem, pb, queue>>, dma'.get = dma.get, dma'.put = dma.put,
         \A i \in Job : /\ job'[i].first = job[i].first /\ job'[i].slots = job[i].slots
                        /\ job'[i].step = "new" => job[i].step = "new",
         sub'.step = "idle" <=> sub.step = "idle",
         sub'.job = sub.job, sub'.i = sub.i, sub'.used = sub.used, sub'.first = sub.first
  PROVE  WInv'
<1>1. Roomy => Fetching'
  BY DEF WInv, Marks, Fetching, Starts, Positions, Reach, Off, Dist, Ring
<1> QED BY <1>1, QuietWhole

\* Fences that are put or time out are no business of the ring.
LEMMA FencesWhole ==
  ASSUME CInv, WInv, NEW j \in Job, Put(j) \/ FenceTimeout(j) PROVE WInv'
<1>1. UNCHANGED <<scene, mem, pb, queue, dma, sub>>
  BY DEF Put, FenceTimeout
<1>2. ASSUME NEW i \in Job
      PROVE  /\ job'[i].first = job[i].first /\ job'[i].slots = job[i].slots
             /\ job'[i].step = "new" => job[i].step = "new"
  <2>1. job[i] \in Jobs /\ job \in [Job -> Jobs]
    BY TypedJobs
  <2>2. CASE Put(j)
    BY <2>1, <2>2 DEF Put, Jobs
  <2>3. CASE FenceTimeout(j)
    BY <2>1, <2>3 DEF FenceTimeout, Jobs
  <2> QED BY <2>2, <2>3
<1> QED BY <1>1, <1>2, OtherWhole

\* Nor are the syncpoints' interrupts and reads.
LEMMA CounterWhole ==
  ASSUME CInv, WInv, NEW s \in Syncpt, Interrupt(s) \/ Look(s) PROVE WInv'
<1>1. UNCHANGED <<scene, mem, pb, queue, dma, sub>>
  BY DEF Interrupt, Look
<1>2. ASSUME NEW i \in Job
      PROVE  /\ job'[i].first = job[i].first /\ job'[i].slots = job[i].slots
             /\ job'[i].step = "new" => job[i].step = "new"
  <2>1. job[i] \in Jobs
    BY TypedJobs
  <2>2. PICK D : job' = job \/ job' = [j \in Job |-> IF j \in D THEN [job[j] EXCEPT !.fence = "signalled"] ELSE job[j]]
    BY DEF Interrupt, Look
  <2> QED BY <2>1, <2>2 DEF Jobs
<1> QED BY <1>1, <1>2, OtherWhole

\* A timer that fires and the steps of cdma_stop() leave both pointers.
LEMMA TimerStopsWhole ==
  ASSUME CInv, WInv, TimerFires \/ StopCall \/ StopCheck \/ StopWake PROVE WInv'
<1>1. UNCHANGED <<scene, mem, pb, queue, sub>> /\ dma'.get = dma.get /\ dma'.put = dma.put
  BY TypedJobs DEF TimerFires, StopCall, StopCheck, StopWake
<1>2. ASSUME NEW i \in Job
      PROVE  /\ job'[i].first = job[i].first /\ job'[i].slots = job[i].slots
             /\ job'[i].step = "new" => job[i].step = "new"
  <2>1. job[i] \in Jobs /\ job \in [Job -> Jobs]
    BY TypedJobs
  <2>2. job' = job \/ job' = [job EXCEPT ![timer.client].expired = TRUE]
    BY DEF TimerFires, StopCall, StopCheck, StopWake
  <2> QED BY <2>1, <2>2 DEF Jobs
<1> QED BY <1>1, <1>2, OtherWhole

\* A submission that wakes up, or takes the lock again, has written nothing.
LEMMA WakeWhole == ASSUME CInv, WInv, Wake \/ Relock PROVE WInv'
<1>1. /\ UNCHANGED <<scene, mem, pb, queue, dma, job>>
      /\ sub.step # "idle" /\ sub'.step # "idle" /\ sub'.job = sub.job /\ sub'.i = sub.i
      /\ sub'.used = sub.used /\ sub'.first = sub.first
  BY SubFacts DEF Wake, Relock, Subs
<1> QED BY <1>1, OtherWhole

\* At the start all of the ring is no-ops.
LEMMA InitWhole == Init => WInv
<1> SUFFICES ASSUME Init PROVE Commands /\ Marks /\ Budget
  BY DEF WInv
<1>1. CInv /\ Ring \in Nat /\ Ring > 5 /\ Types
  BY InitCInv, ReachFacts
<1>2. /\ pb.pos = scene.at /\ dma.get = scene.at /\ dma.put = scene.at /\ queue = <<>> /\ sub.step = "idle"
      /\ mem = [k \in Positions |-> [job |-> 0, op |-> "nop"]]
  BY DEF Init, Positions
<1>3. scene.at \in Positions /\ Off[scene.at] = 0 /\ Reach = 0
  <2>1. pb.pos \in Positions
    BY <1>1, ReachFacts
  <2>2. Off[scene.at] = 0
    BY <1>1, <1>2, <2>1, OffFacts
  <2> QED BY <1>2, <2>1, <2>2 DEF Reach
<1>4. Commands
  BY <1>2 DEF Commands
<1>5. Marks
  <2>1. scene.at \in Starts
    BY <1>2, <1>3 DEF Starts
  <2>2. Elems(queue) = {}
    BY <1>2, EmptyFacts
  <2>3. Off[dma.get] <= Off[dma.put]
    BY <1>2, <1>3
  <2> QED BY <1>2, <2>1, <2>2, <2>3 DEF Marks, Fetching
<1>6. Budget
  <2>1. NJobs \in Nat /\ Job = 1..NJobs
    BY <1>1, ReachFacts
  <2> QED BY <1>2, <1>3, <2>1 DEF Budget
<1> QED BY <1>4, <1>5, <1>6

\* Every step keeps the commands whole.
LEMMA StepWhole == CInv /\ WInv /\ [Next]_vars => WInv'
<1> SUFFICES ASSUME CInv, WInv, [Next]_vars PROVE WInv'
  OBVIOUS
<1>1. CASE UNCHANGED vars
  BY <1>1, OtherWhole DEF vars
<1>2. CASE Next
  <2>1. ASSUME NEW j \in Job, BeginRuns(j) \/ Put(j) \/ FenceGivesUp(j) PROVE WInv'
    BY <2>1, BeginWhole, FencesWhole DEF BeginRuns, FenceGivesUp
  <2>2. ASSUME NEW s \in Syncpt, Interrupt(s) \/ Look(s) PROVE WInv'
    BY <2>2, CounterWhole
  <2>3. CASE Submit
    BY <2>3, PushWideWhole, PushWhole, WakeWhole, EndWhole DEF Submit
  <2>4. CASE UpdateRuns \/ HandlerRuns \/ EngineRuns
    BY <2>4, UpdateWhole, HandlerWhole, ExecWhole DEF UpdateRuns, HandlerRuns, EngineRuns
  <2>5. CASE TimerGoesOff \/ StopRuns \/ StopCheck \/ StopWake
    BY <2>5, TimerStopsWhole DEF TimerGoesOff, StopRuns
  <2> QED BY <1>2, <2>1, <2>2, <2>3, <2>4, <2>5 DEF Next
<1> QED BY <1>1, <1>2

\* In a ring with room for all jobs, though jobs hang, are cancelled or are recovered
\* and the DMA is restarted or stopped under a submission, the hardware never takes
\* the second half of a wide command for a command.
THEOREM WholeCommands == Spec => [](Roomy => FetchWhole)
<1>1. CInv /\ WInv => (Roomy => FetchWhole)
  BY DEF WInv, Marks, Fetching, Starts, FetchWhole, At
<1>2. Spec => []WInv
  BY InitWhole, StepWhole, Invariance, PTL DEF Spec
<1> QED BY <1>1, <1>2, Invariance, PTL
=============================================================================
