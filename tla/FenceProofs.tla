----------------------------- MODULE FenceProofs -----------------------------
(***************************************************************************)
(* Theorems about syncpoint fences and the doorbell that uses them, for    *)
(* every number of fences, every use of them and every counter range in    *)
(* which thresholds stay within half of the range.                         *)
(***************************************************************************)
EXTENDS Doorbell, SequenceFacts

Goals == 0..(MaxIncr + Ahead)
Numbers == 0..(CounterMod - 1)
IsrSteps == {"off", "disable", "load", "walk", "xchg", "cancel", "signal", "put"}
Fences == [refs : Nat, goal : Goals, cb : BOOLEAN, signaling : BOOLEAN, signaled : BOOLEAN,
           error : BOOLEAN, late : BOOLEAN]
Loads == [step : {"off", "min", "hw", "swap", "done"}, old : Numbers, live : Numbers]

\* The types of all variables of Fence.
Types ==
  /\ total \in 0..MaxIncr /\ hw \in Numbers /\ min \in Numbers /\ reg \in Numbers
  /\ enabled \in BOOLEAN /\ locked \in BOOLEAN /\ power \in BOOLEAN
  /\ list \in Seq(Fence) /\ Distinct(list)
  /\ isr \in [step : IsrSteps, fence : Fence \cup {None}]
  /\ load \in [Fence \cup {None} -> Loads]
  /\ kind \in [Fence -> Kinds]
  /\ fence \in [Fence -> Fences]
  /\ work \in [Fence -> {"idle", "pending", "xchg", "remove", "error", "signal", "put"}]
  /\ user \in [Fence -> {"off", "look", "created", "armed", "cancel", "leave", "done"}]

\* The handler holds the lock while it walks the list, and has a fence in hand
\* between taking it and putting it.
Handling == isr.step \in {"xchg", "cancel", "signal", "put"}
Walking ==
  /\ isr.fence # None <=> Handling
  /\ locked <=> isr.step = "walk" \/ Handling
  /\ locked => load[None].step = "done"
  /\ ~power => isr.step = "off" /\ \A a \in Fence \cup {None} : load[a].step = "off"

\* The shadow, and every value that a syncpt_load() has read, is the counter at
\* some earlier time, and a load has read the counter after the shadow.
Clock ==
  /\ IF power THEN hw = Counter(total) ELSE min = Counter(total)
  /\ \E m \in 0..total : min = Counter(m)
  /\ \A a \in Fence \cup {None} :
       /\ load[a].step = "hw" => \E o \in 0..total : load[a].old = Counter(o)
       /\ load[a].step = "swap" =>
            \E o \in 0..total : \E l \in o..total : /\ load[a].old = Counter(o)
                                                    /\ load[a].live = Counter(l)
       /\ load[a].step = "done" => \E l \in 0..total : load[a].live = Counter(l)

In(f) == f \in Elems(list)
Taken(f) == isr.fence = f
HandlerWon(f) == Taken(f) /\ isr.step \in {"cancel", "signal"}
TimeoutWon(f) == work[f] \in {"remove", "error", "signal"}

\* References, as RefsExact has them, and who may hold them when.
Counted(f) ==
  /\ fence[f].refs = (IF Holding(f) THEN 1 ELSE 0) + (IF In(f) \/ Taken(f) THEN 1 ELSE 0)
                     + (IF Timed(f) /\ work[f] # "idle" THEN 1 ELSE 0)
  /\ fence[f].refs = 0 => /\ ~fence[f].cb /\ ~fence[f].signaling /\ ~fence[f].signaled
                          /\ ~fence[f].error /\ ~fence[f].late
  /\ user[f] \in {"off", "look"} => fence[f].refs = 0
  /\ ~Timed(f) /\ work[f] # "idle" => user[f] = "cancel"
  /\ user[f] = "created" => /\ work[f] = "idle" /\ ~In(f) /\ ~Taken(f)
                            /\ ~fence[f].cb /\ ~fence[f].signaling
                            /\ (fence[f].signaled => kind[f] = "polled")
                            /\ ~fence[f].error /\ ~fence[f].late
  /\ fence[f].cb /\ kind[f] \in {"notifier", "client"} => user[f] = "armed"
  /\ fence[f].cb => ~fence[f].signaled
  /\ Taken(f) => ~In(f) /\ fence[f].goal <= total

\* One of the handler and the timeout work wins the atomic_xchg() and signals.
Signalled(f) ==
  /\ HandlerWon(f) => fence[f].signaling /\ work[f] \in {"idle", "pending", "xchg"}
  /\ TimeoutWon(f) => fence[f].signaling
  /\ work[f] = "put" => fence[f].signaling /\ Timed(f)
  /\ fence[f].signaling /\ ~fence[f].signaled => TimeoutWon(f) \/ HandlerWon(f)
  /\ fence[f].signaling /\ In(f) => work[f] = "remove"
  /\ fence[f].refs > 0 /\ ~fence[f].signaled =>
       \/ user[f] = "created" \/ In(f) \/ TimeoutWon(f)
       \/ Taken(f) /\ isr.step \in {"xchg", "cancel", "signal"}

\* The error is set before the fence is signalled or not at all.
Errors(f) ==
  /\ work[f] = "signal" => fence[f].error
  /\ kind[f] # "polled" =>
       /\ fence[f].signaled /\ ~fence[f].signaling =>
            work[f] = "idle" /\ ~(user[f] = "armed" /\ kind[f] \in {"wait", "client"})
       /\ work[f] \in {"remove", "error"} => ~fence[f].signaled
       /\ fence[f].signaled => fence[f].error = fence[f].late /\ ~In(f)
  /\ kind[f] = "client" /\ In(f) =>
       user[f] = "armed" \/ (user[f] = "cancel" /\ work[f] \in {"pending", "xchg", "remove"})

FenceOK(f) == Counted(f) /\ Signalled(f) /\ Errors(f)

\* The list is sorted and the interrupt set for its first fence.
Order ==
  /\ Sorted
  /\ HotSuspend \/ list = <<>> \/ (power /\ (isr.step # "off" \/ (enabled /\ reg = threshold(list[1]))))

FInv == Types /\ Walking /\ Clock /\ (\A f \in Fence : FenceOK(f)) /\ Order

\* The doorbell has one fence at a time, for the value behind the last one heard.
Bell ==
  /\ step \in {"idle", "lock", "alloc", "add", "failed"} /\ pending \in BOOLEAN /\ mutex \in BOOLEAN
  /\ freeing \in {"no", "cancel", "flush", "gone"}
  /\ cur \in Mine \cup {None} /\ new \in Mine \cup {None} /\ next \in Goals
  /\ step = "add" => new # None
  /\ step \in {"alloc", "add"} => cur = None
  /\ freeing = "cancel" => cur # None
  /\ \A f \in Mine : /\ user[f] = "armed" => cur = f /\ fence[f].goal = next
                     /\ user[f] = "created" => step = "add" /\ new = f /\ fence[f].goal = next
                     /\ user[f] = "cancel" => freeing = "cancel" /\ cur = f
                     /\ user[f] # "look"
  /\ (pending \/ step = "lock") /\ freeing = "no" => next <= total
  /\ step = "alloc" => next <= total
  /\ freeing = "no" /\ (pending \/ step # "idle") => \A f \in Mine : ~fence[f].cb
  /\ freeing = "no" /\ step # "idle" => ~pending

\* A release that waits for the work finds no fence it does not know.
Released == QuietRelease /\ freeing # "no" => step \in {"idle", "failed", "lock"} /\ (freeing # "cancel" => cur = None)

DInv == FInv /\ Bell /\ Released

-----------------------------------------------------------------------------
(* Numbers.  As long as thresholds and values lie less than half of the    *)
(* range apart, comparing counters is comparing what they count.           *)

\* x % m, where x is at most one m away from the range of the result.
LEMMA ModFacts ==
  ASSUME NEW m \in Nat \ {0}, NEW x \in Int
  PROVE  /\ x % m \in 0..(m - 1)
         /\ 0 <= x /\ x < m => x % m = x
         /\ m <= x /\ x < 2 * m => x % m = x - m
         /\ 0 - m <= x /\ x < 0 => x % m = x + m
<1>1. x % m \in 0..(m - 1)
  OBVIOUS
<1>2. ASSUME 0 <= x, x < m PROVE x % m = x
  BY <1>2
<1>3. ASSUME m <= x, x < 2 * m PROVE x % m = x - m
  BY <1>3
<1>4. ASSUME 0 - m <= x, x < 0 PROVE x % m = x + m
  BY <1>4
<1> QED BY <1>1, <1>2, <1>3, <1>4

\* The range of a counter.
LEMMA CounterRange ==
  /\ CounterMod \in Nat \ {0} /\ Half \in Nat /\ CounterMod = 2 * Half
  /\ Start \in Nat /\ Start < CounterMod /\ MaxIncr \in Nat /\ Ahead \in Nat /\ Ahead > 0
  /\ MaxIncr + Ahead < Half
BY FenceAssumption DEF Half

\* What Counter computes for a value in the range of thresholds.
LEMMA CounterValue ==
  ASSUME NEW a \in Goals
  PROVE  /\ Counter(a) \in Numbers
         /\ Counter(a) = IF Start + a < CounterMod THEN Start + a ELSE Start + a - CounterMod
<1>1. a \in Nat /\ a < Half /\ Start + a \in Int
  BY CounterRange DEF Goals
<1>2. 0 <= Start + a /\ Start + a < 2 * CounterMod
  BY <1>1, CounterRange
<1> HIDE DEF Half
<1>3. Counter(a) \in Numbers
  BY <1>1, CounterRange, ModFacts DEF Counter, Numbers
<1>4. CASE Start + a < CounterMod
  BY <1>1, <1>2, <1>3, <1>4, CounterRange, ModFacts DEF Counter
<1>5. CASE Start + a >= CounterMod
  <2> DEFINE x == Start + a
  <2>1. x \in Int /\ CounterMod \in Nat \ {0} /\ CounterMod <= x /\ x < 2 * CounterMod
    BY <1>1, <1>2, <1>5, CounterRange
  <2> HIDE DEF x
  <2>2. x % CounterMod = x - CounterMod
    BY <2>1, ModFacts
  <2>3. Counter(a) = x - CounterMod
    BY <2>2 DEF Counter, x
  <2>4. ~(x < CounterMod)
    BY <2>1
  <2>5. /\ ~(Start + a < CounterMod)
        /\ Counter(a) = Start + a - CounterMod
    BY <1>1, <2>3, <2>4, CounterRange DEF x
  <2> QED BY <1>3, <2>5
<1> QED BY <1>1, <1>3, <1>4, <1>5, CounterRange

\* The distance of two counters, modulo the range.
LEMMA DiffValue ==
  ASSUME NEW a \in Goals, NEW b \in Goals
  PROVE  Diff(Counter(a), Counter(b)) = IF a >= b THEN a - b ELSE a - b + CounterMod
<1> DEFINE x == Counter(a)
           y == Counter(b)
<1>1. a \in Nat /\ a < Half /\ b \in Nat /\ b < Half
  BY CounterRange DEF Goals
<1>2. /\ x \in Int /\ 0 <= x /\ x < CounterMod
      /\ x = IF Start + a < CounterMod THEN Start + a ELSE Start + a - CounterMod
  BY CounterValue, CounterRange DEF Numbers
<1>3. /\ y \in Int /\ 0 <= y /\ y < CounterMod
      /\ y = IF Start + b < CounterMod THEN Start + b ELSE Start + b - CounterMod
  BY CounterValue, CounterRange DEF Numbers
<1> HIDE DEF x, y
<1>4. /\ 0 <= x - y => (x - y) % CounterMod = x - y
      /\ x - y < 0 => (x - y) % CounterMod = x - y + CounterMod
  <2> DEFINE d == x - y
  <2>1. d \in Int /\ CounterMod \in Nat \ {0} /\ 0 - CounterMod <= d /\ d < CounterMod
    BY <1>2, <1>3, CounterRange
  <2> HIDE DEF d
  <2>2. (0 <= d => d % CounterMod = d) /\ (d < 0 => d % CounterMod = d + CounterMod)
    BY <2>1, ModFacts
  <2> QED BY <2>2 DEF d
<1>5. CASE a >= b
  BY <1>1, <1>2, <1>3, <1>4, <1>5, CounterRange DEF Diff, x, y
<1>6. CASE a < b
  BY <1>1, <1>2, <1>3, <1>4, <1>6, CounterRange DEF Diff, x, y
<1> QED BY <1>1, <1>5, <1>6

\* host1x_syncpt_is_expired() and the order of the list, on counters.
LEMMA Compare ==
  ASSUME NEW a \in Goals, NEW b \in Goals
  PROVE  /\ Expired(Counter(a), Counter(b)) <=> a >= b
         /\ NotAfter(Counter(a), Counter(b)) <=> a <= b
         /\ a >= b => Diff(Counter(a), Counter(b)) < Half
<1>1. a \in Nat /\ a < Half /\ b \in Nat /\ b < Half
  BY CounterRange DEF Goals
<1>2. Diff(Counter(a), Counter(b)) = IF a >= b THEN a - b ELSE a - b + CounterMod
  BY DiffValue
<1> QED BY <1>1, <1>2, CounterRange DEF Expired, NotAfter

\* An increment of the counter.
LEMMA Successor ==
  ASSUME NEW a \in 0..MaxIncr
  PROVE  a \in Goals /\ a + 1 \in Goals /\ (Counter(a) + 1) % CounterMod = Counter(a + 1)
<1>1. a \in Goals /\ a + 1 \in Goals /\ a \in Nat
  BY CounterRange DEF Goals
<1> DEFINE x == Counter(a)
           y == Counter(a + 1)
<1>2. /\ x \in Int /\ 0 <= x /\ x < CounterMod
      /\ x = IF Start + a < CounterMod THEN Start + a ELSE Start + a - CounterMod
  BY <1>1, CounterValue, CounterRange DEF Numbers
<1>3. y = IF Start + (a + 1) < CounterMod THEN Start + (a + 1) ELSE Start + (a + 1) - CounterMod
  BY <1>1, CounterValue
<1> HIDE DEF x, y
<1>4. /\ x + 1 < CounterMod => (x + 1) % CounterMod = x + 1
      /\ x + 1 = CounterMod => (x + 1) % CounterMod = x + 1 - CounterMod
  <2> DEFINE d == x + 1
  <2>1. d \in Int /\ CounterMod \in Nat \ {0} /\ 0 <= d /\ d <= CounterMod
    BY <1>2, CounterRange
  <2> HIDE DEF d
  <2>2. d < CounterMod => d % CounterMod = d
    BY <2>1, ModFacts
  <2>3. CounterMod <= d /\ d < 2 * CounterMod => d % CounterMod = d - CounterMod
    BY <2>1, ModFacts
  <2>4. d = CounterMod => CounterMod <= d /\ d < 2 * CounterMod
    BY <2>1
  <2>5. d = CounterMod => d % CounterMod = d - CounterMod
    BY <2>3, <2>4
  <2>6. d = x + 1
    BY DEF d
  <2> QED BY <1>2, <2>2, <2>5, <2>6, CounterRange
<1>5. a + 1 < CounterMod
  BY <1>1, CounterRange
<1> QED BY <1>1, <1>2, <1>3, <1>4, <1>5, CounterRange DEF x, y

-----------------------------------------------------------------------------
(* What a step that changes one fence leaves alone.                        *)

WorkSteps == {"idle", "pending", "xchg", "remove", "error", "signal", "put"}
UserSteps == {"off", "look", "created", "armed", "cancel", "leave", "done"}

\* A step on the fence f: what becomes of it, of its work and of its user.
OnFence(f, r, w, u) ==
  /\ fence' = [fence EXCEPT ![f] = r]
  /\ work' = [work EXCEPT ![f] = w]
  /\ user' = [user EXCEPT ![f] = u]

\* Such a step has the types of Types and touches no other fence.
LEMMA OnFenceFacts ==
  ASSUME Types, NEW f \in Fence, NEW r \in Fences, NEW w \in WorkSteps, NEW u \in UserSteps,
         OnFence(f, r, w, u)
  PROVE  /\ fence' \in [Fence -> Fences] /\ work' \in [Fence -> WorkSteps]
         /\ user' \in [Fence -> UserSteps]
         /\ fence'[f] = r /\ work'[f] = w /\ user'[f] = u
         /\ \A g \in Fence : g # f =>
              fence'[g] = fence[g] /\ work'[g] = work[g] /\ user'[g] = user[g]
<1> HIDE DEF Fences
<1> QED BY DEF OnFence, Types, WorkSteps, UserSteps

\* The fields of a fence have their types.
LEMMA Fields ==
  ASSUME NEW r \in Fences
  PROVE  /\ r.refs \in Nat /\ r.goal \in Goals /\ r.cb \in BOOLEAN /\ r.signaling \in BOOLEAN
         /\ r.signaled \in BOOLEAN /\ r.error \in BOOLEAN /\ r.late \in BOOLEAN
BY DEF Fences

\* A freed fence.
LEMMA FreedFacts ==
  /\ Freed \in Fences /\ Freed.refs = 0 /\ Freed.goal = 0 /\ ~Freed.cb /\ ~Freed.signaling
  /\ ~Freed.signaled /\ ~Freed.error /\ ~Freed.late
BY CounterRange DEF Freed, Fences, Goals

\* dma_fence_put(): one reference less, and a free fence after the last one.
LEMMA LessFacts ==
  ASSUME NEW r \in Fences, r.refs > 0
  PROVE  /\ Less(r) \in Fences /\ Less(r).refs = r.refs - 1
         /\ r.refs = 1 => Less(r) = Freed
         /\ r.refs # 1 => /\ Less(r).goal = r.goal /\ Less(r).cb = r.cb
                          /\ Less(r).signaling = r.signaling /\ Less(r).signaled = r.signaled
                          /\ Less(r).error = r.error /\ Less(r).late = r.late
<1>1. CASE r.refs = 1
  BY <1>1, FreedFacts DEF Less
<1>2. CASE r.refs # 1
  <2>1. Less(r) = [r EXCEPT !.refs = r.refs - 1] /\ r.refs - 1 \in Nat
    BY <1>2, Fields DEF Less
  <2> QED BY <1>2, <2>1 DEF Fences
<1> QED BY <1>1, <1>2

\* What holds of a fence keeps holding when nothing happens to it.
LEMMA Untouched ==
  ASSUME Types, total' \in Nat, total' >= total, kind' = kind,
         NEW g \in Fence, FenceOK(g), fence'[g] = fence[g], work'[g] = work[g], user'[g] = user[g],
         In(g)' <=> In(g), Taken(g)' <=> Taken(g), Taken(g) => isr'.step = isr.step
  PROVE  FenceOK(g)'
<1>1. fence[g].goal \in Nat /\ total \in Nat
  <2>1. fence[g] \in Fences /\ total \in Nat
    BY DEF Types
  <2> QED BY <2>1, Fields DEF Goals
<1>2. HandlerWon(g)' <=> HandlerWon(g)
  BY DEF HandlerWon
<1>3. TimeoutWon(g)' <=> TimeoutWon(g)
  BY DEF TimeoutWon
<1>4. Timed(g)' <=> Timed(g)
  BY DEF Timed
<1>5. Holding(g)' <=> Holding(g)
  BY DEF Holding
<1>6. Counted(g)'
  BY <1>1, <1>4, <1>5 DEF FenceOK, Counted
<1>7. Signalled(g)'
  BY <1>2, <1>3, <1>4 DEF FenceOK, Signalled
<1>8. Errors(g)'
  BY DEF FenceOK, Errors
<1> QED BY <1>6, <1>7, <1>8 DEF FenceOK

\* The list keeps its order while nobody changes it or the thresholds in it.
LEMMA OrderKept ==
  ASSUME Types, Order, UNCHANGED <<list, reg, enabled, power>>,
         isr.step # "off" => isr'.step # "off",
         \A g \in Fence : In(g) => fence'[g].goal = fence[g].goal
  PROVE  Order'
<1>1. \A i \in 1..Len(list) : list[i] \in Fence /\ In(list[i])
  BY ElementOfSeq DEF Types, In, Elems
<1>2. \A i \in 1..Len(list) : fence'[list[i]].goal = fence[list[i]].goal
  BY <1>1
<1>3. Sorted'
  BY <1>2 DEF Order, Sorted
<1>4. list = <<>> \/ threshold(list[1])' = threshold(list[1])
  <2>1. list = <<>> \/ 1 \in 1..Len(list)
    BY EmptySeq, LenProperties DEF Types
  <2> QED BY <1>2, <2>1 DEF threshold, Counter
<1> QED BY <1>3, <1>4 DEF Order

\* Reading the counter into the shadow keeps them together.
LEMMA ClockKept ==
  ASSUME Types, Clock, UNCHANGED <<total, hw, power, load>>, min' = min \/ (power /\ min' = hw)
  PROVE  Clock' /\ min' \in Numbers
<1>1. CASE min' = min
  BY <1>1 DEF Clock, Types, Counter
<1>2. CASE power /\ min' = hw
  <2>1. hw = Counter(total) /\ total \in 0..total
    BY <1>2 DEF Clock, Types
  <2>2. min' = Counter(total)
    BY <1>2, <2>1
  <2> QED BY <1>2, <2>1, <2>2 DEF Clock, Types, Counter
<1> QED BY <1>1, <1>2

\* A step that changes one fence and the shadow, and is right about that fence.
LEMMA LocalStep ==
  ASSUME FInv, NEW f \in Fence, NEW r \in Fences, NEW w \in WorkSteps, NEW u \in UserSteps,
         OnFence(f, r, w, u),
         UNCHANGED <<total, hw, reg, enabled, list, locked, isr, load, kind, power>>,
         min' = min \/ (power /\ min' = hw),
         In(f) => r.goal = fence[f].goal,
         FenceOK(f)'
  PROVE  FInv'
<1>1. /\ fence' \in [Fence -> Fences] /\ work' \in [Fence -> WorkSteps]
      /\ user' \in [Fence -> UserSteps]
      /\ fence'[f] = r /\ work'[f] = w /\ user'[f] = u
      /\ \A g \in Fence : g # f =>
           fence'[g] = fence[g] /\ work'[g] = work[g] /\ user'[g] = user[g]
  BY OnFenceFacts DEF FInv
<1>2. Clock' /\ min' \in Numbers
  BY ClockKept DEF FInv
<1>3. Types'
  BY <1>1, <1>2 DEF FInv, Types, WorkSteps, UserSteps
<1>4. Walking'
  BY DEF FInv, Walking, Handling
<1>5. Order'
  BY <1>1, OrderKept DEF FInv
<1>6. ASSUME NEW g \in Fence, g # f PROVE FenceOK(g)'
  <2>1. total' \in Nat /\ total' >= total
    BY DEF FInv, Types
  <2>2. (In(g)' <=> In(g)) /\ (Taken(g)' <=> Taken(g))
    BY DEF In, Taken, Elems
  <2> QED BY <1>1, <1>6, <2>1, <2>2, Untouched DEF FInv
<1> QED BY <1>2, <1>3, <1>4, <1>5, <1>6 DEF FInv

-----------------------------------------------------------------------------
(* The user of a fence.                                                    *)

\* In a state of FInv the parts of a fence have their types.
LEMMA State ==
  ASSUME FInv, NEW f \in Fence
  PROVE  /\ fence[f] \in Fences /\ work[f] \in WorkSteps /\ user[f] \in UserSteps
         /\ kind[f] \in Kinds /\ total \in 0..MaxIncr /\ total \in Nat /\ total \in Goals
         /\ fence[f].refs \in Nat /\ fence[f].goal \in Nat /\ fence[f].goal \in Goals
         /\ fence[f].cb \in BOOLEAN /\ fence[f].signaling \in BOOLEAN
         /\ fence[f].signaled \in BOOLEAN /\ fence[f].error \in BOOLEAN
         /\ fence[f].late \in BOOLEAN
         /\ Counted(f) /\ Signalled(f) /\ Errors(f)
         /\ fence = [fence EXCEPT ![f] = fence[f]] /\ work = [work EXCEPT ![f] = work[f]]
         /\ user = [user EXCEPT ![f] = user[f]]
<1>1. /\ fence[f] \in Fences /\ work[f] \in WorkSteps /\ user[f] \in UserSteps
      /\ kind[f] \in Kinds /\ total \in 0..MaxIncr
      /\ fence = [fence EXCEPT ![f] = fence[f]] /\ work = [work EXCEPT ![f] = work[f]]
      /\ user = [user EXCEPT ![f] = user[f]]
  <2> HIDE DEF Fences, Kinds
  <2> QED BY DEF FInv, Types, WorkSteps, UserSteps
<1>2. total \in Nat /\ total \in Goals
  BY <1>1, CounterRange DEF Goals
<1>3. fence[f].goal \in Goals /\ fence[f].goal \in Nat
  BY <1>1, Fields DEF Goals
<1>4. Counted(f) /\ Signalled(f) /\ Errors(f)
  BY DEF FInv, FenceOK
<1> QED BY <1>1, <1>2, <1>3, <1>4, Fields

\* With the list, the handler and the kinds as they were, whether a fence is
\* listed, taken or timed is as it was.
LEMMA SameView ==
  ASSUME UNCHANGED <<list, isr, kind>>, NEW f \in Fence
  PROVE  /\ In(f)' <=> In(f)
         /\ Taken(f)' <=> Taken(f)
         /\ Timed(f)' <=> Timed(f)
         /\ HandlerWon(f)' <=> HandlerWon(f)
         /\ kind'[f] = kind[f]
BY DEF In, Elems, Taken, Timed, HandlerWon

\* host1x_fence_create()
LEMMA CreateStep ==
  ASSUME FInv, NEW f \in Fence, NEW goal \in Goals, Create(f, goal)
  PROVE  FInv'
<1> DEFINE r == [Freed EXCEPT !.refs = 1, !.goal = goal]
<1>1. /\ r \in Fences /\ r.refs = 1 /\ ~r.cb /\ ~r.signaling /\ ~r.signaled /\ ~r.error /\ ~r.late
  BY FreedFacts DEF Freed, Fences
<1> HIDE DEF r
<1>2. OnFence(f, r, work[f], "created") /\ fence[f].refs = 0
  BY State, FreedFacts DEF Create, OnFence, UserTo, r
<1>3. work[f] = "idle" /\ ~In(f) /\ ~Taken(f) /\ ~Holding(f)
  BY <1>2, State DEF Counted, Holding
<1>4. fence'[f] = r /\ work'[f] = "idle" /\ user'[f] = "created"
  BY <1>1, <1>2, <1>3, OnFenceFacts, State DEF FInv, UserSteps
<1>5. UNCHANGED <<total, hw, min, reg, enabled, list, locked, isr, load, kind, power>>
  BY DEF Create, counter, intr, pm
<1>6. FenceOK(f)'
  <2>1. ~In(f)' /\ ~Taken(f)' /\ ~HandlerWon(f)'
    BY <1>3, <1>5, SameView DEF HandlerWon
  <2>2. Holding(f)' /\ ~TimeoutWon(f)'
    BY <1>4 DEF Holding, TimeoutWon
  <2>3. Counted(f)'
    BY <1>1, <1>4, <2>1, <2>2 DEF Counted
  <2>4. Signalled(f)'
    BY <1>1, <1>4, <2>1, <2>2 DEF Signalled
  <2>5. Errors(f)'
    BY <1>1, <1>4, <2>1 DEF Errors
  <2> QED BY <2>3, <2>4, <2>5 DEF FenceOK
<1> QED BY <1>1, <1>2, <1>3, <1>5, <1>6, LocalStep, State DEF UserSteps

\* A fence that has just been freed, with nobody left.
LEMMA FreedOK ==
  ASSUME NEW f \in Fence, fence'[f] = Freed, work'[f] = "idle", user'[f] = "done",
         ~In(f)', ~Taken(f)'
  PROVE  FenceOK(f)'
<1>1. ~Holding(f)' /\ ~HandlerWon(f)' /\ ~TimeoutWon(f)'
  BY DEF Holding, HandlerWon, TimeoutWon
<1>2. Counted(f)'
  BY <1>1, FreedFacts DEF Counted
<1>3. Signalled(f)'
  BY <1>1, FreedFacts DEF Signalled
<1>4. Errors(f)'
  BY <1>1, FreedFacts DEF Errors
<1> QED BY <1>2, <1>3, <1>4 DEF FenceOK

\* dma_fence_remove_callback(), which the end of a wait does, too
LEMMA NoCallback ==
  ASSUME NEW r \in Fences
  PROVE  LET c == [r EXCEPT !.cb = FALSE]
         IN  /\ c \in Fences /\ ~c.cb /\ c.refs = r.refs /\ c.goal = r.goal
             /\ c.signaling = r.signaling /\ c.signaled = r.signaled
             /\ c.error = r.error /\ c.late = r.late
BY DEF Fences

\* A wait ends.
LEMMA WaitReturnsStep ==
  ASSUME FInv, NEW f \in Fence, WaitReturns(f)
  PROVE  FInv'
<1> DEFINE r == [fence[f] EXCEPT !.cb = FALSE]
<1>1. /\ r \in Fences /\ ~r.cb /\ r.refs = fence[f].refs /\ r.goal = fence[f].goal
      /\ r.signaling = fence[f].signaling /\ r.signaled = fence[f].signaled
      /\ r.error = fence[f].error /\ r.late = fence[f].late
  BY State, NoCallback
<1> HIDE DEF r
<1>2. OnFence(f, r, work[f], "leave") /\ user[f] = "armed" /\ kind[f] = "wait"
  BY State DEF WaitReturns, OnFence, UserTo, UserAt, r
<1>3. fence'[f] = r /\ work'[f] = work[f] /\ user'[f] = "leave"
  BY <1>1, <1>2, OnFenceFacts, State DEF FInv, UserSteps
<1>4. UNCHANGED <<total, hw, min, reg, enabled, list, locked, isr, load, kind, power>>
  BY DEF WaitReturns, counter, intr, pm
<1>5. FenceOK(f)'
  <2>1. /\ In(f)' <=> In(f)
        /\ Taken(f)' <=> Taken(f)
        /\ HandlerWon(f)' <=> HandlerWon(f)
        /\ Timed(f)' <=> Timed(f)
        /\ kind'[f] = kind[f]
    BY <1>4, SameView
  <2>2. Holding(f)' /\ Holding(f) /\ (TimeoutWon(f)' <=> TimeoutWon(f)) /\ isr' = isr /\ total' = total
    BY <1>2, <1>3, <1>4 DEF Holding, TimeoutWon
  <2>3. ~Timed(f)
    BY <1>2 DEF Timed
  <2>4. Counted(f)'
    BY <1>1, <1>2, <1>3, <2>1, <2>2, <2>3, State DEF Counted
  <2>5. Signalled(f)'
    BY <1>1, <1>2, <1>3, <2>1, <2>2, State DEF Signalled
  <2>6. Errors(f)'
    BY <1>1, <1>2, <1>3, <2>1, State DEF Errors
  <2> QED BY <2>4, <2>5, <2>6 DEF FenceOK
<1> QED BY <1>1, <1>2, <1>4, <1>5, LocalStep, State DEF UserSteps

\* A client puts a fence that has called it back.
LEMMA LetGoStep ==
  ASSUME FInv, NEW f \in Fence, LetGo(f)
  PROVE  FInv'
<1> DEFINE r == Less(fence[f])
<1>1. /\ user[f] = "armed" /\ kind[f] = "client" /\ fence[f].signaled /\ ~fence[f].cb
      /\ Holding(f) /\ ~Timed(f) /\ work[f] = "idle" /\ fence[f].refs > 0
  BY State DEF LetGo, UserAt, Holding, Timed, Counted
<1>2. /\ r \in Fences /\ r.refs = fence[f].refs - 1
      /\ fence[f].refs = 1 => r = Freed
      /\ fence[f].refs # 1 => /\ r.goal = fence[f].goal /\ r.cb = fence[f].cb
                              /\ r.signaling = fence[f].signaling /\ r.signaled = fence[f].signaled
                              /\ r.error = fence[f].error /\ r.late = fence[f].late
  BY <1>1, State, LessFacts
<1>3. OnFence(f, r, work[f], "done")
  BY State DEF LetGo, OnFence, UserTo, Put
<1> HIDE DEF r
<1>4. fence'[f] = r /\ work'[f] = "idle" /\ user'[f] = "done"
  BY <1>1, <1>2, <1>3, OnFenceFacts, State DEF FInv, UserSteps
<1>5. UNCHANGED <<total, hw, min, reg, enabled, list, locked, isr, load, kind, power>>
  BY DEF LetGo, counter, intr, pm
<1>6. /\ In(f)' <=> In(f)
      /\ Taken(f)' <=> Taken(f)
      /\ HandlerWon(f)' <=> HandlerWon(f)
      /\ Timed(f)' <=> Timed(f)
      /\ kind'[f] = kind[f]
  BY <1>5, SameView
<1>7. CASE fence[f].refs = 1
  <2>1. ~In(f) /\ ~Taken(f) /\ fence'[f] = Freed
    BY <1>1, <1>2, <1>4, <1>7, State DEF Counted
  <2>2. FenceOK(f)'
    BY <1>4, <1>6, <2>1, FreedOK
  <2> QED BY <1>1, <1>2, <1>3, <1>5, <2>1, <2>2, LocalStep, State DEF UserSteps
<1>8. CASE fence[f].refs # 1
  <2>1. ~Holding(f)' /\ ~TimeoutWon(f)' /\ isr' = isr /\ total' = total
    BY <1>4, <1>5 DEF Holding, TimeoutWon
  <2>2. Counted(f)'
    <3>1. fence[f].refs = 2 /\ (In(f) \/ Taken(f)) /\ (Taken(f) => ~In(f) /\ fence[f].goal <= total)
      BY <1>1, <1>8, State DEF Counted
    <3> QED BY <1>1, <1>2, <1>4, <1>6, <2>1, <3>1 DEF Counted
  <2>3. Signalled(f)'
    BY <1>1, <1>2, <1>4, <1>6, <1>8, <2>1, State DEF Signalled
  <2>4. Errors(f)'
    <3>1. ~In(f) /\ fence[f].error = fence[f].late
      BY <1>1, State DEF Errors
    <3> QED BY <1>1, <1>2, <1>4, <1>6, <1>8, <3>1 DEF Errors
  <2>5. FenceOK(f)' /\ r.goal = fence[f].goal
    BY <1>2, <1>8, <2>2, <2>3, <2>4 DEF FenceOK
  <2> QED BY <1>1, <1>2, <1>3, <1>5, <2>5, LocalStep, State DEF UserSteps
<1> QED BY <1>7, <1>8

\* The user puts its fence.
LEMMA LeaveStep ==
  ASSUME FInv, NEW f \in Fence, Leave(f) \/ Close(f)
  PROVE  FInv'
<1> DEFINE c == [fence[f] EXCEPT !.cb = FALSE]
           r == Less(c)
<1>1. /\ user[f] \in {"leave", "armed", "created"}
      /\ user[f] # "leave" => kind[f] \in {"file", "polled"}
      /\ Holding(f) /\ (~Timed(f) => work[f] = "idle")
      /\ (kind[f] \in {"notifier", "client"} => ~fence[f].cb) /\ power
  BY State DEF Leave, Close, UserAt, Holding, Timed, Counted
<1>2. /\ c \in Fences /\ ~c.cb /\ c.refs = fence[f].refs /\ c.goal = fence[f].goal
      /\ c.signaling = fence[f].signaling /\ c.signaled = fence[f].signaled
      /\ c.error = fence[f].error /\ c.late = fence[f].late
  BY State, NoCallback
<1>3. OnFence(f, r, work[f], "done") /\ (min' = min \/ (power /\ min' = hw))
  BY <1>1, State DEF Leave, Close, OnFence, UserTo, counter
<1> HIDE DEF c
<1>4. fence[f].refs > 0
  BY <1>1, State DEF Counted
<1>5. /\ r \in Fences /\ r.refs = fence[f].refs - 1
      /\ fence[f].refs = 1 => r = Freed
      /\ fence[f].refs # 1 => /\ r.goal = fence[f].goal /\ ~r.cb
                              /\ r.signaling = fence[f].signaling /\ r.signaled = fence[f].signaled
                              /\ r.error = fence[f].error /\ r.late = fence[f].late
  BY <1>2, <1>4, LessFacts
<1> HIDE DEF r
<1>6. fence'[f] = r /\ work'[f] = work[f] /\ user'[f] = "done"
  BY <1>1, <1>3, <1>5, OnFenceFacts, State DEF FInv, UserSteps
<1>7. UNCHANGED <<total, hw, reg, enabled, list, locked, isr, load, kind, power>>
  BY DEF Leave, Close, counter, intr, pm
<1>8. /\ In(f)' <=> In(f)
      /\ Taken(f)' <=> Taken(f)
      /\ HandlerWon(f)' <=> HandlerWon(f)
      /\ Timed(f)' <=> Timed(f)
      /\ kind'[f] = kind[f]
  BY <1>7, SameView
<1>9. CASE fence[f].refs = 1
  <2>1. ~In(f) /\ ~Taken(f) /\ work[f] = "idle" /\ fence'[f] = Freed
    BY <1>1, <1>5, <1>6, <1>9, State DEF Counted
  <2>2. FenceOK(f)'
    BY <1>6, <1>8, <2>1, FreedOK
  <2> QED BY <1>1, <1>3, <1>5, <1>7, <2>1, <2>2, LocalStep, State DEF UserSteps
<1>10. CASE fence[f].refs # 1
  <2>1. ~Holding(f)' /\ (TimeoutWon(f)' <=> TimeoutWon(f)) /\ isr' = isr /\ total' = total
    BY <1>6, <1>7 DEF Holding, TimeoutWon
  <2>2. Counted(f)'
    <3>1. /\ fence[f].refs - 1 = (IF In(f) \/ Taken(f) THEN 1 ELSE 0)
                                 + (IF Timed(f) /\ work[f] # "idle" THEN 1 ELSE 0)
          /\ fence[f].refs - 1 # 0
          /\ Taken(f) => ~In(f) /\ fence[f].goal <= total
      BY <1>1, <1>4, <1>10, State DEF Counted
    <3>2. fence'[f].refs = fence[f].refs - 1 /\ ~fence'[f].cb /\ fence'[f].goal = fence[f].goal
      BY <1>5, <1>6, <1>10
    <3> QED BY <1>1, <1>6, <1>8, <2>1, <3>1, <3>2 DEF Counted
  <2>3. Signalled(f)'
    <3>1. user[f] # "created"
      BY <1>1, <1>4, <1>10, State DEF Counted, Holding
    <3> QED BY <1>1, <1>4, <1>5, <1>6, <1>8, <1>10, <2>1, <3>1, State DEF Signalled
  <2>4. Errors(f)'
    <3>1. kind[f] = "client" => ~In(f)
      BY <1>1, State DEF Errors
    <3> QED BY <1>1, <1>5, <1>6, <1>8, <1>10, <3>1, State DEF Errors
  <2>5. FenceOK(f)' /\ r.goal = fence[f].goal
    BY <1>5, <1>10, <2>2, <2>3, <2>4 DEF FenceOK
  <2> QED BY <1>1, <1>3, <1>5, <1>7, <2>5, LocalStep, State DEF UserSteps
<1> QED BY <1>9, <1>10

\* host1x_fence_cancel() runs the timeout work.
LEMMA CancelStep ==
  ASSUME FInv, NEW f \in Fence, Cancel(f)
  PROVE  FInv'
<1> DEFINE r == [fence[f] EXCEPT !.cb = FALSE]
<1>1. /\ r \in Fences /\ ~r.cb /\ r.refs = fence[f].refs /\ r.goal = fence[f].goal
      /\ r.signaling = fence[f].signaling /\ r.signaled = fence[f].signaled
      /\ r.error = fence[f].error /\ r.late = fence[f].late
  BY State, NoCallback
<1> HIDE DEF r
<1>2. OnFence(f, r, "pending", "cancel") /\ user[f] = "armed" /\ kind[f] \in {"wait", "client"}
  BY State DEF Cancel, OnFence, UserTo, UserAt, r
<1>3. fence'[f] = r /\ work'[f] = "pending" /\ user'[f] = "cancel"
  BY <1>1, <1>2, OnFenceFacts, State DEF FInv, UserSteps, WorkSteps
<1>4. UNCHANGED <<total, hw, min, reg, enabled, list, locked, isr, load, kind, power>>
  BY DEF Cancel, counter, intr, pm
<1>5. FenceOK(f)'
  <2>1. /\ In(f)' <=> In(f)
        /\ Taken(f)' <=> Taken(f)
        /\ HandlerWon(f)' <=> HandlerWon(f)
        /\ Timed(f)' <=> Timed(f)
        /\ kind'[f] = kind[f]
    BY <1>4, SameView
  <2>2. Holding(f)' /\ Holding(f) /\ ~TimeoutWon(f)' /\ isr' = isr /\ total' = total
    BY <1>2, <1>3, <1>4 DEF Holding, TimeoutWon
  <2>3. ~Timed(f) /\ work[f] = "idle" /\ ~TimeoutWon(f)
    BY <1>2, State DEF Timed, Counted, TimeoutWon
  <2>4. Counted(f)'
    BY <1>1, <1>2, <1>3, <2>1, <2>2, <2>3, State DEF Counted
  <2>5. Signalled(f)'
    BY <1>1, <1>2, <1>3, <2>1, <2>2, <2>3, State DEF Signalled
  <2>6. Errors(f)'
    BY <1>1, <1>2, <1>3, <2>1, <2>3, State DEF Errors
  <2> QED BY <2>4, <2>5, <2>6 DEF FenceOK
<1> QED BY <1>1, <1>2, <1>4, <1>5, LocalStep, State DEF UserSteps, WorkSteps

\* ... and returns when that is over.
LEMMA CancelledStep ==
  ASSUME FInv, NEW f \in Fence, Cancelled(f)
  PROVE  FInv'
<1>1. OnFence(f, fence[f], work[f], "leave") /\ user[f] = "cancel" /\ work[f] = "idle"
  BY State DEF Cancelled, OnFence, UserTo, UserAt
<1>2. fence'[f] = fence[f] /\ work'[f] = "idle" /\ user'[f] = "leave"
  BY <1>1, OnFenceFacts, State DEF FInv, UserSteps
<1>3. UNCHANGED <<total, hw, min, reg, enabled, list, locked, isr, load, kind, power>>
  BY DEF Cancelled, counter, intr, pm
<1>4. FenceOK(f)'
  <2>1. /\ In(f)' <=> In(f)
        /\ Taken(f)' <=> Taken(f)
        /\ HandlerWon(f)' <=> HandlerWon(f)
        /\ Timed(f)' <=> Timed(f)
        /\ kind'[f] = kind[f]
    BY <1>3, SameView
  <2>2. Holding(f)' /\ Holding(f) /\ ~TimeoutWon(f)' /\ ~TimeoutWon(f) /\ isr' = isr /\ total' = total
    BY <1>1, <1>2, <1>3 DEF Holding, TimeoutWon
  <2>4. Counted(f)'
    BY <1>1, <1>2, <2>1, <2>2, State DEF Counted
  <2>5. Signalled(f)'
    BY <1>1, <1>2, <2>1, <2>2, State DEF Signalled
  <2>6. Errors(f)'
    BY <1>1, <1>2, <2>1, State DEF Errors
  <2> QED BY <2>4, <2>5, <2>6 DEF FenceOK
<1> QED BY <1>1, <1>3, <1>4, LocalStep, State DEF UserSteps

\* dma_fence_signal(): what becomes of the fence and of a notifier's reference.
LEMMA SignalFacts ==
  ASSUME FInv, NEW f \in Fence, Signal(f), fence[f].refs > 0
  PROVE  \E r \in Fences : \E u \in UserSteps :
           /\ fence' = [fence EXCEPT ![f] = r] /\ user' = [user EXCEPT ![f] = u]
           /\ CallsBack(f) => /\ user[f] = "armed" /\ u = "done" /\ kind[f] = "notifier"
                              /\ r.refs = fence[f].refs - 1
           /\ ~CallsBack(f) => u = user[f] /\ r.refs = fence[f].refs
           /\ fence[f].refs # 1 \/ ~CallsBack(f) =>
                /\ r.signaled /\ ~r.cb /\ r.goal = fence[f].goal /\ r.error = fence[f].error
                /\ r.signaling = fence[f].signaling
                /\ r.late = IF fence[f].signaled THEN fence[f].late ELSE fence[f].error
<1> DEFINE s == [fence[f] EXCEPT !.signaled = TRUE, !.cb = FALSE,
                   !.late = IF fence[f].signaled THEN @ ELSE fence[f].error]
<1>1. /\ s \in Fences /\ s.signaled /\ ~s.cb /\ s.goal = fence[f].goal /\ s.error = fence[f].error
      /\ s.signaling = fence[f].signaling /\ s.refs = fence[f].refs
      /\ s.late = IF fence[f].signaled THEN fence[f].late ELSE fence[f].error
  <2>1. fence[f] \in Fences
    BY State
  <2>2. (IF fence[f].signaled THEN fence[f].late ELSE fence[f].error) \in BOOLEAN
    BY State
  <2> QED BY <2>1, <2>2 DEF Fences
<1>2. /\ fence' = [fence EXCEPT ![f] = IF CallsBack(f) THEN Less(s) ELSE s]
      /\ user' = IF CallsBack(f) THEN [user EXCEPT ![f] = "done"] ELSE user
  BY DEF Signal
<1> HIDE DEF s
<1>3. CASE CallsBack(f)
  <2>1. user[f] = "armed" /\ kind[f] = "notifier"
    BY <1>3, State DEF CallsBack, Counted
  <2>2. /\ Less(s) \in Fences /\ Less(s).refs = s.refs - 1
        /\ s.refs # 1 => /\ Less(s).goal = s.goal /\ Less(s).cb = s.cb
                         /\ Less(s).signaling = s.signaling /\ Less(s).signaled = s.signaled
                         /\ Less(s).error = s.error /\ Less(s).late = s.late
    BY <1>1, LessFacts
  <2>3. fence' = [fence EXCEPT ![f] = Less(s)] /\ user' = [user EXCEPT ![f] = "done"]
    BY <1>2, <1>3
  <2>4. "done" \in UserSteps
    BY DEF UserSteps
  <2> QED BY <1>1, <1>3, <2>1, <2>2, <2>3, <2>4
<1>4. CASE ~CallsBack(f)
  <2>1. fence' = [fence EXCEPT ![f] = s] /\ user' = [user EXCEPT ![f] = user[f]]
    BY <1>2, <1>4, State
  <2> QED BY <1>1, <1>4, <2>1, State
<1> QED BY <1>3, <1>4

\* dma_fence_is_signaled() of a fence that is polled.
LEMMA IsSignaledStep ==
  ASSUME FInv, NEW f \in Fence, IsSignaled(f)
  PROVE  FInv'
<1>1. /\ user[f] \in {"created", "armed"} /\ kind[f] = "polled" /\ ~fence[f].signaled
      /\ ~CallsBack(f) /\ Holding(f)
  BY DEF IsSignaled, UserAt, CallsBack, Holding
<1>2. fence[f].refs > 0 /\ Signal(f)
  BY <1>1, State DEF Counted, IsSignaled
<1>3. PICK r \in Fences :
        /\ fence' = [fence EXCEPT ![f] = r] /\ user' = [user EXCEPT ![f] = user[f]]
        /\ r.refs = fence[f].refs
        /\ r.signaled /\ ~r.cb /\ r.goal = fence[f].goal /\ r.error = fence[f].error
        /\ r.signaling = fence[f].signaling /\ r.late = fence[f].error
  BY <1>1, <1>2, SignalFacts
<1>4. OnFence(f, r, work[f], user[f])
  BY <1>3, State DEF IsSignaled, OnFence
<1>5. fence'[f] = r /\ work'[f] = work[f] /\ user'[f] = user[f]
  BY <1>1, <1>4, OnFenceFacts, State DEF FInv
<1>6. UNCHANGED <<total, hw, min, reg, enabled, list, locked, isr, load, kind, power>>
  BY DEF IsSignaled, counter, intr, pm
<1>7. FenceOK(f)'
  <2>1. /\ In(f)' <=> In(f)
        /\ Taken(f)' <=> Taken(f)
        /\ HandlerWon(f)' <=> HandlerWon(f)
        /\ Timed(f)' <=> Timed(f)
        /\ kind'[f] = kind[f]
    BY <1>6, SameView
  <2>2. Holding(f)' /\ (TimeoutWon(f)' <=> TimeoutWon(f)) /\ isr' = isr /\ total' = total
    BY <1>1, <1>5, <1>6 DEF Holding, TimeoutWon
  <2>3. Counted(f)'
    BY <1>1, <1>2, <1>3, <1>5, <2>1, <2>2, State DEF Counted
  <2>4. Signalled(f)'
    BY <1>1, <1>3, <1>5, <2>1, <2>2, State DEF Signalled
  <2>5. Errors(f)'
    BY <1>1, <1>3, <1>5, <2>1, State DEF Errors
  <2> QED BY <2>3, <2>4, <2>5 DEF FenceOK
<1> QED BY <1>3, <1>4, <1>6, <1>7, LocalStep, State

-----------------------------------------------------------------------------
(* do_fence_timeout()                                                      *)

\* While the work of a fence is not idle, somebody has a reference for it.
LEMMA WorkHolds ==
  ASSUME FInv, NEW f \in Fence, work[f] # "idle"
  PROVE  /\ fence[f].refs > 0 /\ user[f] \notin {"off", "look", "created"}
         /\ ~Timed(f) => user[f] = "cancel" /\ Holding(f)
BY State DEF Counted, Holding, UserSteps

\* The work starts to run.
LEMMA WorkStartsStep ==
  ASSUME FInv, NEW f \in Fence, WorkStarts(f)
  PROVE  FInv'
<1>1. OnFence(f, fence[f], "xchg", user[f]) /\ work[f] = "pending"
  BY State DEF WorkStarts, OnFence, WorkTo, WorkAt
<1>2. fence'[f] = fence[f] /\ work'[f] = "xchg" /\ user'[f] = user[f]
  BY <1>1, OnFenceFacts, State DEF FInv, WorkSteps
<1>3. UNCHANGED <<total, hw, min, reg, enabled, list, locked, isr, load, kind, power>>
  BY DEF WorkStarts, counter, intr, pm
<1>4. FenceOK(f)'
  <2>1. /\ In(f)' <=> In(f)
        /\ Taken(f)' <=> Taken(f)
        /\ HandlerWon(f)' <=> HandlerWon(f)
        /\ Timed(f)' <=> Timed(f)
        /\ kind'[f] = kind[f]
    BY <1>3, SameView
  <2>2. /\ Holding(f)' <=> Holding(f)
        /\ ~TimeoutWon(f)' /\ ~TimeoutWon(f) /\ isr' = isr /\ total' = total
    BY <1>1, <1>2, <1>3 DEF Holding, TimeoutWon
  <2>3. Counted(f)'
    BY <1>1, <1>2, <2>1, <2>2, State DEF Counted
  <2>4. Signalled(f)'
    BY <1>1, <1>2, <2>1, <2>2, State DEF Signalled
  <2>5. Errors(f)'
    BY <1>1, <1>2, <2>1, State DEF Errors
  <2> QED BY <2>3, <2>4, <2>5 DEF FenceOK
<1> QED BY <1>1, <1>3, <1>4, LocalStep, State DEF WorkSteps

\* The work puts the reference it has and is idle: the interrupt path was first,
\* or everything is done.
LEMMA WorkPuts ==
  ASSUME FInv, NEW f \in Fence, work[f] \in {"xchg", "put"}, fence[f].signaling, Timed(f),
         OnFence(f, Less(fence[f]), "idle", user[f]),
         UNCHANGED <<total, hw, min, reg, enabled, list, locked, isr, load, kind, power>>
  PROVE  FInv'
<1> DEFINE r == Less(fence[f])
<1>1. fence[f].refs > 0 /\ user[f] \notin {"off", "look", "created"} /\ ~In(f)
  BY WorkHolds, State DEF Signalled
<1>2. /\ r \in Fences /\ r.refs = fence[f].refs - 1
      /\ fence[f].refs = 1 => r = Freed
      /\ fence[f].refs # 1 => /\ r.goal = fence[f].goal /\ r.cb = fence[f].cb
                              /\ r.signaling = fence[f].signaling /\ r.signaled = fence[f].signaled
                              /\ r.error = fence[f].error /\ r.late = fence[f].late
  BY <1>1, State, LessFacts
<1>3. OnFence(f, r, "idle", user[f])
  OBVIOUS
<1> HIDE DEF r
<1>4. fence'[f] = r /\ work'[f] = "idle" /\ user'[f] = user[f]
  BY <1>2, <1>3, OnFenceFacts, State DEF FInv, WorkSteps
<1>5. /\ In(f)' <=> In(f)
      /\ Taken(f)' <=> Taken(f)
      /\ HandlerWon(f)' <=> HandlerWon(f)
      /\ Timed(f)' <=> Timed(f)
      /\ kind'[f] = kind[f] /\ isr' = isr /\ total' = total
  BY SameView
<1>6. CASE fence[f].refs = 1
  <2>1. ~Taken(f) /\ ~Holding(f)
    BY <1>6, State DEF Counted
  <2>2. user[f] = "done"
    BY <1>1, <2>1, State DEF Holding, UserSteps
  <2>3. FenceOK(f)'
    BY <1>1, <1>2, <1>4, <1>5, <1>6, <2>1, <2>2, FreedOK
  <2> QED BY <1>1, <1>2, <1>3, <2>3, LocalStep, State DEF WorkSteps
<1>7. CASE fence[f].refs # 1
  <2>1. (Holding(f)' <=> Holding(f)) /\ ~TimeoutWon(f)' /\ ~TimeoutWon(f)
    BY <1>4 DEF Holding, TimeoutWon
  <2>2. Counted(f)'
    <3>1. /\ fence[f].refs - 1 = (IF Holding(f) THEN 1 ELSE 0) + (IF In(f) \/ Taken(f) THEN 1 ELSE 0)
          /\ fence[f].refs - 1 # 0
          /\ fence[f].cb /\ kind[f] \in {"notifier", "client"} => user[f] = "armed"
          /\ fence[f].cb => ~fence[f].signaled
          /\ Taken(f) => ~In(f) /\ fence[f].goal <= total
      BY <1>1, <1>7, State DEF Counted
    <3>2. /\ fence'[f].refs = fence[f].refs - 1 /\ fence'[f].cb = fence[f].cb
          /\ fence'[f].goal = fence[f].goal /\ fence'[f].signaled = fence[f].signaled
      BY <1>2, <1>4, <1>7
    <3> QED BY <1>1, <1>4, <1>5, <2>1, <3>1, <3>2 DEF Counted
  <2>3. Signalled(f)'
    BY <1>1, <1>2, <1>4, <1>5, <1>7, <2>1, State DEF Signalled
  <2>4. Errors(f)'
    BY <1>1, <1>2, <1>4, <1>5, <1>7, State DEF Errors
  <2>5. FenceOK(f)' /\ r.goal = fence[f].goal
    BY <1>2, <1>7, <2>2, <2>3, <2>4 DEF FenceOK
  <2> QED BY <1>2, <1>3, <2>5, LocalStep, State DEF WorkSteps
<1> QED BY <1>6, <1>7

\* The atomic_xchg() of the timeout.
LEMMA TimeoutXchgStep ==
  ASSUME FInv, NEW f \in Fence, TimeoutXchg(f)
  PROVE  FInv'
<1>1. UNCHANGED <<total, hw, min, reg, enabled, list, locked, isr, load, kind, power>>
  BY DEF TimeoutXchg, counter, intr, pm
<1>2. /\ In(f)' <=> In(f)
      /\ Taken(f)' <=> Taken(f)
      /\ HandlerWon(f)' <=> HandlerWon(f)
      /\ Timed(f)' <=> Timed(f)
      /\ kind'[f] = kind[f] /\ isr' = isr /\ total' = total
  BY <1>1, SameView
<1>3. /\ work[f] = "xchg" /\ fence[f].refs > 0 /\ user[f] \notin {"off", "look", "created"}
      /\ ~TimeoutWon(f)
  BY WorkHolds DEF TimeoutXchg, WorkAt, TimeoutWon
<1>4. CASE fence[f].signaling /\ Timed(f)
  <2>1. OnFence(f, Less(fence[f]), "idle", user[f])
    BY <1>4, State DEF TimeoutXchg, WorkTo, Put, OnFence
  <2> QED BY <1>1, <1>3, <1>4, <2>1, WorkPuts
<1>5. CASE fence[f].signaling /\ ~Timed(f)
  <2>1. OnFence(f, fence[f], "idle", user[f])
    BY <1>5, State DEF TimeoutXchg, WorkTo, OnFence
  <2>2. fence'[f] = fence[f] /\ work'[f] = "idle" /\ user'[f] = user[f]
    BY <2>1, OnFenceFacts, State DEF FInv, WorkSteps
  <2>3. (Holding(f)' <=> Holding(f)) /\ ~TimeoutWon(f)'
    BY <2>2 DEF Holding, TimeoutWon
  <2>4. Counted(f)'
    BY <1>2, <1>3, <1>5, <2>2, <2>3, State DEF Counted
  <2>5. Signalled(f)'
    BY <1>2, <1>3, <1>5, <2>2, <2>3, State DEF Signalled
  <2>6. Errors(f)'
    <3>1. ~In(f)
      BY <1>3, <1>5, State DEF Signalled
    <3> QED BY <1>2, <1>3, <1>5, <2>2, <3>1, State DEF Errors
  <2>7. FenceOK(f)'
    BY <2>4, <2>5, <2>6 DEF FenceOK
  <2> QED BY <1>1, <2>1, <2>7, LocalStep, State DEF WorkSteps
<1>6. CASE ~fence[f].signaling
  <2> DEFINE r == [fence[f] EXCEPT !.signaling = TRUE]
  <2>1. /\ r \in Fences /\ r.signaling /\ r.refs = fence[f].refs /\ r.goal = fence[f].goal
        /\ r.cb = fence[f].cb /\ r.signaled = fence[f].signaled
        /\ r.error = fence[f].error /\ r.late = fence[f].late
    <3>1. fence[f] \in Fences
      BY State
    <3> QED BY <3>1 DEF Fences
  <2>2. OnFence(f, r, "remove", user[f])
    BY <1>6, State DEF TimeoutXchg, WorkTo, OnFence
  <2> HIDE DEF r
  <2>3. fence'[f] = r /\ work'[f] = "remove" /\ user'[f] = user[f]
    BY <2>1, <2>2, OnFenceFacts, State DEF FInv, WorkSteps
  <2>4. (Holding(f)' <=> Holding(f)) /\ TimeoutWon(f)'
    BY <2>3 DEF Holding, TimeoutWon
  <2>5. Counted(f)'
    BY <1>2, <1>3, <2>1, <2>3, <2>4, State DEF Counted
  <2>6. Signalled(f)'
    BY <1>2, <1>3, <1>6, <2>1, <2>3, <2>4, State DEF Signalled
  <2>7. Errors(f)'
    BY <1>2, <1>3, <1>6, <2>1, <2>3, State DEF Errors
  <2>8. FenceOK(f)'
    BY <2>5, <2>6, <2>7 DEF FenceOK
  <2> QED BY <1>1, <2>1, <2>2, <2>8, LocalStep, State DEF WorkSteps
<1> QED BY <1>4, <1>5, <1>6

\* The timeout sets the error of a fence that it has taken from the list.
LEMMA TimeoutErrorStep ==
  ASSUME FInv, NEW f \in Fence, TimeoutError(f)
  PROVE  FInv'
<1> DEFINE r == [fence[f] EXCEPT !.error = TRUE]
<1>1. /\ r \in Fences /\ r.error /\ r.refs = fence[f].refs /\ r.goal = fence[f].goal
      /\ r.cb = fence[f].cb /\ r.signaling = fence[f].signaling
      /\ r.signaled = fence[f].signaled /\ r.late = fence[f].late
  <2>1. fence[f] \in Fences
    BY State
  <2> QED BY <2>1 DEF Fences
<1>2. OnFence(f, r, "signal", user[f]) /\ work[f] = "error"
  BY State DEF TimeoutError, WorkTo, WorkAt, OnFence
<1> HIDE DEF r
<1>3. fence'[f] = r /\ work'[f] = "signal" /\ user'[f] = user[f]
  BY <1>1, <1>2, OnFenceFacts, State DEF FInv, WorkSteps
<1>4. UNCHANGED <<total, hw, min, reg, enabled, list, locked, isr, load, kind, power>>
  BY DEF TimeoutError, counter, intr, pm
<1>5. FenceOK(f)'
  <2>1. /\ In(f)' <=> In(f)
        /\ Taken(f)' <=> Taken(f)
        /\ HandlerWon(f)' <=> HandlerWon(f)
        /\ Timed(f)' <=> Timed(f)
        /\ kind'[f] = kind[f] /\ isr' = isr /\ total' = total
    BY <1>4, SameView
  <2>2. (Holding(f)' <=> Holding(f)) /\ TimeoutWon(f)' /\ TimeoutWon(f)
    BY <1>2, <1>3 DEF Holding, TimeoutWon
  <2>3. fence[f].refs > 0 /\ user[f] \notin {"off", "look", "created"}
    BY <1>2, WorkHolds
  <2>4. Counted(f)'
    BY <1>1, <1>2, <1>3, <2>1, <2>2, <2>3, State DEF Counted
  <2>5. Signalled(f)'
    BY <1>1, <1>2, <1>3, <2>1, <2>2, State DEF Signalled
  <2>6. Errors(f)'
    <3>1. ~In(f)
      BY <1>2, <2>2, State DEF Signalled
    <3> QED BY <1>1, <1>2, <1>3, <2>1, <3>1, State DEF Errors
  <2> QED BY <2>4, <2>5, <2>6 DEF FenceOK
<1> QED BY <1>1, <1>2, <1>4, <1>5, LocalStep, State DEF WorkSteps

\* The timeout signals it.
LEMMA TimeoutSignalStep ==
  ASSUME FInv, NEW f \in Fence, TimeoutSignal(f)
  PROVE  FInv'
<1> DEFINE w == IF Timed(f) THEN "put" ELSE "idle"
<1>1. /\ work[f] = "signal" /\ Signal(f) /\ work' = [work EXCEPT ![f] = w] /\ w \in WorkSteps
  BY DEF TimeoutSignal, WorkAt, WorkTo, WorkSteps
<1>2. /\ fence[f].refs > 0 /\ user[f] \notin {"off", "look", "created"}
      /\ fence[f].signaling /\ fence[f].error /\ ~In(f) /\ ~HandlerWon(f) /\ TimeoutWon(f)
  BY <1>1, WorkHolds, State DEF Signalled, Errors, TimeoutWon
<1>3. CallsBack(f) => Timed(f) /\ Holding(f) /\ fence[f].refs # 1
  <2>1. CallsBack(f) => Timed(f) /\ Holding(f)
    BY State DEF CallsBack, Timed, Counted, Holding
  <2> QED BY <1>1, <2>1, State DEF Counted
<1>4. PICK r \in Fences : \E u \in UserSteps :
        /\ fence' = [fence EXCEPT ![f] = r] /\ user' = [user EXCEPT ![f] = u]
        /\ CallsBack(f) => /\ user[f] = "armed" /\ u = "done" /\ kind[f] = "notifier"
                           /\ r.refs = fence[f].refs - 1
        /\ ~CallsBack(f) => u = user[f] /\ r.refs = fence[f].refs
        /\ r.signaled /\ ~r.cb /\ r.goal = fence[f].goal /\ r.error = fence[f].error
        /\ r.signaling = fence[f].signaling
        /\ r.late = IF fence[f].signaled THEN fence[f].late ELSE fence[f].error
  BY <1>1, <1>2, <1>3, SignalFacts, ZenonT(40)
<1>5. PICK u \in UserSteps :
        /\ fence' = [fence EXCEPT ![f] = r] /\ user' = [user EXCEPT ![f] = u]
        /\ CallsBack(f) => /\ user[f] = "armed" /\ u = "done" /\ kind[f] = "notifier"
                           /\ r.refs = fence[f].refs - 1
        /\ ~CallsBack(f) => u = user[f] /\ r.refs = fence[f].refs
  BY <1>4
<1>6. OnFence(f, r, w, u)
  BY <1>1, <1>5 DEF OnFence
<1> HIDE DEF w
<1>7. fence'[f] = r /\ work'[f] = w /\ user'[f] = u
  BY <1>1, <1>6, OnFenceFacts DEF FInv
<1>8. UNCHANGED <<total, hw, min, reg, enabled, list, locked, isr, load, kind, power>>
  BY DEF TimeoutSignal, counter, intr, pm
<1>9. FenceOK(f)'
  <2>1. /\ In(f)' <=> In(f)
        /\ Taken(f)' <=> Taken(f)
        /\ HandlerWon(f)' <=> HandlerWon(f)
        /\ Timed(f)' <=> Timed(f)
        /\ kind'[f] = kind[f] /\ isr' = isr /\ total' = total
    BY <1>8, SameView
  <2>2. /\ w = IF Timed(f) THEN "put" ELSE "idle"
        /\ ~TimeoutWon(f)'
    BY <1>7 DEF w, TimeoutWon
  <2>3. /\ Holding(f)' <=> Holding(f) /\ ~CallsBack(f)
        /\ u \notin {"off", "look", "created"}
    BY <1>2, <1>5, <1>7 DEF Holding
  <2>4. Counted(f)'
    <3>1. r.refs = (IF Holding(f)' THEN 1 ELSE 0) + (IF In(f) \/ Taken(f) THEN 1 ELSE 0)
                   + (IF Timed(f) /\ w # "idle" THEN 1 ELSE 0)
      <4>1. CASE CallsBack(f)
        BY <1>1, <1>3, <1>5, <2>2, <2>3, <4>1, State DEF Counted
      <4>2. CASE ~CallsBack(f)
        BY <1>1, <1>5, <2>2, <2>3, <4>2, State DEF Counted
      <4> QED BY <4>1, <4>2
    <3>2. r.refs > 0
      BY <1>2, <1>3, <1>5, State
    <3>3. Taken(f) => ~In(f) /\ fence[f].goal <= total
      BY State DEF Counted
    <3> QED BY <1>2, <1>4, <1>7, <2>1, <2>2, <2>3, <3>1, <3>2, <3>3 DEF Counted
  <2>5. Signalled(f)'
    BY <1>2, <1>4, <1>7, <2>1, <2>2, State DEF Signalled
  <2>6. Errors(f)'
    <3>1. kind[f] # "polled" /\ fence[f].signaled => fence[f].error = fence[f].late
      BY State DEF Errors
    <3> QED BY <1>2, <1>4, <1>7, <2>1, <2>2, <3>1 DEF Errors
  <2> QED BY <2>4, <2>5, <2>6 DEF FenceOK
<1> QED BY <1>1, <1>4, <1>6, <1>8, <1>9, LocalStep, State

\* The timeout puts its reference.
LEMMA TimeoutPutStep ==
  ASSUME FInv, NEW f \in Fence, TimeoutPut(f)
  PROVE  FInv'
<1>1. work[f] = "put" /\ fence[f].signaling /\ Timed(f)
  BY State DEF TimeoutPut, WorkAt, Signalled
<1>2. OnFence(f, Less(fence[f]), "idle", user[f])
  BY State DEF TimeoutPut, WorkTo, Put, OnFence
<1>3. UNCHANGED <<total, hw, min, reg, enabled, list, locked, isr, load, kind, power>>
  BY DEF TimeoutPut, counter, intr, pm
<1> QED BY <1>1, <1>2, <1>3, WorkPuts

-----------------------------------------------------------------------------
(* The list of fences.                                                     *)

\* What every element of the list is, and which way it is sorted.
LEMMA ListFacts ==
  ASSUME FInv
  PROVE  /\ list \in Seq(Fence) /\ Distinct(list) /\ Len(list) \in Nat
         /\ \A i \in 1..Len(list) : /\ list[i] \in Fence /\ In(list[i])
                                    /\ fence[list[i]].goal \in Goals /\ fence[list[i]].goal \in Nat
         /\ \A i, j \in 1..Len(list) : i < j => fence[list[i]].goal <= fence[list[j]].goal
<1>1. list \in Seq(Fence) /\ Distinct(list) /\ Len(list) \in Nat
  BY LenProperties DEF FInv, Types
<1>2. \A i \in 1..Len(list) : list[i] \in Fence /\ In(list[i])
  BY <1>1, ElementOfSeq DEF In, Elems
<1>3. \A i \in 1..Len(list) : fence[list[i]].goal \in Goals /\ fence[list[i]].goal \in Nat
  BY <1>2, State
<1> QED BY <1>1, <1>2, <1>3 DEF FInv, Order, Sorted

\* host1x_intr_add_fence_to_list() keeps the list sorted.
LEMMA InsertedFacts ==
  ASSUME FInv, NEW f \in Fence, ~In(f)
  PROVE  LET p == Inserted(f)
         IN  /\ p \in Seq(Fence) /\ Distinct(p) /\ p # <<>>
             /\ Elems(p) = Elems(list) \cup {f}
             /\ \A i, j \in 1..Len(p) : i < j => fence[p[i]].goal <= fence[p[j]].goal
<1> DEFINE goal == fence[f].goal
           before == {i \in 1..Len(list) : NotAfter(threshold(list[i]), threshold(f))}
           k == IF before = {} THEN 1 ELSE Max(before) + 1
           p == Inserted(f)
           at(i) == fence[list[i]].goal
<1>1. goal \in Goals /\ goal \in Nat
  BY State
<1>2. \A i \in 1..Len(list) : i \in before <=> at(i) <= goal
  BY <1>1, ListFacts, Compare DEF threshold
<1>3. /\ k \in 1..(Len(list) + 1)
      /\ \A i \in 1..Len(list) : /\ i < k => at(i) <= goal
                                 /\ i >= k => at(i) >= goal
  <2> HIDE DEF before, at, goal
  <2>0. \A i \in 1..Len(list) : at(i) \in Nat /\ goal \in Nat
    BY <1>1, ListFacts DEF at
  <2>1. CASE before = {}
    <3>1. k = 1 /\ k \in 1..(Len(list) + 1)
      BY <2>1, ListFacts
    <3>2. \A i \in 1..Len(list) : at(i) >= goal
      BY <1>2, <2>0, <2>1
    <3> QED BY <3>1, <3>2, ListFacts
  <2>2. CASE before # {}
    <3>0. Len(list) \in Nat
      BY ListFacts
    <3>1. before \in SUBSET (0..Len(list)) /\ before \in SUBSET (1..Len(list))
      BY <3>0 DEF before
    <3>2. Max(before) \in before /\ \A y \in before : y <= Max(before)
      BY <2>2, <3>0, <3>1, MaxFacts
    <3> DEFINE m == Max(before)
    <3>3. m \in 1..Len(list) /\ k = m + 1 /\ at(m) <= goal /\ \A y \in before : y <= m
      BY <1>2, <2>2, <3>1, <3>2
    <3> HIDE DEF m, k
    <3>4. ASSUME NEW i \in 1..Len(list), i < k PROVE at(i) <= goal
      <4>1. i = m \/ i < m
        BY <3>3, <3>4
      <4>2. at(i) <= at(m)
        BY <3>3, <4>1, ListFacts, <2>0 DEF at
      <4> QED BY <2>0, <3>3, <4>2
    <3>5. ASSUME NEW i \in 1..Len(list), i >= k PROVE at(i) >= goal
      <4>1. i \notin before
        BY <3>3, <3>5
      <4> QED BY <1>2, <2>0, <4>1
    <3> QED BY <3>0, <3>3, <3>4, <3>5
  <2> QED BY <2>1, <2>2
<1>4. p = InsertAt(list, k, f)
  BY DEF Inserted
<1> HIDE DEF before, k, p, goal
<1>5. /\ p \in Seq(Fence) /\ Len(p) = Len(list) + 1
      /\ \A i \in 1..Len(p) : p[i] = IF i < k THEN list[i] ELSE IF i = k THEN f ELSE list[i - 1]
      /\ Elems(p) = Elems(list) \cup {f} /\ Distinct(p)
  BY <1>3, <1>4, ListFacts, InsertFacts DEF In
<1>6. ASSUME NEW i \in 1..Len(p), NEW j \in 1..Len(p), i < j
      PROVE  fence[p[i]].goal <= fence[p[j]].goal
  <2>1. Len(list) \in Nat /\ Len(p) = Len(list) + 1 /\ k \in 1..(Len(list) + 1)
    BY <1>3, <1>5, ListFacts
  <2>2. /\ i < k => i \in 1..Len(list) /\ fence[p[i]].goal = at(i)
        /\ i = k => fence[p[i]].goal = goal
        /\ i > k => i - 1 \in 1..Len(list) /\ fence[p[i]].goal = at(i - 1)
    BY <1>5, <2>1 DEF goal
  <2>3. /\ j < k => j \in 1..Len(list) /\ fence[p[j]].goal = at(j)
        /\ j = k => fence[p[j]].goal = goal
        /\ j > k => j - 1 \in 1..Len(list) /\ fence[p[j]].goal = at(j - 1)
    BY <1>5, <2>1 DEF goal
  <2>4. \A x, y \in 1..Len(list) : (x < y => at(x) <= at(y)) /\ at(x) \in Nat
    BY ListFacts
  <2> HIDE DEF at
  <2>5. CASE j < k
    BY <1>6, <2>1, <2>2, <2>3, <2>4, <2>5
  <2>6. CASE j = k
    <3>1. i < k
      BY <1>6, <2>6
    <3>2. at(i) <= goal
      BY <1>3, <2>2, <3>1
    <3> QED BY <2>2, <2>3, <2>6, <3>1, <3>2
  <2>7. CASE j > k
    <3>1. CASE i < k
      BY <1>1, <1>3, <1>6, <2>1, <2>2, <2>3, <2>4, <2>7, <3>1
    <3>2. CASE i = k
      <4>1. j - 1 \in 1..Len(list) /\ j - 1 >= k
        BY <2>1, <2>3, <2>7
      <4>2. at(j - 1) >= goal /\ at(j - 1) \in Nat
        BY <1>3, <2>4, <4>1
      <4> QED BY <1>1, <2>2, <2>3, <2>7, <3>2, <4>2
    <3>3. CASE i > k
      <4>1. i - 1 \in 1..Len(list) /\ j - 1 \in 1..Len(list) /\ i - 1 < j - 1
        BY <1>6, <2>2, <2>3, <2>7, <3>3
      <4> QED BY <2>2, <2>3, <2>4, <2>7, <3>3, <4>1
    <3> QED BY <2>1, <3>1, <3>2, <3>3
  <2> QED BY <2>1, <2>5, <2>6, <2>7
<1>7. p # <<>>
  BY <1>5, ListFacts
<1> QED BY <1>5, <1>6, <1>7 DEF p

\* Taking a fence from anywhere in the list keeps it sorted.
LEMMA SortedRest ==
  ASSUME FInv, NEW k \in 1..Len(list), NEW p \in Seq(Fence), Len(p) = Len(list) - 1,
         \A i \in 1..Len(p) : p[i] = IF i < k THEN list[i] ELSE list[i + 1]
  PROVE  \A i, j \in 1..Len(p) : i < j => fence[p[i]].goal <= fence[p[j]].goal
<1> SUFFICES ASSUME NEW i \in 1..Len(p), NEW j \in 1..Len(p), i < j
             PROVE  fence[p[i]].goal <= fence[p[j]].goal
  OBVIOUS
<1> DEFINE x == IF i < k THEN i ELSE i + 1
           y == IF j < k THEN j ELSE j + 1
<1>1. p[i] = list[x] /\ p[j] = list[y]
  OBVIOUS
<1>2. Len(list) \in Nat
  BY ListFacts
<1>3. x \in 1..Len(list) /\ y \in 1..Len(list) /\ x < y
  BY <1>2
<1> HIDE DEF x, y
<1> QED BY <1>1, <1>3, ListFacts

\* host1x_intr_remove_fence()
LEMMA WithoutFacts ==
  ASSUME FInv, NEW f \in Fence, In(f)
  PROVE  LET p == Without(f)
         IN  /\ p \in Seq(Fence) /\ Distinct(p)
             /\ Elems(p) = Elems(list) \ {f}
             /\ \A i, j \in 1..Len(p) : i < j => fence[p[i]].goal <= fence[p[j]].goal
<1> DEFINE k == CHOOSE i \in 1..Len(list) : list[i] = f
           p == Without(f)
<1>1. k \in 1..Len(list) /\ list[k] = f
  BY DEF In, Elems
<1>2. p = RemoveAt(list, k)
  BY DEF Without
<1> HIDE DEF k, p
<1>3. /\ p \in Seq(Fence) /\ Len(p) = Len(list) - 1
      /\ \A i \in 1..Len(p) : p[i] = IF i < k THEN list[i] ELSE list[i + 1]
      /\ Elems(p) = Elems(list) \ {list[k]} /\ Distinct(p)
  BY <1>1, <1>2, ListFacts, RemoveFacts
<1>4. \A i, j \in 1..Len(p) : i < j => fence[p[i]].goal <= fence[p[j]].goal
  BY <1>1, <1>3, SortedRest
<1> QED BY <1>1, <1>3, <1>4 DEF p

\* A step that changes one fence and the list, sets the interrupt for the new
\* first fence (host1x_intr_update_hw_state()), and is right about its fence.
LEMMA ListStep ==
  ASSUME FInv, NEW f \in Fence, NEW r \in Fences, NEW w \in WorkSteps, NEW u \in UserSteps,
         OnFence(f, r, w, u),
         UNCHANGED <<total, hw, min, locked, isr, load, kind, power>>,
         list' \in Seq(Fence), Distinct(list'), UpdateHw(list'),
         Elems(list') \subseteq Elems(list) \cup {f}, Elems(list) \subseteq Elems(list') \cup {f},
         \A i, j \in 1..Len(list') : i < j => fence[list'[i]].goal <= fence[list'[j]].goal,
         r.goal = fence[f].goal, HotSuspend \/ power,
         FenceOK(f)'
  PROVE  FInv'
<1>1. /\ fence' \in [Fence -> Fences] /\ work' \in [Fence -> WorkSteps]
      /\ user' \in [Fence -> UserSteps]
      /\ fence'[f] = r /\ work'[f] = w /\ user'[f] = u
      /\ \A g \in Fence : g # f =>
           fence'[g] = fence[g] /\ work'[g] = work[g] /\ user'[g] = user[g]
  BY OnFenceFacts DEF FInv
<1>2. \A g \in Fence : fence'[g].goal = fence[g].goal
  BY <1>1
<1>3. \A i \in 1..Len(list') : list'[i] \in Fence
  BY ElementOfSeq
<1>4. Clock'
  BY DEF FInv, Clock, Counter
<1>5. Walking'
  BY DEF FInv, Walking, Handling
<1>6. list' # <<>> => /\ 1 \in 1..Len(list') /\ Head(list') = list'[1] /\ list'[1] \in Fence
                      /\ reg' = threshold(list'[1]) /\ reg' \in Numbers
  <2>1. SUFFICES ASSUME list' # <<>>
                 PROVE  /\ 1 \in 1..Len(list') /\ Head(list') = list'[1] /\ list'[1] \in Fence
                        /\ reg' = threshold(list'[1]) /\ reg' \in Numbers
    OBVIOUS
  <2>2. 1 \in 1..Len(list') /\ Head(list') = list'[1]
    BY <2>1, TailFacts
  <2>3. list'[1] \in Fence /\ reg' = threshold(list'[1])
    BY <1>3, <2>1, <2>2 DEF UpdateHw
  <2>4. fence[list'[1]].goal \in Goals
    BY <2>3, State
  <2> QED BY <2>2, <2>3, <2>4, CounterValue DEF threshold
<1>7. reg' \in Numbers /\ enabled' \in BOOLEAN /\ (list' # <<>> => enabled')
  BY <1>6 DEF UpdateHw, FInv, Types
<1>8. Types'
  BY <1>1, <1>7 DEF FInv, Types, WorkSteps, UserSteps
<1>9. Order'
  <2>1. Sorted'
    BY <1>2, <1>3 DEF Sorted
  <2>2. list' # <<>> => reg' = threshold(list[1])'
    BY <1>2, <1>6 DEF threshold, Counter
  <2> QED BY <1>7, <2>1, <2>2 DEF Order
<1>10. ASSUME NEW g \in Fence, g # f PROVE FenceOK(g)'
  <2>1. total' \in Nat /\ total' >= total
    BY DEF FInv, Types
  <2>2. (In(g)' <=> In(g)) /\ (Taken(g)' <=> Taken(g))
    BY <1>10 DEF In, Taken
  <2> QED BY <1>1, <1>10, <2>1, <2>2, Untouched DEF FInv
<1> QED BY <1>4, <1>5, <1>8, <1>9, <1>10 DEF FInv

\* The shadow is a value the counter had: it has reached a threshold only if
\* the counter has.
LEMMA ShadowFacts ==
  ASSUME FInv, NEW f \in Fence, Expired(min, threshold(f))
  PROVE  fence[f].goal <= total
<1>1. PICK m \in 0..total : min = Counter(m)
  BY DEF FInv, Clock
<1>2. m \in Goals /\ m <= total /\ fence[f].goal \in Goals /\ m \in Nat
  BY State, CounterRange DEF Goals
<1>3. m >= fence[f].goal
  BY <1>1, <1>2, Compare DEF threshold
<1> QED BY <1>2, <1>3, State

\* dma_fence_add_callback() or dma_fence_wait_timeout(): signalled at once, or
\* listed with a reference for the list and one for the timeout.
LEMMA ArmStep ==
  ASSUME FInv, NEW f \in Fence, Arm(f)
  PROVE  FInv'
<1>1. /\ user[f] = "created" /\ power /\ Holding(f)
      /\ UNCHANGED <<total, hw, min, locked, isr, load, kind, power>>
      /\ fence[f].signaled => UNCHANGED <<reg, enabled, list, fence, work>>
      /\ ~fence[f].signaled => EnableSignaling(f)
  BY DEF Arm, UserAt, Holding, counter, intr, pm
<1>2. /\ work[f] = "idle" /\ ~In(f) /\ ~Taken(f) /\ ~HandlerWon(f) /\ fence[f].refs = 1
      /\ ~fence[f].cb /\ ~fence[f].signaling /\ ~fence[f].error
      /\ ~fence[f].late /\ fence[f].error = fence[f].late
      /\ fence[f].signaled => kind[f] = "polled"
  BY <1>1, State DEF Counted, HandlerWon
<1>3. fence[f] \in Fences /\ fence[f].refs \in Nat
  BY State
<1>4. CASE fence[f].signaled \/ Expired(min, threshold(f))
  <2> DEFINE r == [fence[f] EXCEPT !.signaled = TRUE]
             u == IF kind[f] \in {"wait", "notifier", "client"} THEN "leave" ELSE "armed"
  <2>1. /\ r \in Fences /\ r.signaled /\ r.refs = fence[f].refs /\ r.goal = fence[f].goal
        /\ r.cb = fence[f].cb /\ r.signaling = fence[f].signaling
        /\ r.error = fence[f].error /\ r.late = fence[f].late
    BY <1>3 DEF Fences
  <2>2. fence' = [fence EXCEPT ![f] = r] /\ UNCHANGED <<reg, enabled, list, work>>
    <3>1. CASE fence[f].signaled
      <4>1. r = fence[f]
        BY <1>3, <3>1 DEF Fences
      <4> QED BY <1>1, <3>1, <4>1, State
    <3>2. CASE ~fence[f].signaled
      BY <1>1, <1>4, <3>2 DEF EnableSignaling, intr
    <3> QED BY <3>1, <3>2
  <2> HIDE DEF r
  <2>3. fence'[f] = r
    BY <2>2 DEF FInv, Types
  <2>4. user' = [user EXCEPT ![f] = u] /\ u \in UserSteps
    BY <2>1, <2>3 DEF Arm, UserTo, UserSteps
  <2> HIDE DEF u
  <2>5. OnFence(f, r, work[f], u)
    BY <2>2, <2>4, State DEF OnFence
  <2>6. work'[f] = "idle" /\ user'[f] = u
    BY <1>2, <2>1, <2>4, <2>5, OnFenceFacts, State DEF FInv
  <2>7. FenceOK(f)'
    <3>1. /\ ~In(f)' /\ ~Taken(f)' /\ ~HandlerWon(f)'
          /\ kind'[f] = kind[f]
      BY <1>1, <1>2, <2>2, SameView
    <3>2. /\ Holding(f)' /\ ~TimeoutWon(f)' /\ u \in {"leave", "armed"}
          /\ kind[f] \in {"wait", "notifier", "client"} => u = "leave"
      BY <2>6 DEF Holding, TimeoutWon, u
    <3>3. Counted(f)'
      BY <1>2, <2>1, <2>3, <2>6, <3>1, <3>2 DEF Counted
    <3>4. Signalled(f)'
      BY <1>2, <2>1, <2>3, <2>6, <3>1, <3>2 DEF Signalled
    <3>5. Errors(f)'
      BY <1>2, <2>1, <2>3, <2>6, <3>1, <3>2 DEF Errors
    <3> QED BY <3>3, <3>4, <3>5 DEF FenceOK
  <2> QED BY <1>1, <2>1, <2>2, <2>4, <2>5, <2>7, LocalStep, State
<1>5. CASE ~fence[f].signaled /\ ~Expired(min, threshold(f))
  <2> DEFINE n == IF Timed(f) THEN 2 ELSE 1
             r == [fence[f] EXCEPT !.cb = TRUE, !.refs = fence[f].refs + n]
             w == IF Timed(f) THEN "pending" ELSE "idle"
  <2>1. /\ r \in Fences /\ r.cb /\ r.refs = 1 + n /\ r.goal = fence[f].goal
        /\ r.signaled = fence[f].signaled /\ r.signaling = fence[f].signaling
        /\ r.error = fence[f].error /\ r.late = fence[f].late
    <3>1. n \in Nat
      OBVIOUS
    <3> HIDE DEF n
    <3>2. fence[f].refs + n \in Nat /\ fence[f].refs + n = 1 + n
      BY <1>2, <3>1
    <3> QED BY <1>3, <3>2 DEF Fences
  <2>2. /\ fence' = [fence EXCEPT ![f] = r] /\ list' = Inserted(f) /\ UpdateHw(list')
        /\ work' = IF Timed(f) THEN [work EXCEPT ![f] = "pending"] ELSE work
    BY <1>1, <1>5, Zenon DEF EnableSignaling
  <2>3. work' = [work EXCEPT ![f] = w] /\ w \in WorkSteps
    BY <1>2, <2>2, State DEF WorkSteps
  <2> HIDE DEF r, w
  <2>4. fence'[f] = r
    BY <2>2 DEF FInv, Types
  <2>5. user' = [user EXCEPT ![f] = "armed"] /\ "armed" \in UserSteps
    BY <1>2, <2>1, <2>4 DEF Arm, UserTo, UserSteps
  <2>6. OnFence(f, r, w, "armed")
    BY <2>2, <2>3, <2>5 DEF OnFence
  <2>7. work'[f] = w /\ user'[f] = "armed"
    BY <2>1, <2>3, <2>5, <2>6, OnFenceFacts, State DEF FInv
  <2>8. /\ list' \in Seq(Fence) /\ Distinct(list') /\ Elems(list') = Elems(list) \cup {f}
        /\ \A i, j \in 1..Len(list') : i < j => fence[list'[i]].goal <= fence[list'[j]].goal
    BY <1>2, <2>2, InsertedFacts
  <2>9. FenceOK(f)'
    <3>1. /\ In(f)' /\ ~Taken(f)' /\ ~HandlerWon(f)' /\ kind'[f] = kind[f]
          /\ Timed(f)' <=> Timed(f)
      BY <1>1, <1>2, <2>8 DEF In, Taken, HandlerWon, Timed
    <3>2. /\ Holding(f)' /\ ~TimeoutWon(f)'
          /\ w \in {"pending", "idle"} /\ (Timed(f) <=> w # "idle")
      BY <2>7 DEF Holding, TimeoutWon, w
    <3>3. Counted(f)'
      BY <1>2, <1>5, <2>1, <2>4, <2>7, <3>1, <3>2 DEF Counted
    <3>4. Signalled(f)'
      BY <1>2, <2>1, <2>4, <2>7, <3>1, <3>2 DEF Signalled
    <3>5. Errors(f)'
      BY <1>2, <2>1, <2>4, <2>7, <3>1, <3>2 DEF Errors
    <3> QED BY <3>3, <3>4, <3>5 DEF FenceOK
  <2> QED BY <1>1, <2>1, <2>2, <2>3, <2>5, <2>6, <2>8, <2>9, ListStep
<1> QED BY <1>4, <1>5

\* Whether a fence is listed is whether it is an element of the list.
LEMMA ListedIn == ASSUME NEW f PROVE Listed(f) <=> In(f)
BY DEF Listed, In, Elems

\* The timeout takes the fence from the list, unless the handler was there first.
LEMMA TimeoutRemoveStep ==
  ASSUME FInv, NEW f \in Fence, TimeoutRemove(f)
  PROVE  FInv'
<1>1. /\ work[f] = "remove" /\ work' = [work EXCEPT ![f] = "error"]
      /\ UNCHANGED <<total, hw, min, locked, isr, load, kind, power, user>>
  BY DEF TimeoutRemove, WorkAt, WorkTo, counter, pm
<1>2. /\ fence[f].refs > 0 /\ user[f] \notin {"off", "look", "created"} /\ TimeoutWon(f)
      /\ ~Timed(f) => Holding(f)
  BY <1>1, WorkHolds DEF TimeoutWon
<1>3. CASE ~In(f)
  <2>1. UNCHANGED <<fence, list, reg, enabled>>
    BY <1>3, ListedIn DEF TimeoutRemove, intr
  <2>2. OnFence(f, fence[f], "error", user[f])
    BY <1>1, <2>1, State DEF OnFence
  <2>3. fence'[f] = fence[f] /\ work'[f] = "error" /\ user'[f] = user[f]
    BY <2>2, OnFenceFacts, State DEF FInv, WorkSteps
  <2>4. /\ ~In(f)'
        /\ Taken(f)' <=> Taken(f)
        /\ HandlerWon(f)' <=> HandlerWon(f)
        /\ Timed(f)' <=> Timed(f)
        /\ kind'[f] = kind[f] /\ isr' = isr /\ total' = total
    BY <1>1, <1>3, <2>1, SameView
  <2>5. (Holding(f)' <=> Holding(f)) /\ TimeoutWon(f)'
    BY <2>3 DEF Holding, TimeoutWon
  <2>6. Counted(f)'
    BY <1>1, <1>2, <1>3, <2>3, <2>4, <2>5, State DEF Counted
  <2>7. Signalled(f)'
    BY <1>1, <1>2, <1>3, <2>3, <2>4, <2>5, State DEF Signalled
  <2>8. Errors(f)'
    BY <1>1, <1>2, <1>3, <2>3, <2>4, State DEF Errors
  <2>9. FenceOK(f)'
    BY <2>6, <2>7, <2>8 DEF FenceOK
  <2> QED BY <1>1, <2>1, <2>2, <2>9, LocalStep, State DEF WorkSteps
<1>4. CASE In(f)
  <2> DEFINE r == Less(fence[f])
  <2>1. fence' = [fence EXCEPT ![f] = r] /\ list' = Without(f) /\ UpdateHw(list')
    BY <1>4, ListedIn, Zenon DEF TimeoutRemove, Put
  <2>2. /\ ~Taken(f) /\ ~HandlerWon(f) /\ fence[f].refs > 1
        /\ fence[f].refs - 1 = (IF Holding(f) THEN 1 ELSE 0) + (IF Timed(f) THEN 1 ELSE 0)
    BY <1>1, <1>2, <1>4, State DEF Counted, HandlerWon, Holding
  <2>3. /\ r \in Fences /\ r.refs = fence[f].refs - 1 /\ r.refs > 0
        /\ r.goal = fence[f].goal /\ r.cb = fence[f].cb
        /\ r.signaling = fence[f].signaling /\ r.signaled = fence[f].signaled
        /\ r.error = fence[f].error /\ r.late = fence[f].late
    BY <2>2, LessFacts, State
  <2> HIDE DEF r
  <2>4. OnFence(f, r, "error", user[f])
    BY <1>1, <2>1, State DEF OnFence
  <2>5. fence'[f] = r /\ work'[f] = "error" /\ user'[f] = user[f]
    BY <2>3, <2>4, OnFenceFacts, State DEF FInv, WorkSteps
  <2>6. /\ list' \in Seq(Fence) /\ Distinct(list') /\ Elems(list') = Elems(list) \ {f}
        /\ \A i, j \in 1..Len(list') : i < j => fence[list'[i]].goal <= fence[list'[j]].goal
    BY <1>4, <2>1, WithoutFacts
  <2>7. HotSuspend \/ power
    <3>1. list # <<>>
      BY <1>4, EmptyFacts DEF In
    <3> QED BY <3>1 DEF FInv, Order
  <2>8. FenceOK(f)'
    <3>1. /\ ~In(f)' /\ ~Taken(f)' /\ ~HandlerWon(f)' /\ kind'[f] = kind[f]
          /\ Timed(f)' <=> Timed(f)
      BY <1>1, <2>2, <2>6 DEF In, Taken, HandlerWon, Timed
    <3>2. (Holding(f)' <=> Holding(f)) /\ TimeoutWon(f)'
      BY <2>5 DEF Holding, TimeoutWon
    <3>3. Counted(f)'
      BY <1>1, <1>2, <1>4, <2>2, <2>3, <2>5, <3>1, <3>2, State DEF Counted
    <3>4. Signalled(f)'
      BY <1>1, <1>2, <2>2, <2>3, <2>5, <3>1, <3>2, State DEF Signalled
    <3>5. Errors(f)'
      BY <1>1, <1>2, <2>2, <2>3, <2>5, <3>1, State DEF Errors
    <3> QED BY <3>3, <3>4, <3>5 DEF FenceOK
  <2> QED BY <1>1, <2>1, <2>3, <2>4, <2>6, <2>7, <2>8, ListStep, State DEF WorkSteps
<1> QED BY <1>3, <1>4

-----------------------------------------------------------------------------
(* syncpt_load(), and the users who begin with one.                        *)

\* A step that is not about fences.
LEMMA FencesKept ==
  ASSUME FInv, UNCHANGED <<list, kind, fence, work, user>>, isr'.fence = isr.fence,
         isr.fence # None => isr'.step = isr.step, total' \in Nat, total' >= total
  PROVE  \A f \in Fence : FenceOK(f)'
<1> SUFFICES ASSUME NEW f \in Fence PROVE FenceOK(f)'
  OBVIOUS
<1>1. (In(f)' <=> In(f)) /\ (Taken(f)' <=> Taken(f))
  BY DEF In, Elems, Taken
<1>2. Taken(f) => isr'.step = isr.step
  BY FenceAssumption DEF Taken
<1> QED BY <1>1, <1>2, Untouched DEF FInv

\* What is in a load, whoever loads.
LEMMA LoadFacts ==
  ASSUME FInv, NEW a \in Fence \cup {None}
  PROVE  /\ load[a].step \in {"off", "min", "hw", "swap", "done"}
         /\ load[a].old \in Numbers /\ load[a].live \in Numbers
         /\ load[a].step # "off" => power
         /\ load[a].step \in {"min", "hw", "swap"} => ~(a = None /\ locked)
         /\ min \in Numbers /\ hw \in Numbers /\ total \in Nat /\ 0 \in Numbers
<1>1. load[a] \in Loads /\ min \in Numbers /\ hw \in Numbers /\ total \in Nat
  <2> HIDE DEF Loads
  <2> QED BY DEF FInv, Types
<1>2. 0 \in Numbers
  BY CounterRange DEF Numbers
<1> QED BY <1>1, <1>2 DEF Loads, FInv, Walking

\* A step of a load, which may change the shadow, keeps all but what it says of
\* the clock.
LEMMA LoadStep ==
  ASSUME FInv, NEW a \in Fence \cup {None}, NEW q \in Loads, q.step # "off",
         load[a].step \in {"min", "hw", "swap"}, load' = [load EXCEPT ![a] = q],
         UNCHANGED <<total, hw, reg, enabled, list, locked, isr, kind, fence, work, user, power>>,
         min' \in Numbers, Clock'
  PROVE  FInv'
<1>1. load' \in [Fence \cup {None} -> Loads] /\ load'[a] = q
      /\ \A b \in Fence \cup {None} : b # a => load'[b] = load[b]
  <2> HIDE DEF Loads
  <2> QED BY DEF FInv, Types
<1>2. Types'
  BY <1>1 DEF FInv, Types
<1>3. Walking'
  <2>1. power /\ ~(a = None /\ locked)
    BY LoadFacts
  <2>2. locked => load'[None] = load[None]
    BY <1>1, <2>1
  <2> QED BY <2>1, <2>2 DEF FInv, Walking, Handling
<1>4. \A f \in Fence : FenceOK(f)'
  BY FencesKept, LoadFacts
<1>5. Order'
  BY OrderKept DEF FInv
<1> QED BY <1>2, <1>3, <1>4, <1>5 DEF FInv

\* The shadow is read first: it is the counter at some time so far.
LEMMA LoadMinStep ==
  ASSUME FInv, NEW a \in Fence \cup {None}, LoadMin(a)
  PROVE  FInv'
<1> DEFINE q == [step |-> "hw", old |-> min, live |-> 0]
<1>1. q \in Loads /\ q.step = "hw" /\ q.old = min
  BY LoadFacts DEF Loads
<1>2. /\ load' = [load EXCEPT ![a] = q] /\ load[a].step = "min"
      /\ UNCHANGED <<total, hw, min, reg, enabled, list, locked, isr, kind, fence, work, user, power>>
  BY DEF LoadMin, Loading, counter, intr, pm
<1> HIDE DEF q
<1>3. load'[a] = q /\ \A b \in Fence \cup {None} : b # a => load'[b] = load[b]
  BY <1>2 DEF FInv, Types
<1>4. Clock'
  <2>1. PICK m \in 0..total : min = Counter(m)
    BY DEF FInv, Clock
  <2> QED BY <1>1, <1>2, <1>3, <2>1 DEF FInv, Clock, Counter
<1> QED BY <1>1, <1>2, <1>4, LoadFacts, LoadStep

\* Then the counter, which is now at least as far.
LEMMA LoadHwStep ==
  ASSUME FInv, NEW a \in Fence \cup {None}, LoadHw(a)
  PROVE  FInv'
<1> DEFINE q == [step |-> "swap", old |-> load[a].old, live |-> hw]
<1>1. q \in Loads /\ q.step = "swap" /\ q.old = load[a].old /\ q.live = hw
  BY LoadFacts DEF Loads
<1>2. /\ load' = [load EXCEPT ![a] = q] /\ load[a].step = "hw"
      /\ UNCHANGED <<total, hw, min, reg, enabled, list, locked, isr, kind, fence, work, user, power>>
  BY DEF LoadHw, Loading, counter, intr, pm
<1> HIDE DEF q
<1>3. load'[a] = q /\ \A b \in Fence \cup {None} : b # a => load'[b] = load[b]
  BY <1>2 DEF FInv, Types
<1>4. Clock'
  <2>1. PICK o \in 0..total : load[a].old = Counter(o)
    BY <1>2 DEF FInv, Clock
  <2>2. total \in o..total /\ hw = Counter(total)
    BY <1>2, LoadFacts DEF FInv, Clock
  <2> QED BY <1>1, <1>2, <1>3, <2>1, <2>2 DEF FInv, Clock, Counter
<1> QED BY <1>1, <1>2, <1>4, LoadFacts, LoadStep

\* The shadow is replaced only if it is what it was: never by an older value.
LEMMA LoadSwapStep ==
  ASSUME FInv, NEW a \in Fence \cup {None}, LoadSwap(a)
  PROVE  FInv' /\ (min' # min => Diff(min', min) < Half)
<1>1. PICK o \in 0..total : \E l \in o..total : load[a].old = Counter(o) /\ load[a].live = Counter(l)
  BY DEF LoadSwap, Loading, FInv, Clock
<1>2. PICK l \in o..total : load[a].old = Counter(o) /\ load[a].live = Counter(l)
  BY <1>1
<1>3. total \in Nat /\ o \in Goals /\ l \in Goals /\ l >= o /\ l \in 0..total
  BY State, LoadFacts, CounterRange DEF Goals, FInv, Types
<1>4. CASE min = load[a].old
  <2> DEFINE q == [load[a] EXCEPT !.step = "done", !.old = 0]
  <2>1. q \in Loads /\ q.step = "done" /\ q.live = load[a].live
    <3>1. load[a] \in Loads
      BY DEF FInv, Types
    <3> QED BY <3>1, LoadFacts DEF Loads
  <2>2. /\ load' = [load EXCEPT ![a] = q] /\ load[a].step = "swap" /\ min' = load[a].live
        /\ UNCHANGED <<total, hw, reg, enabled, list, locked, isr, kind, fence, work, user, power>>
    BY <1>4 DEF LoadSwap, Loading, intr, pm
  <2> HIDE DEF q
  <2>3. load'[a] = q /\ \A b \in Fence \cup {None} : b # a => load'[b] = load[b]
    BY <2>2 DEF FInv, Types
  <2>4. Clock'
    BY <1>2, <1>3, <2>1, <2>2, <2>3, LoadFacts DEF FInv, Clock, Counter
  <2>5. Diff(min', min) < Half
    BY <1>2, <1>3, <1>4, <2>2, Compare
  <2> QED BY <2>1, <2>2, <2>4, <2>5, LoadFacts, LoadStep
<1>5. CASE min # load[a].old
  <2> DEFINE q == [load[a] EXCEPT !.step = "min"]
  <2>1. q \in Loads /\ q.step = "min"
    <3>1. load[a] \in Loads
      BY DEF FInv, Types
    <3> QED BY <3>1 DEF Loads
  <2>2. /\ load' = [load EXCEPT ![a] = q] /\ load[a].step = "swap" /\ min' = min
        /\ UNCHANGED <<total, hw, reg, enabled, list, locked, isr, kind, fence, work, user, power>>
    BY <1>5 DEF LoadSwap, Loading, StartLoad, intr, pm
  <2> HIDE DEF q
  <2>3. load'[a] = q /\ \A b \in Fence \cup {None} : b # a => load'[b] = load[b]
    BY <2>2 DEF FInv, Types
  <2>4. Clock'
    BY <2>1, <2>2, <2>3 DEF FInv, Clock, Counter
  <2> QED BY <2>1, <2>2, <2>4, LoadFacts, LoadStep
<1> QED BY <1>4, <1>5

\* A step of a waiter that begins or ends a load of its own.
LEMMA WaiterStep ==
  ASSUME FInv, NEW f \in Fence, NEW r \in Fences, NEW u \in UserSteps, NEW q \in Loads,
         OnFence(f, r, work[f], u), q.step \in {"off", "min"}, power,
         load' = [load EXCEPT ![f] = q],
         UNCHANGED <<total, hw, min, reg, enabled, list, locked, isr, kind, power>>,
         In(f) => r.goal = fence[f].goal,
         FenceOK(f)'
  PROVE  FInv'
<1>1. /\ fence' \in [Fence -> Fences] /\ work' \in [Fence -> WorkSteps]
      /\ user' \in [Fence -> UserSteps]
      /\ fence'[f] = r /\ work'[f] = work[f] /\ user'[f] = u
      /\ \A g \in Fence : g # f =>
           fence'[g] = fence[g] /\ work'[g] = work[g] /\ user'[g] = user[g]
  BY OnFenceFacts, State DEF FInv
<1>2. load' \in [Fence \cup {None} -> Loads] /\ load'[f] = q /\ f # None
      /\ \A b \in Fence \cup {None} : b # f => load'[b] = load[b]
  <2> HIDE DEF Loads
  <2> QED BY FenceAssumption DEF FInv, Types
<1>3. Types'
  BY <1>1, <1>2 DEF FInv, Types, WorkSteps, UserSteps
<1>4. Walking'
  BY <1>2 DEF FInv, Walking, Handling
<1>5. Clock'
  BY <1>2 DEF FInv, Clock, Counter
<1>6. Order'
  BY <1>1, OrderKept DEF FInv
<1>7. ASSUME NEW g \in Fence, g # f PROVE FenceOK(g)'
  <2>1. total' \in Nat /\ total' >= total
    BY DEF FInv, Types
  <2>2. (In(g)' <=> In(g)) /\ (Taken(g)' <=> Taken(g))
    BY DEF In, Taken, Elems
  <2> QED BY <1>1, <1>7, <2>1, <2>2, Untouched DEF FInv
<1> QED BY <1>3, <1>4, <1>5, <1>6, <1>7 DEF FInv

\* A wait begins.
LEMMA BeginWaitStep ==
  ASSUME FInv, NEW f \in Fence, BeginWait(f)
  PROVE  FInv'
<1>1. PICK n \in 1..Ahead : fence' = [fence EXCEPT ![f].goal = total + n]
  BY DEF BeginWait
<1> DEFINE r == [fence[f] EXCEPT !.goal = total + n]
           q == [load[f] EXCEPT !.step = "min"]
<1>2. total + n \in Goals
  BY State, CounterRange DEF Goals
<1>3. /\ r \in Fences /\ r.refs = fence[f].refs /\ r.cb = fence[f].cb
      /\ r.signaling = fence[f].signaling /\ r.signaled = fence[f].signaled
      /\ r.error = fence[f].error /\ r.late = fence[f].late
  <2>1. fence[f] \in Fences
    BY State
  <2> QED BY <1>2, <2>1 DEF Fences
<1>4. /\ q \in Loads /\ q.step = "min"
  <2>1. load[f] \in Loads
    BY DEF FInv, Types
  <2> QED BY <2>1 DEF Loads
<1>5. /\ OnFence(f, r, work[f], "look") /\ load' = [load EXCEPT ![f] = q] /\ power
      /\ user[f] = "off" /\ kind[f] = "wait"
      /\ UNCHANGED <<total, hw, min, reg, enabled, list, locked, isr, kind, power>>
  BY <1>1, State DEF BeginWait, OnFence, UserTo, UserAt, StartLoad, counter, intr, pm
<1> HIDE DEF r, q
<1>6. fence'[f] = r /\ work'[f] = work[f] /\ user'[f] = "look"
  BY <1>3, <1>5, OnFenceFacts, State DEF FInv, UserSteps
<1>7. fence[f].refs = 0 /\ ~In(f) /\ ~Taken(f) /\ ~Holding(f) /\ work[f] = "idle"
  BY <1>5, State DEF Counted, Holding, Timed
<1>8. FenceOK(f)'
  <2>1. ~In(f)' /\ ~Taken(f)' /\ ~HandlerWon(f)' /\ kind'[f] = kind[f]
    BY <1>5, <1>7, SameView DEF HandlerWon
  <2>2. ~Holding(f)' /\ ~TimeoutWon(f)'
    BY <1>6, <1>7 DEF Holding, TimeoutWon
  <2>3. Counted(f)'
    BY <1>3, <1>5, <1>6, <1>7, <2>1, <2>2, State DEF Counted
  <2>4. Signalled(f)'
    BY <1>3, <1>5, <1>6, <1>7, <2>1, <2>2, State DEF Signalled, Counted
  <2>5. Errors(f)'
    BY <1>3, <1>5, <1>6, <1>7, <2>1, State DEF Errors, Counted
  <2> QED BY <2>3, <2>4, <2>5 DEF FenceOK
<1> QED BY <1>3, <1>4, <1>5, <1>7, <1>8, WaiterStep DEF UserSteps

\* The counter has got there meanwhile, or the wait needs a fence.
LEMMA LookStep ==
  ASSUME FInv, NEW f \in Fence, Look(f)
  PROVE  FInv'
<1> DEFINE q == [step |-> "off", old |-> 0, live |-> 0]
<1>1. q \in Loads /\ q.step = "off"
  BY LoadFacts DEF Loads
<1>2. /\ load' = [load EXCEPT ![f] = q] /\ power /\ user[f] = "look"
      /\ UNCHANGED <<total, hw, min, reg, enabled, list, locked, isr, kind, power, work>>
  BY DEF Look, UserAt, Unloaded, counter, intr, pm
<1> HIDE DEF q
<1>3. /\ fence[f].refs = 0 /\ ~In(f) /\ ~Taken(f) /\ ~Holding(f) /\ work[f] = "idle"
      /\ ~fence[f].cb /\ ~fence[f].signaling /\ ~fence[f].signaled /\ ~fence[f].error
      /\ ~fence[f].late /\ fence[f].error = fence[f].late
  BY <1>2, State DEF Counted, Holding, Timed
<1>4. ~In(f)' /\ ~Taken(f)' /\ ~HandlerWon(f)' /\ kind'[f] = kind[f]
  BY <1>2, <1>3, SameView DEF HandlerWon
<1>5. CASE Expired(min, threshold(f))
  <2>1. OnFence(f, Freed, work[f], "done")
    BY <1>2, <1>5, State DEF Look, UserTo, OnFence
  <2>2. fence'[f] = Freed /\ work'[f] = "idle" /\ user'[f] = "done"
    BY <1>3, <2>1, OnFenceFacts, FreedFacts, State DEF FInv, UserSteps
  <2>3. FenceOK(f)'
    BY <1>4, <2>2, FreedOK
  <2> QED BY <1>1, <1>2, <1>3, <2>1, <2>3, WaiterStep, FreedFacts DEF UserSteps
<1>6. CASE ~Expired(min, threshold(f))
  <2> DEFINE r == [fence[f] EXCEPT !.refs = 1]
  <2>1. /\ r \in Fences /\ r.refs = 1 /\ r.cb = fence[f].cb
        /\ r.signaling = fence[f].signaling /\ r.signaled = fence[f].signaled
        /\ r.error = fence[f].error /\ r.late = fence[f].late
    <3>1. fence[f] \in Fences
      BY State
    <3> QED BY <3>1 DEF Fences
  <2>2. OnFence(f, r, work[f], "created")
    BY <1>2, <1>6, State DEF Look, UserTo, OnFence
  <2> HIDE DEF r
  <2>3. fence'[f] = r /\ work'[f] = "idle" /\ user'[f] = "created"
    BY <1>3, <2>1, <2>2, OnFenceFacts, State DEF FInv, UserSteps
  <2>4. Holding(f)' /\ ~TimeoutWon(f)'
    BY <2>3 DEF Holding, TimeoutWon
  <2>5. Counted(f)'
    BY <1>3, <1>4, <2>1, <2>3, <2>4 DEF Counted
  <2>6. Signalled(f)'
    BY <1>3, <1>4, <2>1, <2>3, <2>4 DEF Signalled
  <2>7. Errors(f)'
    BY <1>3, <1>4, <2>1, <2>3 DEF Errors
  <2>8. FenceOK(f)'
    BY <2>5, <2>6, <2>7 DEF FenceOK
  <2> QED BY <1>1, <1>2, <1>3, <2>1, <2>2, <2>8, WaiterStep DEF UserSteps
<1> QED BY <1>5, <1>6

-----------------------------------------------------------------------------
(* syncpt_thresh_isr() and host1x_intr_handle_interrupt()                  *)

\* What the step of the handler says of the lock, its fence and the power.
LEMMA HandlerFacts ==
  ASSUME FInv
  PROVE  /\ isr \in [step : IsrSteps, fence : Fence \cup {None}] /\ isr.step \in IsrSteps
         /\ isr.fence # None <=> Handling
         /\ Handling => isr.fence \in Fence
         /\ locked <=> isr.step = "walk" \/ Handling
         /\ isr.step # "off" => power
         /\ locked => load[None].step = "done"
         /\ enabled \in BOOLEAN /\ locked \in BOOLEAN /\ power \in BOOLEAN
<1>1. /\ isr \in [step : IsrSteps, fence : Fence \cup {None}]
      /\ enabled \in BOOLEAN /\ locked \in BOOLEAN /\ power \in BOOLEAN
  BY DEF FInv, Types
<1>2. isr.step \in IsrSteps /\ isr.fence \in Fence \cup {None}
  BY <1>1
<1> QED BY <1>1, <1>2 DEF FInv, Walking

\* A step of the handler without a fence in hand.
LEMMA HandlerStep ==
  ASSUME FInv, ~Handling, UNCHANGED <<total, hw, min, list, kind, fence, work, user, power>>,
         power, isr'.fence = None, isr' \in [step : IsrSteps, fence : Fence \cup {None}],
         isr'.step \in {"disable", "load", "walk"} \/
           (isr'.step = "off" /\ (list # <<>> => enabled' /\ reg' = threshold(list[1]))),
         locked' <=> isr'.step = "walk", locked' => load'[None].step = "done",
         reg' \in Numbers, enabled' \in BOOLEAN, locked' \in BOOLEAN,
         load' \in [Fence \cup {None} -> Loads],
         \A b \in Fence : load'[b] = load[b],
         load'[None] = load[None] \/ load'[None].step \in {"off", "min"}
  PROVE  FInv'
<1>1. isr.fence = None
  BY HandlerFacts
<1>2. Types'
  BY DEF FInv, Types
<1>3. Walking'
  <2>1. ~Handling'
    BY DEF Handling
  <2> QED BY <2>1 DEF FInv, Walking
<1>4. Clock'
  BY DEF FInv, Clock, Counter
<1>5. \A f \in Fence : FenceOK(f)'
  BY <1>1, FencesKept, LoadFacts DEF FInv, Types
<1>6. Order'
  <2>1. Sorted'
    BY DEF FInv, Order, Sorted
  <2>2. threshold(list[1])' = threshold(list[1])
    BY DEF threshold, Counter
  <2> QED BY <2>1, <2>2 DEF Order
<1> QED BY <1>2, <1>3, <1>4, <1>5, <1>6 DEF FInv

\* The interrupt comes.
LEMMA IsrStartStep ==
  ASSUME FInv, IsrStart
  PROVE  FInv'
<1>1. /\ isr' = [isr EXCEPT !.step = "disable"] /\ isr.step = "off" /\ power
      /\ UNCHANGED <<total, hw, min, reg, enabled, list, locked, load, kind, fence, work, user, power>>
  BY DEF IsrStart, IsrTo, At, counter, intr, pm
<1>2. ~Handling /\ isr.fence = None /\ ~locked
  BY <1>1, HandlerFacts DEF Handling
<1>3. /\ isr' \in [step : IsrSteps, fence : Fence \cup {None}]
      /\ isr'.fence = None /\ isr'.step = "disable"
  BY <1>1, <1>2, HandlerFacts DEF IsrSteps
<1>4. reg \in Numbers /\ load \in [Fence \cup {None} -> Loads]
  BY DEF FInv, Types
<1> QED BY <1>1, <1>2, <1>3, <1>4, HandlerFacts, HandlerStep

\* The handler disables it and loads the counter.
LEMMA IsrDisableStep ==
  ASSUME FInv, IsrDisable
  PROVE  FInv'
<1>1. /\ isr' = [isr EXCEPT !.step = "load"] /\ isr.step = "disable" /\ enabled' = FALSE
      /\ load' = [load EXCEPT ![None].step = "min"]
      /\ UNCHANGED <<total, hw, min, reg, list, locked, kind, fence, work, user, power>>
  BY DEF IsrDisable, IsrTo, At, StartLoad, counter, pm
<1>2. ~Handling /\ isr.fence = None /\ ~locked /\ power
  BY <1>1, HandlerFacts DEF Handling
<1>3. /\ isr' \in [step : IsrSteps, fence : Fence \cup {None}]
      /\ isr'.fence = None /\ isr'.step = "load"
  BY <1>1, <1>2, HandlerFacts DEF IsrSteps
<1>4. reg \in Numbers /\ load \in [Fence \cup {None} -> Loads] /\ None \notin Fence
  BY FenceAssumption DEF FInv, Types
<1>5. /\ load' \in [Fence \cup {None} -> Loads] /\ load'[None].step = "min"
      /\ \A b \in Fence : load'[b] = load[b]
  <2> DEFINE q == [load[None] EXCEPT !.step = "min"]
  <2>1. load[None] \in Loads
    BY <1>4
  <2>2. q \in Loads /\ q.step = "min"
    BY <2>1 DEF Loads
  <2>3. load' = [load EXCEPT ![None] = q]
    BY <1>1
  <2> HIDE DEF q, Loads
  <2> QED BY <1>4, <2>2, <2>3
<1> QED BY <1>1, <1>2, <1>3, <1>4, <1>5, HandlerFacts, HandlerStep

\* The handler takes the lock.
LEMMA IsrLockStep ==
  ASSUME FInv, IsrLock
  PROVE  FInv'
<1>1. /\ isr' = [isr EXCEPT !.step = "walk"] /\ isr.step = "load" /\ locked' = TRUE
      /\ load[None].step = "done"
      /\ UNCHANGED <<total, hw, min, reg, enabled, list, load, kind, fence, work, user, power>>
  BY DEF IsrLock, IsrTo, At, Loading, counter, intr, pm
<1>2. ~Handling /\ isr.fence = None /\ power
  BY <1>1, HandlerFacts DEF Handling
<1>3. /\ isr' \in [step : IsrSteps, fence : Fence \cup {None}]
      /\ isr'.fence = None /\ isr'.step = "walk"
  BY <1>1, <1>2, HandlerFacts DEF IsrSteps
<1>4. reg \in Numbers /\ load \in [Fence \cup {None} -> Loads]
  BY DEF FInv, Types
<1> QED BY <1>1, <1>2, <1>3, <1>4, HandlerFacts, HandlerStep

\* The handler is done, and the interrupt set for the first fence left.
LEMMA IsrDoneStep ==
  ASSUME FInv, IsrDone
  PROVE  FInv'
<1> DEFINE q == [step |-> "off", old |-> 0, live |-> 0]
<1>1. /\ isr' = [isr EXCEPT !.step = "off"] /\ isr.step = "walk" /\ locked' = FALSE
      /\ load' = [load EXCEPT ![None] = q] /\ UpdateHw(list)
      /\ UNCHANGED <<total, hw, min, list, kind, fence, work, user, power>>
  BY DEF IsrDone, IsrTo, At, Unloaded, counter, pm
<1>2. ~Handling /\ isr.fence = None /\ power
  BY <1>1, HandlerFacts DEF Handling
<1>3. /\ isr' \in [step : IsrSteps, fence : Fence \cup {None}]
      /\ isr'.fence = None /\ isr'.step = "off"
  BY <1>1, <1>2, HandlerFacts DEF IsrSteps
<1>4. load \in [Fence \cup {None} -> Loads] /\ None \notin Fence /\ reg \in Numbers
  BY FenceAssumption DEF FInv, Types
<1>5. /\ load' \in [Fence \cup {None} -> Loads] /\ load'[None].step = "off"
      /\ \A b \in Fence : load'[b] = load[b]
  <2>1. q \in Loads /\ q.step = "off"
    BY LoadFacts DEF Loads
  <2> HIDE DEF q, Loads
  <2> QED BY <1>1, <1>4, <2>1
<1>6. list # <<>> => /\ enabled' /\ reg' = threshold(list[1])
                     /\ threshold(list[1]) \in Numbers
  <2>1. list # <<>> => Head(list) = list[1] /\ 1 \in 1..Len(list)
    BY TailFacts, ListFacts
  <2>2. list # <<>> => threshold(list[1]) \in Numbers
    BY <2>1, ListFacts, CounterValue DEF threshold
  <2> QED BY <1>1, <2>1, <2>2 DEF UpdateHw
<1>7. reg' \in Numbers /\ enabled' \in BOOLEAN
  BY <1>1, <1>4, <1>6 DEF UpdateHw
<1> QED BY <1>1, <1>2, <1>3, <1>5, <1>6, <1>7, HandlerFacts, HandlerStep

\* A step of the handler on the fence it has taken, after which it still has it or
\* walks on.
LEMMA TakenStep ==
  ASSUME FInv, NEW f \in Fence, Taken(f), NEW r \in Fences, NEW w \in WorkSteps, NEW u \in UserSteps,
         OnFence(f, r, w, u),
         UNCHANGED <<total, hw, min, reg, enabled, list, locked, load, kind, power>>,
         isr' \in [step : IsrSteps, fence : Fence \cup {None}],
         \/ isr'.fence = f /\ isr'.step \in {"xchg", "cancel", "signal", "put"}
         \/ isr'.fence = None /\ isr'.step = "walk",
         FenceOK(f)'
  PROVE  FInv'
<1>0. f # None /\ Handling /\ ~In(f) /\ locked /\ power /\ isr.step # "off"
  BY FenceAssumption, HandlerFacts, State DEF Taken, Counted, Handling
<1>1. /\ fence' \in [Fence -> Fences] /\ work' \in [Fence -> WorkSteps]
      /\ user' \in [Fence -> UserSteps]
      /\ \A g \in Fence : g # f =>
           fence'[g] = fence[g] /\ work'[g] = work[g] /\ user'[g] = user[g]
  BY OnFenceFacts DEF FInv
<1>2. Types'
  BY <1>1 DEF FInv, Types, WorkSteps, UserSteps
<1>3. Walking'
  BY <1>0 DEF FInv, Walking, Handling
<1>4. Clock'
  BY DEF FInv, Clock, Counter
<1>5. Order'
  <2>1. \A g \in Fence : In(g) => fence'[g].goal = fence[g].goal
    BY <1>0, <1>1
  <2>2. isr'.step # "off"
    OBVIOUS
  <2> QED BY <2>1, <2>2, OrderKept DEF FInv
<1>6. ASSUME NEW g \in Fence, g # f PROVE FenceOK(g)'
  <2>1. total' \in Nat /\ total' >= total
    BY DEF FInv, Types
  <2>2. (In(g)' <=> In(g)) /\ ~Taken(g)' /\ ~Taken(g)
    BY <1>6, FenceAssumption DEF In, Taken, Elems
  <2> QED BY <1>1, <1>6, <2>1, <2>2, Untouched DEF FInv
<1> QED BY <1>2, <1>3, <1>4, <1>5, <1>6 DEF FInv

\* host1x_intr_handle_interrupt() takes the first fence if its threshold is reached.
LEMMA IsrTakeStep ==
  ASSUME FInv, IsrTake
  PROVE  FInv'
<1>0. PICK f \in Fence : f = Head(list)
  BY ListFacts, TailFacts DEF IsrTake, Due
<1>1. /\ isr.step = "walk" /\ list # <<>> /\ Expired(load[None].live, threshold(f))
      /\ list' = Tail(list) /\ isr' = [step |-> "xchg", fence |-> f]
      /\ UNCHANGED <<total, hw, min, reg, enabled, locked, load, kind, fence, work, user, power>>
  BY <1>0 DEF IsrTake, Due, At, counter, intr, pm
<1>2. /\ f \in Fence /\ In(f) /\ list' \in Seq(Fence) /\ Distinct(list')
      /\ Elems(list') = Elems(list) \ {f} /\ Len(list') = Len(list) - 1 /\ Len(list) \in Nat \ {0}
      /\ \A i \in 1..(Len(list) - 1) : list'[i] = list[i + 1]
  BY <1>0, <1>1, ListFacts, TailFacts DEF In
<1>3. /\ ~Handling /\ isr.fence = None /\ power /\ locked /\ load[None].step = "done"
      /\ None \notin Fence
  BY <1>1, HandlerFacts, FenceAssumption DEF Handling
<1>4. /\ isr'.step = "xchg" /\ isr'.fence = f
      /\ isr' \in [step : IsrSteps, fence : Fence \cup {None}]
  BY <1>1, <1>2 DEF IsrSteps
<1>5. fence[f].goal <= total
  <2>1. PICK l \in 0..total : load[None].live = Counter(l)
    BY <1>3 DEF FInv, Clock
  <2>2. l \in Goals /\ l <= total /\ fence[f].goal \in Goals /\ l \in Nat
    BY <1>2, State, CounterRange DEF Goals
  <2>3. l >= fence[f].goal
    BY <1>1, <2>1, <2>2, Compare DEF threshold
  <2> QED BY <1>2, <2>2, <2>3, State
<1>6. Types'
  BY <1>1, <1>2, <1>4 DEF FInv, Types
<1>7. Walking'
  BY <1>1, <1>2, <1>3, <1>4 DEF FInv, Walking, Handling
<1>8. Clock'
  BY <1>1 DEF FInv, Clock, Counter
<1>9. Order'
  <2>1. \A i, j \in 1..Len(list') : i < j => fence[list'[i]].goal <= fence[list'[j]].goal
    <3>1. 1 \in 1..Len(list)
      BY <1>2
    <3>2. \A i \in 1..Len(list') : list'[i] = IF i < 1 THEN list[i] ELSE list[i + 1]
      BY <1>2
    <3> QED BY <1>2, <3>1, <3>2, SortedRest
  <2>2. Sorted'
    BY <1>1, <2>1 DEF Sorted
  <2> QED BY <1>1, <1>3, <1>4, <2>2 DEF Order
<1>10. FenceOK(f)'
  <2>1. ~Taken(f) /\ ~HandlerWon(f)
    BY <1>2, <1>3 DEF Taken, HandlerWon
  <2>2. ~In(f)' /\ Taken(f)' /\ ~HandlerWon(f)'
    BY <1>2, <1>4 DEF In, Taken, HandlerWon
  <2>3. /\ (Timed(f)' <=> Timed(f)) /\ (Holding(f)' <=> Holding(f)) /\ (TimeoutWon(f)' <=> TimeoutWon(f))
        /\ fence'[f] = fence[f] /\ user'[f] = user[f] /\ work'[f] = work[f] /\ kind'[f] = kind[f]
        /\ total' = total
    BY <1>1 DEF Timed, Holding, TimeoutWon
  <2>4. Counted(f)'
    BY <1>2, <1>5, <2>1, <2>2, <2>3, State DEF Counted
  <2>5. Signalled(f)'
    BY <1>2, <1>4, <2>1, <2>2, <2>3, State DEF Signalled
  <2>6. Errors(f)'
    BY <1>2, <2>1, <2>2, <2>3, State DEF Errors
  <2> QED BY <2>4, <2>5, <2>6 DEF FenceOK
<1>11. ASSUME NEW g \in Fence, g # f PROVE FenceOK(g)'
  <2>1. total' \in Nat /\ total' >= total
    BY <1>1 DEF FInv, Types
  <2>2. (In(g)' <=> In(g)) /\ ~Taken(g)' /\ ~Taken(g)
    BY <1>2, <1>3, <1>4, <1>11 DEF In, Taken
  <2> QED BY <1>1, <1>11, <2>1, <2>2, Untouched DEF FInv
<1> QED BY <1>2, <1>6, <1>7, <1>8, <1>9, <1>10, <1>11 DEF FInv

\* What is common to the steps on the fence that the handler has taken.
LEMMA TakenFacts ==
  ASSUME FInv, Handling
  PROVE  /\ isr.fence \in Fence /\ Taken(isr.fence) /\ ~In(isr.fence) /\ isr.fence # None
         /\ fence[isr.fence].refs > 0 /\ fence[isr.fence].goal <= total
         /\ user[isr.fence] \notin {"off", "look", "created"}
         /\ work[isr.fence] # "idle" /\ ~Timed(isr.fence) => Holding(isr.fence)
<1>1. isr.fence \in Fence /\ Taken(isr.fence) /\ isr.fence # None
  BY HandlerFacts, FenceAssumption DEF Taken
<1> QED BY <1>1, State DEF Counted, Holding

\* The atomic_xchg() of the handler.
LEMMA IsrXchgStep ==
  ASSUME FInv, IsrXchg
  PROVE  FInv'
<1>1. isr.step = "xchg" /\ Handling
  BY DEF IsrXchg, At, Handling
<1>0. PICK f \in Fence : f = isr.fence
  BY <1>1, TakenFacts
<1> DEFINE r == [fence[f] EXCEPT !.signaling = TRUE]
           t == IF fence[f].signaling THEN "put" ELSE "cancel"
<1>2. /\ f \in Fence /\ Taken(f) /\ ~In(f) /\ fence[f].refs > 0 /\ fence[f].goal <= total
      /\ user[f] \notin {"off", "look", "created"}
  BY <1>0, <1>1, TakenFacts
<1>3. /\ r \in Fences /\ r.signaling /\ r.refs = fence[f].refs /\ r.goal = fence[f].goal
      /\ r.cb = fence[f].cb /\ r.signaled = fence[f].signaled
      /\ r.error = fence[f].error /\ r.late = fence[f].late
  <2>1. fence[f] \in Fences
    BY <1>2, State
  <2> QED BY <2>1 DEF Fences
<1>4. isr' = [isr EXCEPT !.step = t] /\ fence' = [fence EXCEPT ![f] = r]
  BY <1>0 DEF IsrXchg, IsrTo
<1>5. /\ isr' \in [step : IsrSteps, fence : Fence \cup {None}]
      /\ isr'.fence = f /\ isr'.step = t /\ t \in {"put", "cancel"}
  BY <1>0, <1>4, HandlerFacts DEF IsrSteps
<1>6. UNCHANGED <<total, hw, min, reg, enabled, list, locked, load, kind, work, user, power>>
  BY DEF IsrXchg, counter, intr, pm
<1> HIDE DEF r
<1>7. OnFence(f, r, work[f], user[f])
  BY <1>2, <1>4, <1>6, State DEF OnFence
<1>8. fence'[f] = r /\ work'[f] = work[f] /\ user'[f] = user[f]
  BY <1>2, <1>3, <1>7, OnFenceFacts, State DEF FInv
<1>9. FenceOK(f)'
  <2>1. ~In(f)' /\ Taken(f)' /\ ~HandlerWon(f) /\ (HandlerWon(f)' <=> t = "cancel")
    BY <1>1, <1>2, <1>5, <1>6 DEF In, Taken, HandlerWon, Elems
  <2>2. /\ (Timed(f)' <=> Timed(f)) /\ (Holding(f)' <=> Holding(f)) /\ (TimeoutWon(f)' <=> TimeoutWon(f))
        /\ kind'[f] = kind[f] /\ total' = total
    BY <1>6 DEF Timed, Holding, TimeoutWon
  <2>3. Counted(f)'
    BY <1>2, <1>3, <1>8, <2>1, <2>2, State DEF Counted
  <2>4. Signalled(f)'
    <3>1. fence[f].signaling => t = "put" /\ (fence[f].signaled \/ TimeoutWon(f))
      BY <1>2, <2>1, State DEF Signalled
    <3>2. ~fence[f].signaling => t = "cancel" /\ work[f] \in {"idle", "pending", "xchg"}
      BY <1>2, State DEF Signalled, TimeoutWon, WorkSteps
    <3>3. work[f] = "put" => fence[f].signaling /\ Timed(f)
      BY <1>2, State DEF Signalled
    <3> QED BY <1>2, <1>3, <1>5, <1>8, <2>1, <2>2, <3>1, <3>2, <3>3 DEF Signalled
  <2>5. Errors(f)'
    BY <1>2, <1>3, <1>8, <2>1, <2>2, State DEF Errors
  <2> QED BY <2>3, <2>4, <2>5 DEF FenceOK
<1> QED BY <1>2, <1>3, <1>5, <1>6, <1>7, <1>9, TakenStep, State

\* The handler takes the reference of a timeout that has not begun.
LEMMA IsrCancelStep ==
  ASSUME FInv, IsrCancel
  PROVE  FInv'
<1>1. isr.step = "cancel" /\ Handling
  BY DEF IsrCancel, At, Handling
<1>2. PICK f \in Fence : f = isr.fence
  BY <1>1, TakenFacts
<1>3. /\ Taken(f) /\ ~In(f) /\ HandlerWon(f) /\ fence[f].refs > 0 /\ fence[f].goal <= total
      /\ user[f] \notin {"off", "look", "created"}
  BY <1>1, <1>2, TakenFacts DEF HandlerWon
<1>4. isr' = [isr EXCEPT !.step = "signal"]
  BY DEF IsrCancel, IsrTo
<1>5. /\ isr' \in [step : IsrSteps, fence : Fence \cup {None}]
      /\ isr'.fence = f /\ isr'.step = "signal"
  BY <1>2, <1>4, HandlerFacts DEF IsrSteps
<1>6. UNCHANGED <<total, hw, min, reg, enabled, list, locked, load, kind, user, power>>
  BY DEF IsrCancel, counter, intr, pm
<1>7. /\ ~In(f)' /\ Taken(f)' /\ HandlerWon(f)' /\ (Timed(f)' <=> Timed(f))
      /\ kind'[f] = kind[f] /\ total' = total
  BY <1>3, <1>5, <1>6 DEF In, Taken, HandlerWon, Elems, Timed
<1>8. /\ fence[f].signaling /\ work[f] \in {"idle", "pending", "xchg"} /\ ~TimeoutWon(f)
  BY <1>3, State DEF Signalled, TimeoutWon
<1>9. CASE Timed(f) /\ work[f] = "pending"
  <2> DEFINE r == Less(fence[f])
  <2>1. fence[f].refs # 1
    BY <1>3, <1>9, State DEF Counted
  <2>2. /\ r \in Fences /\ r.refs = fence[f].refs - 1 /\ r.refs > 0
        /\ r.goal = fence[f].goal /\ r.cb = fence[f].cb
        /\ r.signaling = fence[f].signaling /\ r.signaled = fence[f].signaled
        /\ r.error = fence[f].error /\ r.late = fence[f].late
    BY <1>3, <2>1, LessFacts, State
  <2>3. OnFence(f, r, "idle", user[f])
    BY <1>2, <1>6, <1>9, State DEF IsrCancel, WorkAt, WorkTo, Put, OnFence
  <2> HIDE DEF r
  <2>4. fence'[f] = r /\ work'[f] = "idle" /\ user'[f] = user[f]
    BY <2>2, <2>3, OnFenceFacts, State DEF FInv, WorkSteps
  <2>5. (Holding(f)' <=> Holding(f)) /\ ~TimeoutWon(f)'
    BY <2>4 DEF Holding, TimeoutWon
  <2>6. Counted(f)'
    <3>1. fence[f].refs - 1 = (IF Holding(f) THEN 1 ELSE 0) + 1
      BY <1>3, <1>9, State DEF Counted
    <3> QED BY <1>3, <1>7, <1>9, <2>2, <2>4, <2>5, <3>1, State DEF Counted
  <2>7. Signalled(f)'
    BY <1>3, <1>5, <1>7, <1>8, <2>2, <2>4, <2>5, State DEF Signalled
  <2>8. Errors(f)'
    BY <1>3, <1>7, <1>8, <2>2, <2>4, State DEF Errors
  <2>9. FenceOK(f)'
    BY <2>6, <2>7, <2>8 DEF FenceOK
  <2> QED BY <1>3, <1>5, <1>6, <2>2, <2>3, <2>9, TakenStep, State DEF WorkSteps
<1>10. CASE ~(Timed(f) /\ work[f] = "pending")
  <2>1. fence' = fence /\ work' = work
    BY <1>2, <1>10 DEF IsrCancel, WorkAt
  <2>2. OnFence(f, fence[f], work[f], user[f])
    BY <1>6, <2>1, State DEF OnFence
  <2>3. /\ fence'[f] = fence[f] /\ work'[f] = work[f] /\ user'[f] = user[f]
        /\ (Holding(f)' <=> Holding(f)) /\ ~TimeoutWon(f)'
    BY <1>6, <1>8, <2>1 DEF Holding, TimeoutWon
  <2>4. Counted(f)'
    BY <1>3, <1>7, <2>3, State DEF Counted
  <2>5. Signalled(f)'
    BY <1>3, <1>5, <1>7, <1>8, <2>3, State DEF Signalled
  <2>6. Errors(f)'
    BY <1>3, <1>7, <1>8, <2>3, State DEF Errors
  <2>7. FenceOK(f)'
    BY <2>4, <2>5, <2>6 DEF FenceOK
  <2> QED BY <1>3, <1>5, <1>6, <2>2, <2>7, TakenStep, State
<1> QED BY <1>9, <1>10

\* The handler signals the fence.
LEMMA IsrSignalStep ==
  ASSUME FInv, IsrSignal
  PROVE  FInv'
<1>1. isr.step = "signal" /\ Handling
  BY DEF IsrSignal, At, Handling
<1>2. PICK f \in Fence : f = isr.fence
  BY <1>1, TakenFacts
<1>3. /\ Taken(f) /\ ~In(f) /\ HandlerWon(f) /\ fence[f].refs > 0 /\ fence[f].goal <= total
      /\ user[f] \notin {"off", "look", "created"} /\ Signal(f)
  BY <1>1, <1>2, TakenFacts DEF HandlerWon, IsrSignal
<1>4. isr' = [isr EXCEPT !.step = "put"]
  BY DEF IsrSignal, IsrTo
<1>5. /\ isr' \in [step : IsrSteps, fence : Fence \cup {None}]
      /\ isr'.fence = f /\ isr'.step = "put"
  BY <1>2, <1>4, HandlerFacts DEF IsrSteps
<1>6. UNCHANGED <<total, hw, min, reg, enabled, list, locked, load, kind, work, power>>
  BY DEF IsrSignal, counter, intr, pm
<1>7. /\ ~In(f)' /\ Taken(f)' /\ ~HandlerWon(f)' /\ (Timed(f)' <=> Timed(f))
      /\ kind'[f] = kind[f] /\ total' = total /\ (TimeoutWon(f)' <=> TimeoutWon(f))
  BY <1>3, <1>5, <1>6 DEF In, Taken, HandlerWon, Elems, Timed, TimeoutWon
<1>8. /\ fence[f].signaling /\ work[f] \in {"idle", "pending", "xchg"} /\ ~TimeoutWon(f)
  BY <1>3, State DEF Signalled, TimeoutWon
<1>9. CallsBack(f) => Timed(f) /\ Holding(f) /\ fence[f].refs # 1
  <2>1. CallsBack(f) => Timed(f) /\ Holding(f)
    BY State DEF CallsBack, Timed, Counted, Holding
  <2> QED BY <1>3, <2>1, State DEF Counted
<1>10. PICK r \in Fences : \E u \in UserSteps :
        /\ fence' = [fence EXCEPT ![f] = r] /\ user' = [user EXCEPT ![f] = u]
        /\ CallsBack(f) => /\ user[f] = "armed" /\ u = "done" /\ kind[f] = "notifier"
                           /\ r.refs = fence[f].refs - 1
        /\ ~CallsBack(f) => u = user[f] /\ r.refs = fence[f].refs
        /\ r.signaled /\ ~r.cb /\ r.goal = fence[f].goal /\ r.error = fence[f].error
        /\ r.signaling = fence[f].signaling
        /\ r.late = IF fence[f].signaled THEN fence[f].late ELSE fence[f].error
  BY <1>3, <1>9, SignalFacts
<1>11. PICK u \in UserSteps :
        /\ fence' = [fence EXCEPT ![f] = r] /\ user' = [user EXCEPT ![f] = u]
        /\ CallsBack(f) => /\ user[f] = "armed" /\ u = "done" /\ kind[f] = "notifier"
                           /\ r.refs = fence[f].refs - 1
        /\ ~CallsBack(f) => u = user[f] /\ r.refs = fence[f].refs
  BY <1>10
<1>12. OnFence(f, r, work[f], u)
  BY <1>6, <1>11, State DEF OnFence
<1>13. fence'[f] = r /\ work'[f] = work[f] /\ user'[f] = u
  BY <1>12, OnFenceFacts, State DEF FInv
<1>14. FenceOK(f)'
  <2>1. /\ Holding(f)' <=> Holding(f) /\ ~CallsBack(f)
        /\ u \notin {"off", "look", "created"}
    BY <1>3, <1>11, <1>13 DEF Holding
  <2>2. Counted(f)'
    <3>1. r.refs = (IF Holding(f)' THEN 1 ELSE 0) + 1
                   + (IF Timed(f) /\ work[f] # "idle" THEN 1 ELSE 0)
      <4>1. CASE CallsBack(f)
        BY <1>3, <1>9, <1>11, <2>1, <4>1, State DEF Counted
      <4>2. CASE ~CallsBack(f)
        BY <1>3, <1>11, <2>1, <4>2, State DEF Counted
      <4> QED BY <4>1, <4>2
    <3>2. ~Timed(f) /\ work[f] # "idle" => u = "cancel"
      BY <1>9, <1>11, State DEF Counted
    <3>3. r.refs > 0
      BY <1>3, <1>9, <1>11, State
    <3> QED BY <1>3, <1>10, <1>13, <1>7, <2>1, <3>1, <3>2, <3>3 DEF Counted
  <2>3. Signalled(f)'
    BY <1>7, <1>8, <1>10, <1>13 DEF Signalled
  <2>4. Errors(f)'
    <3>1. kind[f] # "polled" /\ fence[f].signaled => fence[f].error = fence[f].late
      BY State DEF Errors
    <3> QED BY <1>7, <1>8, <1>10, <1>13, <3>1 DEF Errors
  <2> QED BY <2>2, <2>3, <2>4 DEF FenceOK
<1> QED BY <1>3, <1>5, <1>6, <1>10, <1>12, <1>14, TakenStep, State

\* The handler puts the list's reference and walks on.
LEMMA IsrPutStep ==
  ASSUME FInv, IsrPut
  PROVE  FInv'
<1>1. isr.step = "put" /\ Handling
  BY DEF IsrPut, At, Handling
<1>2. PICK f \in Fence : f = isr.fence
  BY <1>1, TakenFacts
<1>3. /\ Taken(f) /\ ~In(f) /\ ~HandlerWon(f) /\ fence[f].refs > 0
      /\ user[f] \notin {"off", "look", "created"}
      /\ work[f] # "idle" /\ ~Timed(f) => Holding(f)
  BY <1>1, <1>2, TakenFacts DEF HandlerWon
<1>4. /\ isr' \in [step : IsrSteps, fence : Fence \cup {None}]
      /\ isr'.fence = None /\ isr'.step = "walk"
  BY DEF IsrPut, IsrSteps
<1>5. UNCHANGED <<total, hw, min, reg, enabled, list, locked, load, kind, work, user, power>>
  BY DEF IsrPut, counter, intr, pm
<1>6. /\ ~In(f)' /\ ~Taken(f)' /\ ~HandlerWon(f)' /\ (Timed(f)' <=> Timed(f))
      /\ kind'[f] = kind[f] /\ total' = total /\ (TimeoutWon(f)' <=> TimeoutWon(f))
      /\ (Holding(f)' <=> Holding(f)) /\ work'[f] = work[f] /\ user'[f] = user[f]
  BY <1>3, <1>4, <1>5, FenceAssumption
     DEF In, Taken, HandlerWon, Elems, Timed, TimeoutWon, Holding
<1> DEFINE r == Less(fence[f])
<1>7. /\ r \in Fences /\ r.refs = fence[f].refs - 1
      /\ fence[f].refs = 1 => r = Freed
      /\ fence[f].refs # 1 => /\ r.goal = fence[f].goal /\ r.cb = fence[f].cb
                              /\ r.signaling = fence[f].signaling /\ r.signaled = fence[f].signaled
                              /\ r.error = fence[f].error /\ r.late = fence[f].late
  BY <1>3, State, LessFacts
<1>8. OnFence(f, r, work[f], user[f])
  BY <1>2, <1>5, State DEF IsrPut, Put, OnFence
<1> HIDE DEF r
<1>9. fence'[f] = r
  BY <1>7, <1>8, OnFenceFacts, State DEF FInv
<1>10. FenceOK(f)'
  <2>1. CASE fence[f].refs = 1
    <3>1. ~Holding(f) /\ work[f] = "idle"
      BY <1>3, <2>1, State DEF Counted
    <3>2. user[f] = "done"
      BY <1>3, <3>1, State DEF Holding, UserSteps
    <3> QED BY <1>6, <1>7, <1>9, <2>1, <3>1, <3>2, FreedOK
  <2>2. CASE fence[f].refs # 1
    <3>1. Counted(f)'
      <4>1. fence[f].refs - 1 = (IF Holding(f) THEN 1 ELSE 0)
                                + (IF Timed(f) /\ work[f] # "idle" THEN 1 ELSE 0)
        BY <1>3, State DEF Counted
      <4> QED BY <1>3, <1>6, <1>7, <1>9, <2>2, <4>1, State DEF Counted
    <3>2. Signalled(f)'
      BY <1>1, <1>3, <1>6, <1>7, <1>9, <2>2, State DEF Signalled
    <3>3. Errors(f)'
      BY <1>3, <1>6, <1>7, <1>9, <2>2, State DEF Errors
    <3> QED BY <3>1, <3>2, <3>3 DEF FenceOK
  <2> QED BY <2>1, <2>2
<1> QED BY <1>3, <1>4, <1>5, <1>7, <1>8, <1>10, TakenStep, State

-----------------------------------------------------------------------------
(* The counter, and the power.                                             *)

\* An increment makes no threshold unreached and no earlier value a later one.
LEMMA IncrementStep ==
  ASSUME FInv, Increment
  PROVE  FInv'
<1>1. /\ total' = total + 1 /\ total < MaxIncr /\ hw' = (hw + 1) % CounterMod /\ power
      /\ UNCHANGED <<min, reg, enabled, list, locked, isr, load, kind, fence, work, user, power>>
  BY DEF Increment, intr, pm
<1>2. total \in 0..MaxIncr /\ total \in Nat /\ total + 1 \in 0..MaxIncr
  BY <1>1, CounterRange DEF FInv, Types
<1>3. hw' = Counter(total + 1) /\ hw' \in Numbers
  BY <1>1, <1>2, Successor, CounterValue DEF FInv, Clock
<1>4. Types'
  BY <1>1, <1>2, <1>3 DEF FInv, Types
<1>5. Walking'
  BY <1>1 DEF FInv, Walking, Handling
<1>6. Clock'
  <2>1. 0..total \subseteq 0..(total + 1) /\ \A o \in 0..total : o..total \subseteq o..(total + 1)
    BY <1>2
  <2>2. \E m \in 0..total' : min' = Counter(m)
    BY <1>1, <2>1 DEF FInv, Clock
  <2>3. ASSUME NEW a \in Fence \cup {None}
        PROVE  /\ load'[a].step = "hw" => \E o \in 0..total' : load'[a].old = Counter(o)
               /\ load'[a].step = "swap" =>
                    \E o \in 0..total' : \E l \in o..total' : /\ load'[a].old = Counter(o)
                                                             /\ load'[a].live = Counter(l)
               /\ load'[a].step = "done" => \E l \in 0..total' : load'[a].live = Counter(l)
    <3>1. load'[a].step = "hw" => \E o \in 0..total' : load'[a].old = Counter(o)
      BY <1>1, <2>1 DEF FInv, Clock
    <3>2. load'[a].step = "done" => \E l \in 0..total' : load'[a].live = Counter(l)
      BY <1>1, <2>1 DEF FInv, Clock
    <3>3. ASSUME load'[a].step = "swap"
          PROVE  \E o \in 0..total' : \E l \in o..total' : /\ load'[a].old = Counter(o)
                                                           /\ load'[a].live = Counter(l)
      <4>1. PICK o \in 0..total : \E l \in o..total : load[a].old = Counter(o) /\ load[a].live = Counter(l)
        BY <1>1, <3>3 DEF FInv, Clock
      <4>2. PICK l \in o..total : load[a].old = Counter(o) /\ load[a].live = Counter(l)
        BY <4>1
      <4>3. o \in 0..total' /\ l \in o..total'
        BY <1>1, <1>2, <2>1
      <4> QED BY <1>1, <4>2, <4>3
    <3> QED BY <3>1, <3>2, <3>3
  <2> QED BY <1>1, <1>3, <2>2, <2>3 DEF Clock, Counter
<1>7. \A f \in Fence : FenceOK(f)'
  BY <1>1, <1>2, FencesKept
<1>8. Order'
  BY <1>1, OrderKept DEF FInv
<1> QED BY <1>4, <1>5, <1>6, <1>7, <1>8 DEF FInv

\* host1x_runtime_suspend() saves the counter.
LEMMA SuspendStep ==
  ASSUME FInv, SystemSleeps
  PROVE  FInv' /\ Diff(min', min) < Half
<1>1. /\ power /\ isr.step = "off" /\ (HotSuspend \/ list = <<>>)
      /\ \A a \in Fence \cup {None} : load[a].step = "off"
      /\ power' \in BOOLEAN /\ enabled' = FALSE /\ min' = hw
      /\ hw' = IF power' THEN hw ELSE 0
      /\ UNCHANGED <<total, reg, list, locked, isr, load, kind, fence, work, user>>
  BY DEF SystemSleeps, Suspend, At, Loading, Saved
<1>2. hw = Counter(total) /\ total \in 0..total /\ hw \in Numbers /\ 0 \in Numbers
      /\ total \in Nat /\ total \in Goals
  BY <1>1, LoadFacts, CounterRange DEF FInv, Clock, Types, Goals
<1>3. Types'
  BY <1>1, <1>2 DEF FInv, Types
<1>4. Walking'
  BY <1>1 DEF FInv, Walking, Handling
<1>5. Clock'
  <2>1. min' = Counter(total) /\ total' = total /\ (power' => hw' = Counter(total))
    BY <1>1, <1>2
  <2>2. \E m \in 0..total' : min' = Counter(m)
    BY <1>2, <2>1
  <2>3. \A a \in Fence \cup {None} : load'[a].step = "off"
    BY <1>1
  <2> QED BY <2>1, <2>2, <2>3 DEF Clock, Counter
<1>6. \A f \in Fence : FenceOK(f)'
  BY <1>1, <1>2, FencesKept
<1>7. Order'
  BY <1>1 DEF FInv, Order, Sorted
<1>8. Diff(min', min) < Half
  <2>1. PICK m \in 0..total : min = Counter(m)
    BY DEF FInv, Clock
  <2>2. m \in Goals /\ total >= m
    BY <1>2, CounterRange DEF Goals, FInv, Types
  <2> QED BY <1>1, <1>2, <2>1, <2>2, Compare
<1> QED BY <1>3, <1>4, <1>5, <1>6, <1>7, <1>8 DEF FInv

\* host1x_runtime_resume() restores it.
LEMMA ResumeStep ==
  ASSUME FInv, Resume
  PROVE  FInv'
<1>1. /\ ~power /\ power' = TRUE /\ enabled' = FALSE /\ hw' = min
      /\ UNCHANGED <<total, min, reg, list, locked, isr, load, kind, fence, work, user>>
  BY DEF Resume
<1>2. /\ min = Counter(total) /\ min \in Numbers /\ total \in Nat /\ (HotSuspend \/ list = <<>>)
  BY <1>1, LoadFacts DEF FInv, Clock, Order
<1>3. Types'
  BY <1>1, <1>2 DEF FInv, Types
<1>4. Walking'
  BY <1>1 DEF FInv, Walking, Handling
<1>5. Clock'
  BY <1>1, <1>2 DEF FInv, Clock, Counter
<1>6. \A f \in Fence : FenceOK(f)'
  BY <1>1, <1>2, FencesKept
<1>7. Order'
  BY <1>1, <1>2 DEF FInv, Order, Sorted
<1> QED BY <1>3, <1>4, <1>5, <1>6, <1>7 DEF FInv

\* A step that changes nothing of Fence.
LEMMA StutterStep ==
  ASSUME FInv, UNCHANGED vars
  PROVE  FInv'
<1>1. UNCHANGED <<total, hw, min, reg, enabled, list, locked, isr, load, kind, fence, work, user, power>>
  BY DEF vars, counter, intr, pm
<1>2. Types'
  BY <1>1 DEF FInv, Types
<1>3. Walking'
  BY <1>1 DEF FInv, Walking, Handling
<1>4. Clock'
  BY <1>1 DEF FInv, Clock, Counter
<1>5. \A f \in Fence : FenceOK(f)'
  BY <1>1, LoadFacts, FencesKept
<1>6. Order'
  BY <1>1, OrderKept DEF FInv
<1> QED BY <1>2, <1>3, <1>4, <1>5, <1>6 DEF FInv

\* Every step of Next keeps the invariant.
LEMMA NextStep ==
  ASSUME FInv, Next
  PROVE  FInv'
<1>1. CASE \E f \in Fence : User(f)
  <2>1. PICK f \in Fence : User(f)
    BY <1>1
  <2>2. ASSUME Load(f) PROVE FInv'
    BY <2>2, LoadMinStep, LoadHwStep, LoadSwapStep DEF Load
  <2>3. ASSUME CreateTimed(f) PROVE FInv'
    <3>1. PICK n \in 1..Ahead : Create(f, total + n)
      BY <2>3 DEF CreateTimed
    <3>2. total + n \in Goals
      BY State, CounterRange DEF Goals
    <3> QED BY <3>1, <3>2, CreateStep
  <2>4. ASSUME Woken(f) \/ Interrupted(f) PROVE FInv'
    BY <2>4, WaitReturnsStep DEF Woken, Interrupted
  <2> QED BY <2>1, <2>2, <2>3, <2>4, BeginWaitStep, LookStep, LeaveStep, CancelledStep, ArmStep,
             IsSignaledStep, CancelStep DEF User, Proceed
<1>2. CASE \E f \in Fence : Timeout(f)
  BY <1>2, WorkStartsStep, TimeoutXchgStep, TimeoutRemoveStep, TimeoutErrorStep,
     TimeoutSignalStep, TimeoutPutStep DEF Timeout
<1>3. CASE Isr
  <2>1. ASSUME Load(None) PROVE FInv'
    BY <2>1, LoadMinStep, LoadHwStep, LoadSwapStep DEF Load
  <2> QED BY <1>3, <2>1, IsrStartStep, IsrDisableStep, IsrLockStep, IsrTakeStep, IsrXchgStep,
             IsrCancelStep, IsrSignalStep, IsrPutStep, IsrDoneStep DEF Isr
<1> QED BY <1>1, <1>2, <1>3, IncrementStep, SuspendStep, ResumeStep DEF Next

\* The initial states are among those of the invariant.
LEMMA InitOK ==
  ASSUME Init
  PROVE  FInv
<1>1. /\ total = 0 /\ hw = Counter(0) /\ min = Counter(0) /\ reg = Counter(0) /\ ~enabled
      /\ enabled = FALSE /\ locked = FALSE /\ power = TRUE /\ list = <<>>
      /\ isr = [step |-> "off", fence |-> None]
      /\ load = [a \in Fence \cup {None} |-> [step |-> "off", old |-> 0, live |-> 0]]
      /\ kind \in Scenarios /\ fence = [f \in Fence |-> Freed]
      /\ work = [f \in Fence |-> "idle"] /\ user = [f \in Fence |-> "off"]
  BY DEF Init
<1>2. 0 \in Goals /\ 0 \in Numbers /\ Counter(0) \in Numbers /\ 0 \in 0..MaxIncr
  BY CounterRange, CounterValue DEF Goals, Numbers
<1>3. Types
  <2>1. isr \in [step : IsrSteps, fence : Fence \cup {None}]
    BY <1>1 DEF IsrSteps
  <2>2. load \in [Fence \cup {None} -> Loads]
    BY <1>1, <1>2 DEF Loads
  <2>3. kind \in [Fence -> Kinds]
    BY <1>1, FenceAssumption
  <2>4. fence \in [Fence -> Fences]
    BY <1>1, FreedFacts
  <2>5. list \in Seq(Fence) /\ Distinct(list)
    BY <1>1, EmptyFacts
  <2> QED BY <1>1, <1>2, <2>1, <2>2, <2>3, <2>4, <2>5 DEF Types
<1>4. Walking
  BY <1>1 DEF Walking, Handling
<1>5. Clock
  BY <1>1 DEF Clock
<1>6. ASSUME NEW f \in Fence PROVE FenceOK(f)
  <2>1. fence[f] = Freed /\ work[f] = "idle" /\ user[f] = "off" /\ ~In(f) /\ ~Taken(f)
    BY <1>1, FenceAssumption, EmptyFacts DEF In, Taken
  <2>2. ~Holding(f) /\ ~HandlerWon(f) /\ ~TimeoutWon(f)
    BY <2>1 DEF Holding, HandlerWon, TimeoutWon
  <2>3. Counted(f)
    BY <2>1, <2>2, FreedFacts DEF Counted
  <2>4. Signalled(f)
    BY <2>1, <2>2, FreedFacts DEF Signalled
  <2>5. Errors(f)
    BY <2>1, <2>2, FreedFacts DEF Errors
  <2> QED BY <2>3, <2>4, <2>5 DEF FenceOK
<1>7. Order
  BY <1>1 DEF Order, Sorted
<1> QED BY <1>3, <1>4, <1>5, <1>6, <1>7 DEF FInv

-----------------------------------------------------------------------------
(* The doorbell.                                                           *)

\* A step of a user or of the work of one fence is about that fence.
LEMMA OneFence ==
  ASSUME FInv, NEW g \in Fence, User(g) \/ Timeout(g), NEW f \in Fence, f # g
  PROVE  fence'[f] = fence[f] /\ user'[f] = user[f]
<1>1. fence = [h \in Fence |-> fence[h]] /\ user = [h \in Fence |-> user[h]]
  BY DEF FInv, Types
<1>2. ASSUME Signal(g) PROVE fence'[f] = fence[f] /\ user'[f] = user[f]
  BY <1>1, <1>2 DEF Signal
<1>3. ASSUME Timeout(g) PROVE fence'[f] = fence[f] /\ user'[f] = user[f]
  <2>1. ASSUME TimeoutRemove(g) PROVE fence'[f] = fence[f] /\ user'[f] = user[f]
    BY <1>1, <2>1 DEF TimeoutRemove, Put
  <2>2. ASSUME TimeoutXchg(g) PROVE fence'[f] = fence[f] /\ user'[f] = user[f]
    BY <1>1, <2>2 DEF TimeoutXchg, Put
  <2>3. ASSUME WorkStarts(g) \/ TimeoutError(g) \/ TimeoutPut(g)
        PROVE  fence'[f] = fence[f] /\ user'[f] = user[f]
    BY <1>1, <2>3 DEF WorkStarts, TimeoutError, TimeoutPut, Put
  <2>4. ASSUME TimeoutSignal(g) PROVE fence'[f] = fence[f] /\ user'[f] = user[f]
    BY <1>2, <2>4 DEF TimeoutSignal
  <2> QED BY <1>3, <2>1, <2>2, <2>3, <2>4 DEF Timeout
<1>4. ASSUME User(g) PROVE fence'[f] = fence[f] /\ user'[f] = user[f]
  <2>1. ASSUME BeginWait(g) \/ CreateTimed(g) PROVE fence'[f] = fence[f] /\ user'[f] = user[f]
    BY <1>1, <2>1 DEF BeginWait, CreateTimed, Create, UserTo
  <2>2. ASSUME Look(g) PROVE fence'[f] = fence[f] /\ user'[f] = user[f]
    BY <1>1, <2>2 DEF Look, UserTo
  <2>3. ASSUME Load(g) PROVE fence'[f] = fence[f] /\ user'[f] = user[f]
    BY <2>3 DEF Load, LoadMin, LoadHw, LoadSwap
  <2>4. ASSUME WaitReturns(g) \/ Leave(g) \/ Close(g) \/ Cancelled(g) \/ Cancel(g)
        PROVE  fence'[f] = fence[f] /\ user'[f] = user[f]
    BY <1>1, <2>4 DEF WaitReturns, Leave, Close, Cancelled, Cancel, UserTo
  <2>5. ASSUME Arm(g) PROVE fence'[f] = fence[f] /\ user'[f] = user[f]
    BY <1>1, <2>5 DEF Arm, EnableSignaling, UserTo
  <2>6. ASSUME IsSignaled(g) PROVE fence'[f] = fence[f] /\ user'[f] = user[f]
    BY <1>2, <2>6 DEF IsSignaled
  <2> QED BY <1>4, <2>1, <2>2, <2>3, <2>4, <2>5, <2>6 DEF User, Proceed, Woken, Interrupted
<1> QED BY <1>3, <1>4

\* What a step of Next may do to the fence f of a client: its callback goes only
\* when it has been called, and then its threshold is reached.
Mild(f) ==
  /\ user'[f] = user[f] \/ user'[f] \in {"leave", "done"}
  /\ user'[f] \in {"armed", "created", "cancel"} => fence'[f].goal = fence[f].goal
  /\ fence'[f].cb => fence[f].cb
  /\ fence[f].cb /\ ~fence'[f].cb => fence[f].goal <= total

\* Nothing at all is mild.
LEMMA MildNothing ==
  ASSUME FInv, NEW f \in Fence, fence'[f] = fence[f], user'[f] = user[f]
  PROVE  Mild(f)
BY State DEF Mild

\* The user of a client's fence only leaves, in Next.
LEMMA MildUser ==
  ASSUME FInv, NEW f \in Fence, kind[f] = "client", user[f] # "look", User(f)
  PROVE  Mild(f)
<1>1. ~Alone(f) /\ ~Timed(f) /\ kind[f] # "wait" /\ kind[f] # "polled"
  BY DEF Alone, Timed
<1>2. Load(f) \/ Leave(f) \/ Cancelled(f)
  BY <1>1 DEF User, Proceed, BeginWait, CreateTimed, Look, UserAt, Woken, Interrupted, WaitReturns,
              IsSignaled, Close
<1>3. CASE Load(f)
  BY <1>3, MildNothing DEF Load, LoadMin, LoadHw, LoadSwap
<1>4. CASE Leave(f)
  <2>1. user'[f] = "done" /\ user[f] = "leave"
    BY <1>1, <1>4 DEF Leave, UserAt, UserTo, FInv, Types
  <2>2. ~fence[f].cb /\ fence[f].refs > 0
    BY <2>1, State DEF Counted, Holding
  <2> DEFINE c == [fence[f] EXCEPT !.cb = FALSE]
  <2>3. fence'[f] = Less(c)
    BY <1>4 DEF Leave, FInv, Types
  <2>4. c \in Fences /\ ~c.cb /\ c.refs > 0
    BY <2>2, State, NoCallback
  <2> HIDE DEF c
  <2>5. ~fence'[f].cb
    BY <2>3, <2>4, LessFacts, FreedFacts
  <2> QED BY <2>1, <2>2, <2>5 DEF Mild
<1>5. CASE Cancelled(f)
  <2>1. user'[f] = "leave" /\ fence'[f] = fence[f]
    BY <1>5 DEF Cancelled, UserTo, FInv, Types
  <2> QED BY <2>1, State DEF Mild
<1> QED BY <1>2, <1>3, <1>4, <1>5

\* The work runs for a client only when it cancels the fence, having removed its
\* callback.
LEMMA MildTimeout ==
  ASSUME FInv, NEW f \in Fence, kind[f] = "client", Timeout(f)
  PROVE  Mild(f)
<1>1. work[f] # "idle" /\ ~Timed(f)
  BY DEF Timeout, WorkStarts, TimeoutXchg, TimeoutRemove, TimeoutError, TimeoutSignal, TimeoutPut,
         WorkAt, Timed
<1>2. user[f] = "cancel" /\ ~fence[f].cb /\ Holding(f) /\ fence[f].refs > 0 /\ work[f] # "put"
      /\ ~CallsBack(f)
  BY <1>1, WorkHolds, State DEF Counted, Signalled, CallsBack
<1>3. CASE WorkStarts(f)
  BY <1>3, MildNothing DEF WorkStarts
<1>4. CASE TimeoutXchg(f)
  <2>1. fence' = fence \/ fence' = [fence EXCEPT ![f].signaling = TRUE]
    BY <1>1, <1>4 DEF TimeoutXchg
  <2>2. /\ user'[f] = user[f]
        /\ fence'[f] = fence[f] \/ fence'[f] = [fence[f] EXCEPT !.signaling = TRUE]
    BY <1>4, <2>1 DEF TimeoutXchg, FInv, Types
  <2>3. fence'[f].goal = fence[f].goal /\ fence'[f].cb = fence[f].cb
    <3>1. fence[f] \in Fences
      BY State
    <3> QED BY <2>2, <3>1 DEF Fences
  <2> QED BY <2>2, <2>3, State DEF Mild
<1>5. CASE TimeoutRemove(f)
  <2>1. CASE ~In(f)
    BY <1>5, <2>1, ListedIn, MildNothing DEF TimeoutRemove
  <2>2. CASE In(f)
    <3>1. fence'[f] = Less(fence[f]) /\ user' = user
      BY <1>5, <2>2, ListedIn DEF TimeoutRemove, Put, FInv, Types
    <3>2. fence[f].refs > 1
      BY <1>1, <1>2, <2>2, State DEF Counted
    <3>3. fence'[f].goal = fence[f].goal /\ fence'[f].cb = fence[f].cb
      BY <3>1, <3>2, LessFacts, State
    <3> QED BY <3>1, <3>3, State DEF Mild
  <2> QED BY <2>1, <2>2
<1>6. CASE TimeoutError(f)
  <2>1. fence'[f] = [fence[f] EXCEPT !.error = TRUE] /\ user' = user
    BY <1>6 DEF TimeoutError, FInv, Types
  <2>2. fence'[f].goal = fence[f].goal /\ fence'[f].cb = fence[f].cb
    <3>1. fence[f] \in Fences
      BY State
    <3> QED BY <2>1, <3>1 DEF Fences
  <2> QED BY <2>1, <2>2, State DEF Mild
<1>7. CASE TimeoutSignal(f)
  <2>1. Signal(f)
    BY <1>7 DEF TimeoutSignal
  <2>2. PICK r \in Fences : /\ fence' = [fence EXCEPT ![f] = r] /\ user' = [user EXCEPT ![f] = user[f]]
                            /\ ~r.cb /\ r.goal = fence[f].goal
    BY <1>2, <2>1, SignalFacts
  <2>3. fence'[f] = r /\ user'[f] = user[f]
    BY <2>2 DEF FInv, Types
  <2> QED BY <1>2, <2>2, <2>3, State DEF Mild
<1>8. CASE TimeoutPut(f)
  BY <1>2, <1>8 DEF TimeoutPut, WorkAt
<1> QED BY <1>3, <1>4, <1>5, <1>6, <1>7, <1>8 DEF Timeout

\* The handler calls back for a threshold that is reached.
LEMMA MildIsr ==
  ASSUME FInv, NEW f \in Fence, kind[f] = "client", Isr
  PROVE  Mild(f)
<1>1. ~Timed(f) /\ ~CallsBack(f)
  BY DEF Timed, CallsBack
<1>2. CASE IsrStart \/ IsrDisable \/ Load(None) \/ IsrLock \/ IsrTake \/ IsrDone
  BY <1>2, MildNothing DEF IsrStart, IsrDisable, Load, LoadMin, LoadHw, LoadSwap, IsrLock, IsrTake, IsrDone
<1>3. CASE isr.fence = f /\ Handling
  <2>1. fence[f].goal <= total /\ fence[f].refs > 0 /\ Taken(f)
    BY <1>3, TakenFacts
  <2>2. CASE IsrXchg
    <3>1. fence'[f] = [fence[f] EXCEPT !.signaling = TRUE] /\ user' = user
      BY <1>3, <2>2 DEF IsrXchg, FInv, Types
    <3>2. fence'[f].goal = fence[f].goal /\ fence'[f].cb = fence[f].cb
      <4>1. fence[f] \in Fences
        BY State
      <4> QED BY <3>1, <4>1 DEF Fences
    <3> QED BY <3>1, <3>2, State DEF Mild
  <2>3. CASE IsrCancel
    BY <1>1, <1>3, <2>3, MildNothing DEF IsrCancel
  <2>4. CASE IsrSignal
    <3>1. PICK r \in Fences : /\ fence' = [fence EXCEPT ![f] = r] /\ user' = [user EXCEPT ![f] = user[f]]
                              /\ ~r.cb /\ r.goal = fence[f].goal
      BY <1>1, <1>3, <2>1, <2>4, SignalFacts DEF IsrSignal
    <3>2. fence'[f] = r /\ user'[f] = user[f]
      BY <3>1 DEF FInv, Types
    <3> QED BY <2>1, <3>1, <3>2, State DEF Mild
  <2>5. CASE IsrPut
    <3>1. fence'[f] = Less(fence[f]) /\ user' = user
      BY <1>3, <2>5 DEF IsrPut, Put, FInv, Types
    <3>2. CASE fence[f].refs # 1
      <4>1. fence'[f].goal = fence[f].goal /\ fence'[f].cb = fence[f].cb
        BY <2>1, <3>1, <3>2, LessFacts, State
      <4> QED BY <3>1, <4>1, State DEF Mild
    <3>3. CASE fence[f].refs = 1
      <4>1. ~Holding(f)
        BY <2>1, <3>3, State DEF Counted
      <4>2. user[f] \notin {"armed", "created", "cancel"} /\ ~fence[f].cb
        BY <4>1, State DEF Holding, Counted
      <4>3. ~fence'[f].cb
        BY <2>1, <3>1, <3>3, LessFacts, FreedFacts, State
      <4> QED BY <3>1, <4>2, <4>3 DEF Mild
    <3> QED BY <3>2, <3>3
  <2> QED BY <1>2, <2>2, <2>3, <2>4, <2>5 DEF Isr
<1>4. CASE Handling /\ isr.fence # f /\ (IsrXchg \/ IsrCancel \/ IsrSignal \/ IsrPut)
  <2>1. fence = [h \in Fence |-> fence[h]] /\ user = [h \in Fence |-> user[h]]
    BY DEF FInv, Types
  <2>2. fence'[f] = fence[f] /\ user'[f] = user[f]
    <3>1. CASE IsrXchg
      BY <1>4, <2>1, <3>1 DEF IsrXchg
    <3>2. CASE IsrCancel
      BY <1>4, <2>1, <3>2 DEF IsrCancel, Put
    <3>3. CASE IsrSignal
      BY <1>4, <2>1, <3>3 DEF IsrSignal, Signal
    <3>4. CASE IsrPut
      BY <1>4, <2>1, <3>4 DEF IsrPut, Put
    <3> QED BY <1>4, <3>1, <3>2, <3>3, <3>4
  <2> QED BY <2>2, MildNothing
<1>5. IsrXchg \/ IsrCancel \/ IsrSignal \/ IsrPut => Handling
  BY DEF IsrXchg, IsrCancel, IsrSignal, IsrPut, At, Handling
<1> QED BY <1>2, <1>3, <1>4, <1>5 DEF Isr

\* Every step of Next is mild.
LEMMA MildNext ==
  ASSUME FInv, NEW f \in Fence, kind[f] = "client", user[f] # "look", Next
  PROVE  Mild(f)
<1>1. CASE \E g \in Fence : User(g) \/ Timeout(g)
  <2>1. PICK g \in Fence : User(g) \/ Timeout(g)
    BY <1>1
  <2>2. CASE g = f
    BY <2>1, <2>2, MildUser, MildTimeout
  <2>3. CASE g # f
    BY <2>1, <2>3, OneFence, MildNothing
  <2> QED BY <2>2, <2>3
<1>2. CASE Increment \/ SystemSleeps \/ Resume
  BY <1>2, MildNothing DEF Increment, SystemSleeps, Suspend, Resume
<1> QED BY <1>1, <1>2, MildIsr DEF Next

\* No step of Next changes what fences are used for, or moves the counter back.
LEMMA NextFrame ==
  ASSUME FInv, Next
  PROVE  kind' = kind /\ total \in Nat /\ total' \in Nat /\ total' >= total
<1>1. kind' = kind
  <2>1. CASE \E g \in Fence : User(g)
    BY <2>1 DEF User, Proceed, BeginWait, CreateTimed, Create, Look, Load, LoadMin, LoadHw, LoadSwap,
                Woken, Interrupted, WaitReturns, Leave, Close, Cancelled, Arm, IsSignaled, Cancel
  <2>2. CASE \E g \in Fence : Timeout(g)
    BY <2>2 DEF Timeout, WorkStarts, TimeoutXchg, TimeoutRemove, TimeoutError, TimeoutSignal, TimeoutPut
  <2>3. CASE Isr
    BY <2>3 DEF Isr, IsrStart, IsrDisable, Load, LoadMin, LoadHw, LoadSwap, IsrLock, IsrTake, IsrDone,
                IsrXchg, IsrCancel, IsrSignal, IsrPut
  <2> QED BY <2>1, <2>2, <2>3 DEF Next, Increment, SystemSleeps, Suspend, Resume
<1>2. total \in Nat /\ total' \in Nat /\ total' >= total
  <2>1. total \in Nat /\ (total' = total \/ total' = total + 1)
    <3>1. CASE \E g \in Fence : User(g)
      BY <3>1, LoadFacts DEF User, Proceed, BeginWait, CreateTimed, Create, Look, Load, LoadMin, LoadHw,
         LoadSwap, Woken, Interrupted, WaitReturns, Leave, Close, Cancelled, Arm, IsSignaled, Cancel, counter
    <3>2. CASE \E g \in Fence : Timeout(g)
      BY <3>2, LoadFacts DEF Timeout, WorkStarts, TimeoutXchg, TimeoutRemove, TimeoutError,
         TimeoutSignal, TimeoutPut, counter
    <3>3. CASE Isr
      BY <3>3, LoadFacts DEF Isr, IsrStart, IsrDisable, Load, LoadMin, LoadHw, LoadSwap, IsrLock,
         IsrTake, IsrDone, IsrXchg, IsrCancel, IsrSignal, IsrPut, counter
    <3> QED BY <3>1, <3>2, <3>3, LoadFacts DEF Next, Increment, SystemSleeps, Suspend, Resume
  <2> QED BY <2>1
<1> QED BY <1>1, <1>2

\* The handler, timers and users of Fence, with the callback queueing the work.
LEMMA BellNext ==
  ASSUME FInv, Bell, Next, WithCallback
  PROVE  Bell'
<1>1. /\ kind' = kind /\ total \in Nat /\ total' \in Nat /\ total' >= total
      /\ UNCHANGED <<step, cur, new, next, freeing, mutex>> /\ Mine' = Mine
  BY NextFrame DEF WithCallback, Mine
<1>2. \A f \in Mine : f \in Fence /\ kind[f] = "client" /\ user[f] # "look" /\ Mild(f)
  BY MildNext DEF Bell, Mine
<1>3. \A f \in Mine : fence[f].cb => user[f] = "armed" /\ cur = f /\ fence[f].goal = next
  BY <1>2, State DEF Bell, Counted
<1>4. ASSUME Rings PROVE (next <= total' /\ step = "idle") \/ freeing # "no"
  <2>1. PICK f \in Mine : fence[f].cb /\ ~fence'[f].cb
    BY <1>4 DEF Rings
  <2>2. fence[f].goal = next /\ fence[f].goal <= total /\ next \in Nat
    BY <1>2, <1>3, <2>1, State DEF Mild
  <2>3. next <= total'
    BY <1>1, <2>2
  <2> QED BY <2>1, <2>3 DEF Bell
<1>5. ASSUME Rings PROVE \A f \in Mine : ~fence'[f].cb
  <2>1. PICK f \in Mine : fence[f].cb /\ ~fence'[f].cb
    BY <1>5 DEF Rings
  <2> QED BY <1>2, <1>3, <2>1 DEF Mild
<1>6. pending' = (pending \/ (Rings /\ Queued))
  BY DEF WithCallback
<1>7. pending' \in BOOLEAN
  BY <1>6 DEF Bell
<1>8. ASSUME NEW f \in Mine
      PROVE  /\ user'[f] = "armed" => cur = f /\ fence'[f].goal = next
             /\ user'[f] = "created" => step = "add" /\ new = f /\ fence'[f].goal = next
             /\ user'[f] = "cancel" => freeing = "cancel" /\ cur = f
             /\ user'[f] # "look"
  BY <1>2 DEF Mild, Bell
<1>9. /\ (pending' \/ step = "lock") /\ freeing = "no" => next <= total'
      /\ step = "alloc" => next <= total'
  <2>1. next <= total => next <= total'
    BY <1>1, CounterRange DEF Bell, Goals
  <2> QED BY <1>4, <1>6, <2>1 DEF Bell
<1>10. freeing = "no" /\ (pending' \/ step # "idle") => \A f \in Mine : ~fence'[f].cb
  BY <1>2, <1>5, <1>6 DEF Bell, Mild
<1>11. freeing = "no" /\ step # "idle" => ~pending'
  BY <1>4, <1>6 DEF Bell
<1> QED BY <1>1, <1>7, <1>8, <1>9, <1>10, <1>11 DEF Bell, Goals

\* What the client's put of a fence leaves behind.
LEMMA LetGoFacts ==
  ASSUME FInv, NEW f \in Fence, LetGo(f)
  PROVE  /\ user'[f] = "done" /\ ~fence'[f].cb /\ kind' = kind /\ total' = total
         /\ \A g \in Fence : g # f => fence'[g] = fence[g] /\ user'[g] = user[g]
<1>1. user[f] = "armed" /\ Holding(f) /\ fence[f].refs > 0 /\ fence[f].signaled /\ ~fence[f].cb
  BY State DEF LetGo, UserAt, Holding, Counted
<1>2. fence'[f] = Less(fence[f]) /\ user'[f] = "done"
  BY DEF LetGo, Put, UserTo, FInv, Types
<1>3. ~fence'[f].cb
  BY <1>1, <1>2, LessFacts, FreedFacts, State
<1>4. \A g \in Fence : g # f => fence'[g] = fence[g] /\ user'[g] = user[g]
  BY DEF LetGo, Put, UserTo, FInv, Types
<1> QED BY <1>2, <1>3, <1>4 DEF LetGo, counter

\* The work starts: the notifier is called for a value that is reached.
LEMMA WorkRunsStep ==
  ASSUME DInv, WorkRuns
  PROVE  DInv'
<1>1. /\ Idle /\ pending /\ pending' = FALSE /\ step' = "lock" /\ UNCHANGED vars
      /\ UNCHANGED <<cur, new, next, freeing, mutex, total, kind, fence, user>>
  BY DEF WorkRuns, vars, counter
<1>2. FInv'
  BY <1>1, StutterStep DEF DInv
<1>3. Mine' = Mine
  BY <1>1 DEF Mine
<1>4. Bell'
  BY <1>1, <1>3 DEF DInv, Bell, Goals, Idle
<1>5. Released'
  BY <1>1 DEF DInv, Released
<1> QED BY <1>2, <1>4, <1>5 DEF DInv

\* The work lets go of the fence that has called back, unless the syncpoint is
\* being freed.
LEMMA WorkLockedStep ==
  ASSUME DInv, WorkLocked
  PROVE  DInv'
<1>1. step = "lock" /\ UNCHANGED <<pending, new, next, freeing>>
  BY DEF WorkLocked
<1>2. CASE freeing # "no" \/ cur = None
  <2>1. /\ UNCHANGED vars /\ UNCHANGED <<total, kind, fence, user>> /\ cur' = cur
        /\ freeing # "no" => step' = "idle" /\ mutex' = TRUE
        /\ freeing = "no" => step' = "alloc" /\ cur = None /\ mutex' = mutex
    BY <1>2 DEF WorkLocked, vars, counter
  <2>2. FInv' /\ Mine' = Mine
    BY <2>1, StutterStep DEF DInv, Mine
  <2>3. Bell'
    BY <1>1, <2>1, <2>2 DEF DInv, Bell, Goals
  <2>4. Released'
    BY <1>1, <2>1 DEF DInv, Released
  <2> QED BY <2>2, <2>3, <2>4 DEF DInv
<1>3. CASE freeing = "no" /\ cur # None
  <2>1. LetGo(cur) /\ step' = "alloc" /\ cur' = None /\ mutex' = mutex /\ cur \in Fence
    BY <1>3 DEF WorkLocked, DInv, Bell, Mine
  <2>2. /\ user'[cur] = "done" /\ ~fence'[cur].cb /\ kind' = kind /\ total' = total
        /\ \A g \in Fence : g # cur => fence'[g] = fence[g] /\ user'[g] = user[g]
    BY <2>1, LetGoFacts DEF DInv
  <2>3. FInv' /\ Mine' = Mine /\ Mine \subseteq Fence
    BY <2>1, <2>2, LetGoStep DEF DInv, Mine
  <2>4. \A f \in Mine : ~fence'[f].cb
    BY <1>1, <1>3, <2>2, <2>3 DEF DInv, Bell
  <2>5. \A f \in Mine : user'[f] \notin {"armed", "created", "cancel", "look"}
    BY <1>1, <1>3, <2>2, <2>3 DEF DInv, Bell
  <2>6. Bell'
    BY <1>1, <1>3, <2>1, <2>2, <2>3, <2>4, <2>5 DEF DInv, Bell, Goals
  <2>7. Released'
    BY <1>1, <1>3 DEF DInv, Released
  <2> QED BY <2>3, <2>6, <2>7 DEF DInv
<1> QED BY <1>2, <1>3

\* allocate_fence() makes a fence for the value after the one that is reached.
LEMMA AllocateFenceStep ==
  ASSUME DInv, AllocateFence
  PROVE  DInv'
<1>1. PICK f \in Mine : Create(f, next + 1) /\ new' = f
  BY DEF AllocateFence
<1>2. /\ step = "alloc" /\ next' = next + 1 /\ step' = "add"
      /\ UNCHANGED <<pending, cur, heard, freeing, mutex>>
  BY DEF AllocateFence
<1>3. f \in Fence /\ next + 1 \in Goals
  <2>1. next <= total /\ total <= MaxIncr /\ total \in Nat /\ next \in Nat
    BY <1>2, LoadFacts, CounterRange DEF DInv, Bell, Goals, FInv, Types
  <2> QED BY <2>1, CounterRange, FenceAssumption DEF Goals, Mine
<1>4. FInv'
  BY <1>1, <1>3, CreateStep DEF DInv
<1>5. /\ user'[f] = "created" /\ kind' = kind /\ total' = total
      /\ fence'[f] = [Freed EXCEPT !.refs = 1, !.goal = next + 1]
      /\ \A g \in Fence : g # f => fence'[g] = fence[g] /\ user'[g] = user[g]
  BY <1>1, <1>3 DEF Create, UserTo, counter, DInv, FInv, Types
<1>6. fence'[f].goal = next + 1 /\ ~fence'[f].cb
  BY <1>5 DEF Freed
<1>7. Mine' = Mine /\ Mine \subseteq Fence
  BY <1>5 DEF Mine
<1>8. ASSUME NEW g \in Mine
      PROVE  /\ user'[g] # "armed" /\ user'[g] # "look"
             /\ user'[g] = "created" => new' = g /\ fence'[g].goal = next'
             /\ user'[g] = "cancel" => freeing = "cancel" /\ cur = g
             /\ freeing = "no" => ~fence'[g].cb
  <2>1. CASE g = f
    BY <1>1, <1>2, <1>5, <1>6, <2>1
  <2>2. CASE g # f
    BY <1>2, <1>3, <1>5, <1>7, <2>2, FenceAssumption DEF DInv, Bell
  <2> QED BY <2>1, <2>2
<1>9. Bell'
  BY <1>1, <1>2, <1>3, <1>5, <1>7, <1>8, FenceAssumption DEF DInv, Bell, Goals, Mine
<1>10. Released'
  BY <1>2 DEF DInv, Released
<1> QED BY <1>4, <1>9, <1>10 DEF DInv

\* ... or finds no memory, and the doorbell is deaf from then on.
LEMMA AllocateFailsStep ==
  ASSUME DInv, AllocateFails
  PROVE  DInv'
<1>1. /\ step = "alloc" /\ next' = next + 1 /\ step' = "failed" /\ mutex' = FALSE /\ UNCHANGED vars
      /\ UNCHANGED <<pending, cur, new, freeing, total, kind, fence, user>>
  BY DEF AllocateFails, vars, counter
<1>2. FInv' /\ Mine' = Mine /\ None \notin Mine
  BY <1>1, StutterStep, FenceAssumption DEF DInv, Mine
<1>3. next + 1 \in Goals
  <2>1. next <= total /\ total <= MaxIncr /\ total \in Nat /\ next \in Nat
    BY <1>1, LoadFacts, CounterRange DEF DInv, Bell, Goals, FInv, Types
  <2> QED BY <2>1, CounterRange, FenceAssumption DEF Goals
<1>4. \A f \in Mine : user[f] \notin {"armed", "created"}
  BY <1>1, <1>2 DEF DInv, Bell
<1>5. Bell'
  BY <1>1, <1>2, <1>3, <1>4 DEF DInv, Bell, Goals
<1>6. Released'
  BY <1>1 DEF DInv, Released
<1> QED BY <1>2, <1>5, <1>6 DEF DInv

\* allocate_fence() registers the callback, or queues the work at once.
LEMMA AddCallbackStep ==
  ASSUME DInv, AddCallback
  PROVE  DInv'
<1>1. /\ step = "add" /\ Arm(new) /\ step' = "idle" /\ new' = None
      /\ cur' = IF fence'[new].signaled THEN cur ELSE new
      /\ pending' = (pending \/ (fence'[new].signaled /\ Queued))
      /\ UNCHANGED <<next, freeing, mutex>>
  BY DEF AddCallback
<1>2. /\ new \in Mine /\ new \in Fence /\ kind[new] = "client" /\ cur = None
      /\ freeing = "no" => ~pending
  BY <1>1 DEF DInv, Bell, Mine
<1>3. FInv'
  BY <1>1, <1>2, ArmStep DEF DInv
<1>4. /\ user[new] = "created" /\ kind' = kind /\ total' = total
      /\ ~fence[new].signaled => EnableSignaling(new)
      /\ user'[new] = IF fence'[new].signaled THEN "leave" ELSE "armed"
      /\ \A g \in Fence : g # new => fence'[g] = fence[g] /\ user'[g] = user[g]
  BY <1>1, <1>2 DEF Arm, EnableSignaling, UserAt, UserTo, counter, DInv, FInv, Types
<1>5. /\ ~fence[new].signaled /\ ~fence[new].cb /\ fence[new].goal = next /\ fence[new] \in Fences
      /\ EnableSignaling(new)
  BY <1>2, <1>4, State DEF DInv, Counted, Bell
<1>6. /\ fence'[new].goal = next
      /\ fence'[new].signaled => ~fence'[new].cb /\ next <= total
  <2>1. CASE Expired(min, threshold(new))
    <3>1. fence'[new] = [fence[new] EXCEPT !.signaled = TRUE]
      BY <1>2, <1>5, <2>1 DEF EnableSignaling, DInv, FInv, Types
    <3>2. next <= total
      BY <1>2, <1>5, <2>1, ShadowFacts DEF DInv
    <3> QED BY <1>5, <3>1, <3>2 DEF Fences
  <2>2. CASE ~Expired(min, threshold(new))
    <3>1. fence'[new] = [fence[new] EXCEPT !.cb = TRUE, !.refs = @ + (IF Timed(new) THEN 2 ELSE 1)]
      BY <1>2, <1>5, <2>2 DEF EnableSignaling, DInv, FInv, Types
    <3> QED BY <1>5, <3>1 DEF Fences
  <2> QED BY <2>1, <2>2
<1>7. Mine' = Mine /\ Mine \subseteq Fence
  BY <1>4 DEF Mine
<1>8. ASSUME NEW g \in Mine
      PROVE  /\ user'[g] = "armed" => cur' = g /\ fence'[g].goal = next
             /\ user'[g] # "created" /\ user'[g] # "look"
             /\ user'[g] = "cancel" => freeing = "cancel" /\ cur = g
             /\ freeing = "no" /\ pending' => ~fence'[g].cb
  <2>1. CASE g = new
    BY <1>1, <1>2, <1>4, <1>6, <2>1
  <2>2. CASE g # new
    <3>1. user[g] \notin {"armed", "created", "cancel", "look"} /\ (freeing = "no" => ~fence[g].cb)
      BY <1>1, <1>2, <1>7, <2>2, FenceAssumption DEF DInv, Bell
    <3> QED BY <1>4, <1>7, <2>2, <3>1
  <2> QED BY <2>1, <2>2
<1>9. pending' \in BOOLEAN /\ (freeing = "no" /\ pending' => next <= total')
  BY <1>1, <1>2, <1>4, <1>6 DEF DInv, Bell
<1>10. cur' \in Mine \cup {None} /\ (freeing = "cancel" => cur' # None)
  BY <1>1, <1>2, FenceAssumption DEF DInv, Bell
<1>11. Bell'
  BY <1>1, <1>4, <1>7, <1>8, <1>9, <1>10 DEF DInv, Bell, Goals
<1>12. Released'
  BY <1>1 DEF DInv, Released
<1> QED BY <1>3, <1>11, <1>12 DEF DInv

\* free_syncpoint() cancels the fence, or puts it when it has called back.
LEMMA FreeSyncpointStep ==
  ASSUME DInv, Release
  PROVE  DInv'
<1>1. /\ freeing = "no" /\ (QuietRelease => step \in {"idle", "failed"}) /\ UNCHANGED <<step, new, next>>
      /\ cur \in Mine \cup {None} /\ mutex' \in BOOLEAN /\ FreeSyncpoint
  BY DEF Release, Idle, FreeSyncpoint, DInv, Bell
<1>2. CASE cur # None /\ ~fence[cur].signaled
  <2>1. /\ Cancel(cur) /\ freeing' = "cancel" /\ UNCHANGED <<cur, pending>>
        /\ cur \in Fence /\ kind[cur] = "client"
    BY <1>1, <1>2 DEF FreeSyncpoint, Mine
  <2>2. /\ user'[cur] = "cancel" /\ kind' = kind /\ total' = total
        /\ \A g \in Fence : g # cur => fence'[g] = fence[g] /\ user'[g] = user[g]
    BY <2>1 DEF Cancel, UserTo, counter, DInv, FInv, Types
  <2>3. FInv' /\ Mine' = Mine /\ Mine \subseteq Fence
    BY <2>1, <2>2, CancelStep DEF DInv, Mine
  <2>4. ASSUME NEW g \in Mine
        PROVE  /\ user'[g] \notin {"armed", "created", "look"}
               /\ user'[g] = "cancel" => cur = g
    BY <1>1, <1>2, <2>2, <2>3 DEF DInv, Bell
  <2>5. Bell'
    BY <1>1, <1>2, <2>1, <2>2, <2>3, <2>4 DEF DInv, Bell, Goals
  <2>6. Released'
    BY <1>1, <2>1 DEF DInv, Released
  <2> QED BY <2>3, <2>5, <2>6 DEF DInv
<1>3. CASE ~(cur # None /\ ~fence[cur].signaled)
  <2>1. /\ freeing' = "flush" /\ cur' = None /\ pending' = FALSE
        /\ IF cur # None THEN LetGo(cur) ELSE UNCHANGED vars
    BY <1>1, <1>3 DEF FreeSyncpoint
  <2>2. CASE cur = None
    <3>1. UNCHANGED <<total, kind, fence, user>> /\ FInv' /\ Mine' = Mine
      BY <2>1, <2>2, StutterStep DEF vars, counter, DInv, Mine
    <3>2. \A g \in Mine : user[g] \notin {"armed", "cancel"}
      BY <1>1, <2>2, FenceAssumption DEF DInv, Bell, Mine
    <3>3. Bell'
      BY <1>1, <2>1, <2>2, <3>1, <3>2 DEF DInv, Bell, Goals
    <3>4. Released'
      BY <1>1, <2>1 DEF DInv, Released
    <3> QED BY <3>1, <3>3, <3>4 DEF DInv
  <2>3. CASE cur # None
    <3>1. LetGo(cur) /\ cur \in Fence
      BY <1>1, <2>1, <2>3 DEF Mine
    <3>2. /\ user'[cur] = "done" /\ kind' = kind /\ total' = total
          /\ \A g \in Fence : g # cur => fence'[g] = fence[g] /\ user'[g] = user[g]
      BY <3>1, LetGoFacts DEF DInv
    <3>3. FInv' /\ Mine' = Mine /\ Mine \subseteq Fence
      BY <3>1, <3>2, LetGoStep DEF DInv, Mine
    <3>4. \A g \in Mine : user'[g] \notin {"armed", "created", "cancel", "look"}
      BY <1>1, <2>3, <3>2, <3>3 DEF DInv, Bell
    <3>5. Bell'
      BY <1>1, <2>1, <2>3, <3>2, <3>3, <3>4 DEF DInv, Bell, Goals
    <3>6. Released'
      BY <1>1, <2>1 DEF DInv, Released
    <3> QED BY <3>3, <3>5, <3>6 DEF DInv
  <2> QED BY <2>2, <2>3
<1> QED BY <1>2, <1>3

\* free_syncpoint() goes on when the fence has been cancelled and put, and is
\* over when the work is.
LEMMA FreerStep ==
  ASSUME DInv, FenceCancelled \/ Gone
  PROVE  DInv'
<1>1. UNCHANGED vars /\ UNCHANGED <<total, kind, fence, user>>
  BY DEF FenceCancelled, Gone, vars, counter
<1>2. FInv' /\ Mine' = Mine
  BY <1>1, StutterStep DEF DInv, Mine
<1>3. CASE FenceCancelled
  <2>1. /\ freeing = "cancel" /\ user[cur] = "done" /\ freeing' = "flush" /\ cur' = None
        /\ mutex' = FALSE /\ pending' = FALSE /\ UNCHANGED <<step, new, next>>
    BY <1>3 DEF FenceCancelled
  <2>2. \A g \in Mine : user[g] \notin {"armed", "cancel"}
    BY <2>1 DEF DInv, Bell
  <2>3. Bell'
    BY <1>1, <1>2, <2>1, <2>2 DEF DInv, Bell, Goals
  <2>4. Released'
    BY <2>1 DEF DInv, Released
  <2> QED BY <1>2, <2>3, <2>4 DEF DInv
<1>4. CASE Gone
  <2>1. /\ freeing = "flush" /\ freeing' = "gone"
        /\ UNCHANGED <<step, pending, cur, new, next, mutex>>
    BY <1>4 DEF Gone
  <2>2. Bell'
    BY <1>1, <1>2, <2>1 DEF DInv, Bell, Goals
  <2>3. Released'
    BY <2>1 DEF DInv, Released
  <2> QED BY <1>2, <2>2, <2>3 DEF DInv
<1> QED BY <1>3, <1>4

\* Every step keeps the invariant.
LEMMA DoorbellStep ==
  ASSUME DInv, [DoorbellNext]_dvars
  PROVE  DInv'
<1>1. CASE Next /\ WithCallback
  <2>1. FInv' /\ Bell'
    BY <1>1, NextStep, BellNext DEF DInv
  <2>2. Released'
    BY <1>1 DEF WithCallback, DInv, Released
  <2> QED BY <2>1, <2>2 DEF DInv
<1>2. CASE UNCHANGED dvars
  <2>1. /\ UNCHANGED vars /\ UNCHANGED <<total, kind, fence, user>>
        /\ UNCHANGED <<step, pending, cur, new, next, freeing, mutex>>
    BY <1>2 DEF dvars, bell, vars, counter
  <2>2. FInv' /\ Mine' = Mine
    BY <2>1, StutterStep DEF DInv, Mine
  <2>3. Bell'
    BY <2>1, <2>2 DEF DInv, Bell, Goals
  <2>4. Released'
    BY <2>1 DEF DInv, Released
  <2> QED BY <2>2, <2>3, <2>4 DEF DInv
<1> QED BY <1>1, <1>2, WorkRunsStep, WorkLockedStep, AllocateFenceStep, AllocateFailsStep,
           AddCallbackStep, FreeSyncpointStep, FreerStep DEF DoorbellNext, Ringer, Freer

\* The initial states are among those of the invariant.
LEMMA DoorbellInitOK ==
  ASSUME DoorbellInit
  PROVE  DInv
<1>1. /\ step = (IF Mine # {} THEN "alloc" ELSE "idle") /\ pending = FALSE /\ cur = None
      /\ new = None /\ next = 0 /\ freeing = "no" /\ mutex = FALSE /\ Init
  BY DEF DoorbellInit
<1>2. FInv
  BY <1>1, InitOK
<1>3. total = 0 /\ 0 \in Goals /\ 0 <= 0 /\ \A f \in Fence : user[f] = "off" /\ fence[f] = Freed
  BY <1>1, CounterRange DEF Init, Goals
<1>4. \A f \in Mine : user[f] = "off" /\ ~fence[f].cb
  BY <1>3, FreedFacts DEF Mine
<1>5. Bell
  BY <1>1, <1>3, <1>4 DEF Bell
<1>6. Released
  BY <1>1 DEF Released
<1> QED BY <1>2, <1>5, <1>6 DEF DInv

\* What every reachable state satisfies: the inductive invariant.
THEOREM Invariance == DoorbellSpec => []DInv
<1>1. DoorbellInit => DInv
  BY DoorbellInitOK
<1>2. DInv /\ [DoorbellNext]_dvars => DInv'
  BY DoorbellStep
<1> QED BY <1>1, <1>2, PTL DEF DoorbellSpec

\* Counters are counters, the hardware's is what the increments make it across
\* suspends, and no fence is in the list twice.
THEOREM TypeCorrect == DoorbellSpec => []TypeOK
<1>1. ASSUME DInv PROVE TypeOK
  <2>1. Types /\ (power => hw = Counter(total))
    BY <1>1 DEF DInv, FInv, Clock
  <2>2. \A i, j \in 1..Len(list) : list[i] = list[j] => i = j
    BY <2>1 DEF Types, Distinct
  <2>3. \A f \in Fence : fence[f].refs \in Nat /\ fence[f].goal \in 0..(MaxIncr + Ahead)
    BY <1>1, State DEF DInv, Goals
  <2>4. isr.step \in IsrSteps /\ isr.fence \in Fence \cup {None}
    BY <2>1 DEF Types
  <2>5. \A a \in Fence \cup {None} : load[a].step \in {"off", "min", "hw", "swap", "done"}
    BY <2>1 DEF Types, Loads
  <2>6. total \in 0..MaxIncr /\ {hw, min, reg} \subseteq 0..(CounterMod - 1)
    BY <2>1 DEF Types, Numbers
  <2> QED BY <2>1, <2>2, <2>3, <2>4, <2>5, <2>6 DEF TypeOK, Types, IsrSteps
<1> QED BY <1>1, Invariance, PTL

\* Every reference of a fence belongs to somebody who will drop it: its user,
\* the list or the handler, the timeout work.  Nobody touches a freed fence.
THEOREM ReferencesExact == DoorbellSpec => []RefsExact
<1>1. ASSUME DInv PROVE RefsExact
  <2>1. SUFFICES ASSUME NEW f \in Fence
                 PROVE  fence[f].refs = Owners(f) /\ (work[f] # "idle" => fence[f].refs > 0)
    BY DEF RefsExact
  <2>2. fence[f].refs = Owners(f)
    BY <1>1, State, ListedIn DEF DInv, Counted, Owners, Taken
  <2>3. work[f] # "idle" => fence[f].refs > 0
    BY <1>1, WorkHolds DEF DInv
  <2> QED BY <2>2, <2>3
<1> QED BY <1>1, Invariance, PTL

\* A fence that timed out says so when it is signalled, and no other does.
THEOREM ErrorsInTime == DoorbellSpec => []ErrorInTime
<1>1. DInv => ErrorInTime
  BY State DEF DInv, Errors, ErrorInTime
<1> QED BY <1>1, Invariance, PTL

\* Fences are in the list in the order of their thresholds, whatever the wrap, and
\* the interrupt is set for the first of them, if the system does not sleep while
\* fences are listed.
THEOREM AlwaysArmed ==
  ASSUME ~HotSuspend
  PROVE  DoorbellSpec => []Armed
<1>1. DInv => Armed
  BY DEF DInv, FInv, Order, Armed, At
<1> QED BY <1>1, Invariance, PTL

\* After a release that finds the work idle no fence of the doorbell is left to
\* call back.
THEOREM NoFenceLeft ==
  ASSUME QuietRelease
  PROVE  DoorbellSpec => []NoneLeft
<1>1. ASSUME DInv PROVE NoneLeft
  <2>1. SUFFICES ASSUME freeing = "gone", NEW f \in Mine PROVE ~fence[f].cb /\ ~Listed(f)
    BY DEF NoneLeft
  <2>2. f \in Fence /\ kind[f] = "client" /\ cur = None /\ f # None
    BY <1>1, <2>1, FenceAssumption DEF DInv, Released, Mine
  <2>3. user[f] \notin {"armed", "cancel"}
    BY <1>1, <2>1, <2>2 DEF DInv, Bell
  <2>4. ~fence[f].cb /\ ~In(f)
    BY <1>1, <2>2, <2>3, State DEF DInv, Counted, Errors
  <2> QED BY <2>4, ListedIn
<1> QED BY <1>1, Invariance, PTL

\* The counter as a value that the shadow may get.
LEMMA HardwareAhead ==
  ASSUME FInv, power, min' = hw
  PROVE  Diff(min', min) < Half
<1>1. hw = Counter(total) /\ total \in Goals
  BY LoadFacts, CounterRange DEF FInv, Clock, Types, Goals
<1>2. PICK m \in 0..total : min = Counter(m)
  BY DEF FInv, Clock
<1>3. m \in Goals /\ total >= m
  BY <1>1, <1>2, CounterRange DEF Goals
<1> QED BY <1>1, <1>2, <1>3, Compare

\* What moves the shadow: a load that has found it unchanged, the end of a wait, and
\* the suspend, each to a later value of the counter.
LEMMA ShadowStep ==
  ASSUME DInv, [DoorbellNext]_dvars
  PROVE  [Diff(min', min) < Half]_min
<1> SUFFICES ASSUME min' # min PROVE Diff(min', min) < Half
  OBVIOUS
<1>1. ASSUME NEW a \in Fence \cup {None}, Load(a) PROVE Diff(min', min) < Half
  BY <1>1, LoadSwapStep DEF Load, LoadMin, LoadHw, counter, DInv
<1>2. ASSUME NEW f \in Fence, User(f) PROVE Diff(min', min) < Half
  <2>1. CASE Leave(f)
    <3>1. power /\ min' = hw
      BY <2>1 DEF Leave, UserAt
    <3> QED BY <3>1, HardwareAhead DEF DInv
  <2>2. CASE Load(f)
    BY <1>1, <2>2
  <2> QED BY <1>2, <2>1, <2>2 DEF User, Proceed, BeginWait, CreateTimed, Create, Look, Woken, Interrupted,
             WaitReturns, Close, Cancelled, Arm, IsSignaled, Cancel, counter
<1>3. ASSUME NEW f \in Fence, Timeout(f) PROVE FALSE
  BY <1>3 DEF Timeout, WorkStarts, TimeoutXchg, TimeoutRemove, TimeoutError, TimeoutSignal, TimeoutPut,
     counter
<1>4. ASSUME Isr PROVE Diff(min', min) < Half
  BY <1>1, <1>4 DEF Isr, IsrStart, IsrDisable, IsrLock, IsrTake, IsrDone, IsrXchg, IsrCancel, IsrSignal,
     IsrPut, counter
<1>5. ASSUME Next PROVE Diff(min', min) < Half
  <2>1. CASE Increment \/ Resume
    BY <2>1 DEF Increment, Resume
  <2> QED BY <1>2, <1>3, <1>4, <1>5, <2>1, SuspendStep DEF Next, DInv
<1>6. ASSUME Ringer PROVE FALSE
  BY <1>6 DEF Ringer, WorkRuns, WorkLocked, LetGo, AllocateFence, Create, AddCallback, Arm, vars, counter
<1>7. ASSUME AllocateFails \/ Release \/ Freer \/ UNCHANGED dvars PROVE FALSE
  BY <1>7 DEF AllocateFails, Release, FreeSyncpoint, Cancel, LetGo, Freer, FenceCancelled, Gone, dvars, vars, counter
<1> QED BY <1>5, <1>6, <1>7 DEF DoorbellNext

\* No syncpt_load() moves the shadow back, however the loads of the handler and
\* of waiters overlap.
THEOREM ShadowMovesForward == DoorbellSpec => ShadowForward
<1>1. DInv /\ [DoorbellNext]_dvars => [Diff(min', min) < Half]_min
  BY ShadowStep
<1> QED BY <1>1, Invariance, PTL DEF DoorbellSpec, ShadowForward

-----------------------------------------------------------------------------
(* The refinement of Timeline.                                             *)

\* What Timeline sees of a fence whose user is at u.
StatusOf(r, u) == IF r.refs = 0 THEN "free"
                  ELSE IF ~r.signaled THEN IF u = "created" THEN "new" ELSE "pending"
                  ELSE IF r.late THEN "late" ELSE "reached"
GoalOf(r) == IF r.refs = 0 THEN 0 ELSE r.goal

\* The steps of Timeline, and the step that changes nothing, of a fence that is r
\* and becomes s while its user goes from u to v.
Legal(r, u, s, v) ==
  \/ StatusOf(s, v) = StatusOf(r, u) /\ GoalOf(s) = GoalOf(r)
  \/ StatusOf(r, u) = "free" /\ StatusOf(s, v) = "new"
  \/ /\ GoalOf(s) = GoalOf(r)
     /\ \/ StatusOf(r, u) = "new" /\ StatusOf(s, v) = "pending"
        \/ StatusOf(r, u) = "pending" /\ StatusOf(s, v) = "late"
        \/ /\ StatusOf(r, u) \in {"new", "pending"} /\ GoalOf(r) <= total
           /\ StatusOf(s, v) = "reached"
  \/ StatusOf(r, u) \in {"new", "reached", "late"} /\ StatusOf(s, v) = "free"
Allowed(f) == Legal(fence[f], user[f], fence'[f], user'[f])

\* A step that leaves alone what Timeline sees.
LEMMA LegalSame ==
  ASSUME NEW r \in Fences, NEW s \in Fences, NEW u, NEW v, r.refs = 0 <=> s.refs = 0,
         r.refs # 0 => /\ s.goal = r.goal /\ s.signaled = r.signaled /\ s.late = r.late
                       /\ u = "created" <=> v = "created"
  PROVE  Legal(r, u, s, v)
BY DEF Legal, StatusOf, GoalOf

\* The last reference of a fence is dropped when it is signalled.
LEMMA LegalPut ==
  ASSUME NEW r \in Fences, r.refs > 0, r.refs = 1 => r.signaled,
         NEW u, NEW v, u # "created", v # "created"
  PROVE  Legal(r, u, Less(r), v)
<1>1. CASE r.refs = 1
  BY <1>1, LessFacts, FreedFacts DEF Legal, StatusOf
<1>2. CASE r.refs # 1
  <2>1. /\ Less(r) \in Fences /\ Less(r).refs # 0 /\ Less(r).goal = r.goal
        /\ Less(r).signaled = r.signaled /\ Less(r).late = r.late
    BY <1>2, LessFacts, Fields
  <2> QED BY <2>1, LegalSame
<1> QED BY <1>1, <1>2

\* Signalling a fence reaches it or gives it up, once.
LEMMA LegalSignal ==
  ASSUME FInv, NEW f \in Fence, Signal(f), fence[f].refs > 0,
         CallsBack(f) => fence[f].refs # 1, user[f] = "created" => ~fence[f].error,
         ~fence[f].signaled /\ ~fence[f].error => fence[f].goal <= total
  PROVE  Allowed(f)
<1>1. PICK r \in Fences : /\ fence' = [fence EXCEPT ![f] = r]
                          /\ r.refs = fence[f].refs \/ (CallsBack(f) /\ r.refs = fence[f].refs - 1)
                          /\ r.signaled /\ r.goal = fence[f].goal
                          /\ r.late = IF fence[f].signaled THEN fence[f].late ELSE fence[f].error
  BY SignalFacts
<1>2. fence'[f] = r /\ r.refs # 0 /\ fence[f].refs \in Nat
  BY <1>1, State DEF FInv, Types
<1>3. CASE fence[f].signaled
  BY <1>1, <1>2, <1>3, State DEF Allowed, Legal, StatusOf, GoalOf
<1>4. CASE ~fence[f].signaled
  BY <1>1, <1>2, <1>4, State DEF Allowed, Legal, StatusOf, GoalOf
<1> QED BY <1>3, <1>4

\* Removing a callback changes nothing that Timeline sees.
LEMMA LegalCalm ==
  ASSUME NEW f \in Fence, fence[f] \in Fences, fence'[f] = [fence[f] EXCEPT !.cb = FALSE],
         user[f] # "created", user'[f] # "created"
  PROVE  Allowed(f)
<1> DEFINE c == [fence[f] EXCEPT !.cb = FALSE]
<1>1. /\ c \in Fences /\ c.refs = fence[f].refs /\ c.goal = fence[f].goal
      /\ c.signaled = fence[f].signaled /\ c.late = fence[f].late
  BY NoCallback
<1> HIDE DEF c
<1>2. Legal(fence[f], user[f], c, user'[f])
  BY <1>1, LegalSame
<1> QED BY <1>2 DEF Allowed, c

\* A fence is not signalled yet while its last reference is that of somebody who
\* will signal it.
LEMMA LastReference ==
  ASSUME FInv, NEW f \in Fence, fence[f].refs = 1, ~fence[f].signaled
  PROVE  /\ Holding(f) => user[f] \in {"created", "cancel"}
         /\ Taken(f) => isr.step \in {"xchg", "cancel", "signal"}
         /\ Timed(f) /\ work[f] # "idle" => TimeoutWon(f)
<1>1. /\ fence[f].refs = (IF Holding(f) THEN 1 ELSE 0) + (IF In(f) \/ Taken(f) THEN 1 ELSE 0)
                         + (IF Timed(f) /\ work[f] # "idle" THEN 1 ELSE 0)
      /\ ~Timed(f) /\ work[f] # "idle" => user[f] = "cancel"
      /\ user[f] = "created" => work[f] = "idle" /\ ~Taken(f)
  BY State DEF Counted
<1>2. \/ user[f] = "created" \/ In(f) \/ TimeoutWon(f)
      \/ Taken(f) /\ isr.step \in {"xchg", "cancel", "signal"}
  BY State DEF Signalled
<1>3. /\ TimeoutWon(f) => work[f] # "idle"
      /\ user[f] \in {"created", "cancel"} => Holding(f)
  BY DEF TimeoutWon, Holding
<1>4. Taken(f) => ~In(f)
  BY State DEF Counted
<1>5. CASE Holding(f)
  <2>1. ~In(f) /\ ~Taken(f) /\ ~(Timed(f) /\ work[f] # "idle")
    BY <1>1, <1>5
  <2> QED BY <1>1, <1>2, <1>3, <1>5, <2>1
<1>6. CASE ~Holding(f)
  <2>1. Taken(f) => ~(Timed(f) /\ work[f] # "idle")
    BY <1>1, <1>6
  <2>2. In(f) => ~(Timed(f) /\ work[f] # "idle")
    BY <1>1, <1>6
  <2> QED BY <1>1, <1>2, <1>3, <1>4, <1>6, <2>1, <2>2
<1> QED BY <1>5, <1>6

\* A fence is made from free memory.
LEMMA LegalCreate ==
  ASSUME FInv, NEW f \in Fence, NEW goal, Create(f, goal)
  PROVE  Allowed(f)
<1>1. /\ fence[f] = Freed /\ fence'[f] = [Freed EXCEPT !.refs = 1, !.goal = goal]
      /\ user'[f] = "created"
  BY DEF Create, UserTo, FInv, Types
<1>2. fence[f].refs = 0 /\ fence'[f].refs = 1 /\ ~fence'[f].signaled
  BY <1>1 DEF Freed
<1> QED BY <1>1, <1>2 DEF Allowed, Legal, StatusOf

\* A fence that is armed is signalled only if its goal is reached.
LEMMA LegalArm ==
  ASSUME FInv, NEW f \in Fence, Arm(f)
  PROVE  Allowed(f)
<1>1. fence[f] \in Fences /\ fence[f].refs \in Nat /\ f \in DOMAIN fence
  <2> HIDE DEF Fences
  <2> QED BY State DEF FInv, Types
<1>2. /\ user[f] = "created" /\ user'[f] \in {"leave", "armed"}
      /\ IF fence[f].signaled THEN fence'[f] = fence[f] ELSE EnableSignaling(f)
  BY DEF Arm, UserAt, UserTo, FInv, Types
<1>3. ~fence[f].late /\ fence[f].refs = 1
  BY <1>2, State DEF Counted, Holding
<1>4. CASE fence[f].signaled
  BY <1>2, <1>3, <1>4 DEF Allowed, Legal, StatusOf, GoalOf
<1>5. CASE ~fence[f].signaled /\ Expired(min, threshold(f))
  <2>1. fence'[f] = [fence[f] EXCEPT !.signaled = TRUE] /\ fence[f].goal <= total
    BY <1>1, <1>2, <1>5, ShadowFacts DEF EnableSignaling
  <2>2. /\ fence'[f].refs = 1 /\ fence'[f].signaled /\ ~fence'[f].late
        /\ fence'[f].goal = fence[f].goal
    BY <1>1, <1>3, <2>1 DEF Fences
  <2> QED BY <1>2, <1>3, <1>5, <2>1, <2>2 DEF Allowed, Legal, StatusOf, GoalOf
<1>6. CASE ~fence[f].signaled /\ ~Expired(min, threshold(f))
  <2>1. PICK n \in {1, 2} : fence'[f] = [fence[f] EXCEPT !.cb = TRUE, !.refs = fence[f].refs + n]
    BY <1>1, <1>2, <1>6 DEF EnableSignaling
  <2>2. fence[f].refs + n \in Nat /\ fence[f].refs + n # 0
    BY <1>1
  <2>3. /\ fence'[f].refs # 0 /\ fence'[f].goal = fence[f].goal
        /\ fence'[f].signaled = fence[f].signaled
    BY <1>1, <2>1, <2>2 DEF Fences
  <2> QED BY <1>1, <1>2, <1>3, <1>6, <2>3 DEF Allowed, Legal, StatusOf, GoalOf
<1> QED BY <1>4, <1>5, <1>6

\* What the user of a fence does to it, Timeline allows.
LEMMA LegalUser ==
  ASSUME FInv, NEW f \in Fence, User(f)
  PROVE  Allowed(f)
<1>1. fence[f] \in Fences /\ fence[f].refs \in Nat /\ f \in DOMAIN fence /\ f \in DOMAIN user
  <2> HIDE DEF Fences
  <2> QED BY State DEF FInv, Types
<1>2. CASE BeginWait(f)
  <2>1. PICK n \in 1..Ahead : fence' = [fence EXCEPT ![f].goal = total + n]
    BY <1>2 DEF BeginWait
  <2>2. fence'[f] = [fence[f] EXCEPT !.goal = total + n] /\ fence[f].refs = 0
    BY <1>1, <1>2, <2>1, State DEF BeginWait, UserAt, Counted
  <2>3. fence'[f].refs = 0
    BY <1>1, <2>2 DEF Fences
  <2> QED BY <2>2, <2>3 DEF Allowed, Legal, StatusOf, GoalOf
<1>3. CASE CreateTimed(f)
  BY <1>3, LegalCreate DEF CreateTimed
<1>4. CASE Look(f)
  <2>1. fence[f].refs = 0 /\ ~fence[f].signaled
    BY <1>4, State DEF Look, UserAt, Counted
  <2>2. \/ fence'[f] = Freed
        \/ fence'[f] = [fence[f] EXCEPT !.refs = 1] /\ user'[f] = "created"
    BY <1>1, <1>4 DEF Look, UserTo
  <2>3. fence'[f].refs = 0 \/ (fence'[f].refs = 1 /\ ~fence'[f].signaled /\ user'[f] = "created")
    BY <1>1, <2>1, <2>2, FreedFacts DEF Fences
  <2> QED BY <2>1, <2>3 DEF Allowed, Legal, StatusOf, GoalOf
<1>5. CASE Load(f) \/ Cancelled(f)
  <2>1. fence'[f] = fence[f] /\ (user'[f] = user[f] \/ (user[f] = "cancel" /\ user'[f] = "leave"))
    BY <1>1, <1>5 DEF Load, LoadMin, LoadHw, LoadSwap, Cancelled, UserAt, UserTo
  <2> QED BY <1>1, <2>1, LegalSame DEF Allowed
<1>6. CASE WaitReturns(f) \/ Cancel(f)
  <2>1. /\ fence'[f] = [fence[f] EXCEPT !.cb = FALSE]
        /\ user[f] = "armed" /\ user'[f] \in {"leave", "cancel"}
    BY <1>1, <1>6 DEF WaitReturns, Cancel, UserAt, UserTo
  <2> QED BY <1>1, <2>1, LegalCalm
<1>7. CASE Leave(f) \/ Close(f)
  <2> DEFINE c == [fence[f] EXCEPT !.cb = FALSE]
  <2>1. fence'[f] = Less(c) /\ user'[f] = "done"
    BY <1>1, <1>7 DEF Leave, Close, UserTo
  <2>2. /\ c \in Fences /\ c.refs = fence[f].refs /\ c.goal = fence[f].goal
        /\ c.signaled = fence[f].signaled /\ c.late = fence[f].late
    BY <1>1, NoCallback
  <2> HIDE DEF c
  <2>3. user[f] \in {"leave", "armed", "created"} /\ Holding(f) /\ fence[f].refs > 0
    BY <1>7, State DEF Leave, Close, UserAt, Holding, Counted
  <2>4. CASE user[f] = "created"
    <3>1. c.refs = 1 /\ ~fence[f].late
      BY <2>2, <2>3, <2>4, State DEF Counted
    <3>2. Less(c).refs = 0
      BY <2>2, <3>1, LessFacts, FreedFacts
    <3>3. StatusOf(fence'[f], user'[f]) = "free"
      BY <2>1, <3>2 DEF StatusOf
    <3>4. StatusOf(fence[f], user[f]) \in {"new", "reached"}
      BY <2>3, <2>4, <3>1 DEF StatusOf
    <3> QED BY <3>3, <3>4 DEF Allowed, Legal
  <2>5. CASE user[f] # "created"
    <3>1. fence[f].refs = 1 => fence[f].signaled
      BY <2>3, <2>5, LastReference
    <3>2. Legal(c, user[f], Less(c), user'[f])
      BY <2>1, <2>2, <2>3, <2>5, <3>1, LegalPut
    <3> QED BY <2>1, <2>2, <3>2 DEF Allowed, Legal, StatusOf, GoalOf
  <2> QED BY <2>4, <2>5
<1>8. CASE Arm(f)
  BY <1>8, LegalArm
<1>9. CASE IsSignaled(f)
  <2>1. /\ user[f] \in {"created", "armed"} /\ kind[f] = "polled" /\ Signal(f)
        /\ Expired(min, threshold(f)) \/ fence[f].error
    BY <1>9 DEF IsSignaled, UserAt
  <2>2. fence[f].refs > 0 /\ ~CallsBack(f) /\ (user[f] = "created" => ~fence[f].error)
    BY <2>1, State DEF Counted, Holding, CallsBack
  <2> QED BY <2>1, <2>2, ShadowFacts, LegalSignal
<1> QED BY <1>2, <1>3, <1>4, <1>5, <1>6, <1>7, <1>8, <1>9 DEF User, Proceed, Woken, Interrupted

\* What the timeout work does to a fence, Timeline allows.
LEMMA LegalTimeout ==
  ASSUME FInv, NEW f \in Fence, Timeout(f)
  PROVE  Allowed(f)
<1>1. fence[f] \in Fences /\ fence[f].refs \in Nat /\ f \in DOMAIN fence /\ f \in DOMAIN user
  <2> HIDE DEF Fences
  <2> QED BY State DEF FInv, Types
<1>2. work[f] # "idle" /\ fence[f].refs > 0 /\ user[f] # "created" /\ user'[f] # "created"
  <2>1. work[f] # "idle"
    BY DEF Timeout, WorkStarts, TimeoutXchg, TimeoutRemove, TimeoutError, TimeoutSignal, TimeoutPut, WorkAt
  <2>2. fence[f].refs > 0 /\ user[f] # "created"
    BY <2>1, WorkHolds
  <2>3. user'[f] = user[f] \/ user'[f] = "done"
    BY <1>1 DEF Timeout, WorkStarts, TimeoutXchg, TimeoutRemove, TimeoutError, TimeoutSignal, TimeoutPut, Signal
  <2> QED BY <2>1, <2>2, <2>3
<1>3. CASE fence'[f] = fence[f]
  BY <1>1, <1>2, <1>3, LegalSame DEF Allowed
<1>4. CASE fence'[f] = [fence[f] EXCEPT !.signaling = TRUE] \/ fence'[f] = [fence[f] EXCEPT !.error = TRUE]
  <2>1. /\ fence'[f] \in Fences /\ fence'[f].refs = fence[f].refs /\ fence'[f].goal = fence[f].goal
        /\ fence'[f].signaled = fence[f].signaled /\ fence'[f].late = fence[f].late
    BY <1>1, <1>4 DEF Fences
  <2> QED BY <1>1, <1>2, <2>1, LegalSame DEF Allowed
<1>5. CASE Put(f) /\ ((Timed(f) /\ ~TimeoutWon(f)) \/ In(f))
  <2>1. fence'[f] = Less(fence[f])
    BY <1>1, <1>5 DEF Put
  <2>2. In(f) => fence[f].refs > 1
    BY <1>2, WorkHolds, State DEF Counted
  <2>3. fence[f].refs = 1 => fence[f].signaled
    BY <1>2, <1>5, <2>2, LastReference
  <2> QED BY <1>1, <1>2, <2>1, <2>3, LegalPut DEF Allowed
<1>6. CASE TimeoutSignal(f)
  <2>1. work[f] = "signal" /\ Signal(f) /\ fence[f].error
    BY <1>6, State DEF TimeoutSignal, WorkAt, Errors
  <2>2. CallsBack(f) => fence[f].refs # 1
    BY <1>2, State DEF CallsBack, Counted, Holding, Timed
  <2> QED BY <1>2, <2>1, <2>2, LegalSignal
<1>7. CASE WorkStarts(f) \/ TimeoutError(f)
  BY <1>1, <1>3, <1>4, <1>7 DEF WorkStarts, TimeoutError
<1>8. CASE TimeoutXchg(f)
  <2>1. ~TimeoutWon(f)
    BY <1>8 DEF TimeoutXchg, WorkAt, TimeoutWon
  <2> QED BY <1>1, <1>3, <1>4, <1>5, <1>8, <2>1 DEF TimeoutXchg
<1>9. CASE TimeoutRemove(f)
  BY <1>3, <1>5, <1>9, ListedIn DEF TimeoutRemove
<1>10. CASE TimeoutPut(f)
  <2>1. ~TimeoutWon(f) /\ Timed(f) /\ Put(f)
    BY <1>10, State DEF TimeoutPut, WorkAt, TimeoutWon, Signalled
  <2> QED BY <1>5, <2>1
<1> QED BY <1>6, <1>7, <1>8, <1>9, <1>10 DEF Timeout

\* A step of Timeline: one fence changes as Timeline allows, or none at all.
OneLegal ==
  \/ UNCHANGED <<fence, user>>
  \/ \E f \in Fence : /\ Allowed(f)
                      /\ \A g \in Fence \ {f} : fence'[g] = fence[g] /\ user'[g] = user[g]

\* What the handler does to the fence it has taken, Timeline allows.
LEMMA LegalIsr ==
  ASSUME FInv, Isr
  PROVE  OneLegal
<1>1. CASE IsrStart \/ IsrDisable \/ Load(None) \/ IsrLock \/ IsrTake \/ IsrDone
  BY <1>1 DEF IsrStart, IsrDisable, Load, LoadMin, LoadHw, LoadSwap, IsrLock, IsrTake, IsrDone, OneLegal
<1>2. CASE Handling /\ (IsrXchg \/ IsrCancel \/ IsrSignal \/ IsrPut)
  <2>1. isr.fence \in Fence
    BY <1>2 DEF FInv, Types, Walking
  <2>2. PICK f \in Fence : isr.fence = f
    BY <2>1
  <2>3. /\ fence[f] \in Fences /\ fence[f].refs \in Nat /\ f \in DOMAIN fence
        /\ fence = [h \in Fence |-> fence[h]] /\ user = [h \in Fence |-> user[h]]
        /\ f \in DOMAIN user
    <3> HIDE DEF Fences
    <3> QED BY State DEF FInv, Types
  <2>4. /\ Taken(f) /\ fence[f].goal <= total /\ fence[f].refs > 0
        /\ user[f] # "created" /\ user'[f] # "created"
    <3>1. Taken(f) /\ fence[f].goal <= total /\ fence[f].refs > 0
      BY <1>2, <2>2, TakenFacts
    <3>2. user[f] # "created"
      BY <3>1, State DEF Counted
    <3>3. user'[f] = user[f] \/ user'[f] = "done"
      BY <1>2, <2>2, <2>3 DEF IsrXchg, IsrCancel, IsrSignal, IsrPut, Signal
    <3> QED BY <3>1, <3>2, <3>3
  <2>5. \A g \in Fence \ {f} : fence'[g] = fence[g] /\ user'[g] = user[g]
    BY <1>2, <2>2, <2>3 DEF IsrXchg, IsrCancel, IsrSignal, IsrPut, Put, Signal
  <2>6. CASE IsrXchg
    <3>1. fence'[f] = [fence[f] EXCEPT !.signaling = TRUE]
      BY <2>2, <2>3, <2>6 DEF IsrXchg
    <3>2. /\ fence'[f] \in Fences /\ fence'[f].refs = fence[f].refs /\ fence'[f].goal = fence[f].goal
          /\ fence'[f].signaled = fence[f].signaled /\ fence'[f].late = fence[f].late
      BY <2>3, <3>1 DEF Fences
    <3> QED BY <2>3, <2>4, <2>5, <3>2, LegalSame DEF Allowed, OneLegal
  <2>7. CASE IsrCancel
    <3>1. CASE Timed(f) /\ work[f] = "pending"
      <4>1. fence'[f] = Less(fence[f]) /\ fence[f].refs # 1
        BY <2>2, <2>3, <2>4, <2>7, <3>1, State DEF IsrCancel, WorkAt, Put, Counted, Taken
      <4> QED BY <2>3, <2>4, <2>5, <4>1, LegalPut DEF Allowed, OneLegal
    <3>2. CASE ~(Timed(f) /\ work[f] = "pending")
      BY <2>2, <2>7, <3>2 DEF IsrCancel, WorkAt, OneLegal
    <3> QED BY <3>1, <3>2
  <2>8. CASE IsrSignal
    <3>1. CallsBack(f) => fence[f].refs # 1
      BY <2>3, <2>4, State DEF CallsBack, Counted, Holding
    <3> QED BY <2>2, <2>4, <2>5, <2>8, <3>1, LegalSignal DEF IsrSignal, OneLegal
  <2>9. CASE IsrPut
    <3>1. fence'[f] = Less(fence[f]) /\ isr.step = "put"
      BY <2>2, <2>3, <2>9 DEF IsrPut, Put, At
    <3>2. fence[f].refs = 1 => fence[f].signaled
      BY <2>4, <3>1, LastReference
    <3> QED BY <2>3, <2>4, <2>5, <3>1, <3>2, LegalPut DEF Allowed, OneLegal
  <2> QED BY <1>2, <2>6, <2>7, <2>8, <2>9
<1>3. IsrXchg \/ IsrCancel \/ IsrSignal \/ IsrPut => Handling
  BY DEF IsrXchg, IsrCancel, IsrSignal, IsrPut, At, Handling
<1> QED BY <1>1, <1>2, <1>3 DEF Isr

\* A step of one fence is a step of Timeline if that fence changes as Timeline allows.
LEMMA LegalOthers ==
  ASSUME NEW f \in Fence, Allowed(f),
         \A g \in Fence : g # f => fence'[g] = fence[g] /\ user'[g] = user[g]
  PROVE  OneLegal
BY DEF OneLegal

\* Every step lets at most one fence change, and the counter only when none does.
LEMMA LegalStep ==
  ASSUME DInv, [DoorbellNext]_dvars
  PROVE  (OneLegal /\ total' = total) \/ (UNCHANGED <<fence, user>> /\ total' = total + 1)
<1> DEFINE Goal == (OneLegal /\ total' = total) \/ (UNCHANGED <<fence, user>> /\ total' = total + 1)
<1> SUFFICES Goal
  OBVIOUS
<1>1. CASE \E f \in Fence : User(f) \/ Timeout(f)
  <2>1. PICK f \in Fence : User(f) \/ Timeout(f)
    BY <1>1
  <2>2. OneLegal
    BY <2>1, LegalUser, LegalTimeout, OneFence, LegalOthers DEF DInv
  <2>3. User(f) => total' = total
    BY DEF User, Proceed, BeginWait, CreateTimed, Create, Look, Load, LoadMin, LoadHw,
       LoadSwap, Woken, Interrupted, WaitReturns, Leave, Close, Cancelled, Arm, IsSignaled, Cancel, counter
  <2>4. Timeout(f) => total' = total
    BY DEF Timeout, WorkStarts, TimeoutXchg, TimeoutRemove, TimeoutError, TimeoutSignal, TimeoutPut,
       counter
  <2> QED BY <2>1, <2>2, <2>3, <2>4
<1>2. CASE Isr
  <2>1. total' = total
    BY <1>2 DEF Isr, IsrStart, IsrDisable, Load, LoadMin, LoadHw, LoadSwap, IsrLock,
       IsrTake, IsrDone, IsrXchg, IsrCancel, IsrSignal, IsrPut, counter
  <2> QED BY <1>2, <2>1, LegalIsr DEF DInv
<1>3. CASE Increment \/ SystemSleeps \/ Resume
  BY <1>3 DEF Increment, SystemSleeps, Suspend, Resume, OneLegal
<1>4. CASE UNCHANGED vars
  BY <1>4 DEF vars, counter, OneLegal
<1>5. ASSUME NEW f \in Fence, LetGo(f) PROVE Goal
  <2>1. fence[f] \in Fences /\ fence[f].refs > 0 /\ fence[f].signaled /\ user[f] = "armed"
    BY <1>5, State DEF DInv, LetGo, UserAt, Counted, Holding
  <2>2. /\ fence'[f] = Less(fence[f]) /\ user'[f] = "done"
        /\ \A g \in Fence : g # f => fence'[g] = fence[g] /\ user'[g] = user[g]
    BY <1>5 DEF LetGo, Put, UserTo, DInv, FInv, Types
  <2>3. Allowed(f)
    BY <2>1, <2>2, LegalPut DEF Allowed
  <2> QED BY <1>5, <2>2, <2>3, LegalOthers DEF LetGo, counter
<1>6. ASSUME NEW f \in Fence, NEW goal, Create(f, goal) PROVE Goal
  <2>1. \A g \in Fence : g # f => fence'[g] = fence[g] /\ user'[g] = user[g]
    BY <1>6 DEF Create, UserTo, DInv, FInv, Types
  <2> QED BY <1>6, <2>1, LegalCreate, LegalOthers DEF Create, counter, DInv
<1>7. ASSUME NEW f \in Fence, Arm(f) PROVE Goal
  <2>1. \A g \in Fence : g # f => fence'[g] = fence[g] /\ user'[g] = user[g]
    BY <1>7 DEF Arm, EnableSignaling, UserTo, DInv, FInv, Types
  <2> QED BY <1>7, <2>1, LegalArm, LegalOthers DEF Arm, counter, DInv
<1>8. ASSUME NEW f \in Fence, Cancel(f) PROVE Goal
  <2>1. /\ fence'[f] = [fence[f] EXCEPT !.cb = FALSE] /\ fence[f] \in Fences
        /\ user[f] = "armed" /\ user'[f] = "cancel"
        /\ \A g \in Fence : g # f => fence'[g] = fence[g] /\ user'[g] = user[g]
    BY <1>8, State DEF Cancel, UserAt, UserTo, DInv, FInv, Types
  <2>2. Allowed(f)
    BY <2>1, LegalCalm
  <2> QED BY <1>8, <2>1, <2>2, LegalOthers DEF Cancel, counter
<1>9. cur \in Fence \cup {None} /\ new \in Fence \cup {None} /\ Mine \subseteq Fence
       /\ (step = "add" => new \in Fence)
  BY FenceAssumption DEF DInv, Bell, Mine
<1>10. CASE Ringer
  <2>1. CASE WorkRuns
    BY <1>4, <2>1 DEF WorkRuns
  <2>2. CASE WorkLocked
    BY <1>4, <1>5, <1>9, <2>2 DEF WorkLocked, vars
  <2>3. CASE AllocateFence
    BY <1>6, <1>9, <2>3 DEF AllocateFence
  <2>4. CASE AddCallback
    BY <1>7, <1>9, <2>4 DEF AddCallback
  <2> QED BY <1>10, <2>1, <2>2, <2>3, <2>4 DEF Ringer
<1>11. CASE Release
  BY <1>4, <1>5, <1>8, <1>9, <1>11 DEF Release, FreeSyncpoint
<1>12. CASE AllocateFails \/ Freer \/ UNCHANGED dvars
  BY <1>4, <1>12 DEF AllocateFails, Freer, FenceCancelled, Gone, dvars
<1> QED BY <1>1, <1>2, <1>3, <1>10, <1>11, <1>12 DEF DoorbellNext, Next

\* What Timeline sees of all fences.
GoalsSeen == [f \in Fence |-> GoalOf(fence[f])]
StatusSeen == [f \in Fence |-> StatusOf(fence[f], user[f])]

\* The steps of Timeline in terms of the fences.
LEMMA StepSeen ==
  ASSUME NEW f \in Fence, Allowed(f), total' = total, fence' \in [Fence -> Fences],
         \A g \in Fence \ {f} : fence'[g] = fence[g] /\ user'[g] = user[g]
  PROVE  \/ UNCHANGED <<GoalsSeen, StatusSeen>>
         \/ /\ StatusSeen[f] = "free"
            /\ GoalsSeen' \in [Fence -> Int]
            /\ \A g \in Fence \ {f} : GoalsSeen'[g] = GoalsSeen[g]
            /\ StatusSeen' = [StatusSeen EXCEPT ![f] = "new"]
         \/ /\ StatusSeen[f] = "new" /\ GoalsSeen' = GoalsSeen
            /\ StatusSeen' = [StatusSeen EXCEPT ![f] = "pending"]
         \/ /\ StatusSeen[f] \in {"new", "pending"} /\ GoalsSeen[f] <= total /\ GoalsSeen' = GoalsSeen
            /\ StatusSeen' = [StatusSeen EXCEPT ![f] = "reached"]
         \/ /\ StatusSeen[f] = "pending" /\ GoalsSeen' = GoalsSeen
            /\ StatusSeen' = [StatusSeen EXCEPT ![f] = "late"]
         \/ /\ StatusSeen[f] \in {"new", "reached", "late"}
            /\ GoalsSeen' = [GoalsSeen EXCEPT ![f] = 0]
            /\ StatusSeen' = [StatusSeen EXCEPT ![f] = "free"]
<1>1. /\ StatusSeen' = [StatusSeen EXCEPT ![f] = StatusOf(fence'[f], user'[f])]
      /\ GoalsSeen' = [GoalsSeen EXCEPT ![f] = GoalOf(fence'[f])]
      /\ StatusSeen[f] = StatusOf(fence[f], user[f]) /\ GoalsSeen[f] = GoalOf(fence[f])
  BY DEF StatusSeen, GoalsSeen, StatusOf, GoalOf
<1>2. /\ GoalsSeen = [GoalsSeen EXCEPT ![f] = GoalsSeen[f]]
      /\ StatusSeen = [StatusSeen EXCEPT ![f] = StatusSeen[f]]
  BY DEF GoalsSeen, StatusSeen
<1>3. GoalsSeen' \in [Fence -> Int] /\ \A g \in Fence \ {f} : GoalsSeen'[g] = GoalsSeen[g]
  <2>1. \A g \in Fence : GoalOf(fence'[g]) \in Int
    BY Fields, CounterRange DEF GoalOf, Goals
  <2> QED BY <2>1 DEF GoalsSeen, GoalOf
<1>4. StatusOf(fence'[f], user'[f]) = "free" => GoalOf(fence'[f]) = 0
  BY DEF StatusOf, GoalOf
<1> QED BY <1>1, <1>2, <1>3, <1>4 DEF Allowed, Legal

\* Every step of the fences and the doorbell is a step of Timeline or none.
LEMMA TimelineStep ==
  ASSUME DInv, [DoorbellNext]_dvars
  PROVE  [Promise!TimelineNext]_(Promise!tvars)
<1>1. fence' \in [Fence -> Fences]
  <2> HIDE DEF Fences
  <2> QED BY DoorbellStep DEF DInv, FInv, Types
<1>2. (OneLegal /\ total' = total) \/ (UNCHANGED <<fence, user>> /\ total' = total + 1)
  BY LegalStep
<1>3. CASE UNCHANGED <<fence, user>>
  BY <1>2, <1>3 DEF Promise!TimelineNext, Promise!Tick, Promise!tvars
<1>4. CASE total' = total /\ ~UNCHANGED <<fence, user>>
  <2>1. PICK f \in Fence : /\ Allowed(f)
                           /\ \A g \in Fence \ {f} : fence'[g] = fence[g] /\ user'[g] = user[g]
    BY <1>2, <1>4 DEF OneLegal
  <2>2. \/ UNCHANGED Promise!tvars
        \/ Promise!Create(f) \/ Promise!Await(f) \/ Promise!Reach(f) \/ Promise!GiveUp(f) \/ Promise!Free(f)
    BY <1>1, <1>4, <2>1, StepSeen DEF GoalsSeen, StatusSeen, GoalOf, StatusOf, Promise!tvars, Promise!Create,
       Promise!Await, Promise!Reach, Promise!GiveUp, Promise!Free, Promise!Become
  <2> QED BY <2>2 DEF Promise!TimelineNext
<1> QED BY <1>2, <1>3, <1>4

\* A fence is signalled at most once, as reached only when the counter has
\* reached its goal, and once it is waited for not freed before: the fences of a syncpoint implement
\* Timeline, where nothing wraps and nobody reads a stale counter.
THEOREM KeepsTimeline == DoorbellSpec => TimelineSpec
<1>1. DoorbellInit => Promise!TimelineInit
  BY FreedFacts DEF DoorbellInit, Init, Promise!TimelineInit
<1>2. DInv /\ [DoorbellNext]_dvars => [Promise!TimelineNext]_(Promise!tvars)
  BY TimelineStep
<1> QED BY <1>1, <1>2, Invariance, PTL DEF DoorbellSpec, TimelineSpec, Promise!TimelineSpec
=============================================================================
