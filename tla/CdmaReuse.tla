------------------------------ MODULE CdmaReuse ------------------------------
(***************************************************************************)
(* A ring that is smaller than its jobs: theorems about Cdma while nothing *)
(* hangs and no counter wraps.  Slots are used again, submissions wait for *)
(* them, and neither overtakes the engine.                                 *)
(***************************************************************************)
EXTENDS CdmaOrder

-----------------------------------------------------------------------------
(* The inductive invariant.                                                *)

\* Slots in use, up to a position and in all.
Use == [k \in Positions |-> Dist(k, (pb.fence + 1) % Ring)]
Fill == Use[pb.pos]

\* The jobs that have slots: where they begin, and where their work is.
Held == Elems(queue) \cup (IF sub.step = "idle" THEN {} ELSE {sub.job})
From(j) == Use[IF j = sub.job THEN sub.first ELSE job[j].first]
Work(j) == IF j = sub.job THEN Fill - Filled(sub.i) ELSE From(j) + job[j].slots - 4

\* They have them one after the other, four each and perhaps padding.
Earlier(j) == {i \in Elems(queue) : i < j}
Packed ==
  /\ \A j \in Held : From(j) = SlotsOf(job, Earlier(j))
  /\ \A j \in Elems(queue) : job[j].slots \in {4, 5}
  /\ sub.step # "idle" => /\ sub.used \in {Filled(sub.i), Filled(sub.i) + 1}
                          /\ sub.i \in 1..4 /\ (sub.i = 1 => sub.used = 0) /\ (sub.step = "end" => sub.i = 4)

\* What is in a slot follows from its place.
Parts == [n \in -1..3 |-> IF n = -1 THEN "pad" ELSE IF n = 0 THEN "work" ELSE IF n = 1 THEN "arg"
                          ELSE IF n = 2 THEN "final" ELSE "release"]
Owns(j, k) ==
  /\ From(j) <= Use[k] /\ Use[k] - Work(j) \in -1..3
  /\ mem[k] = [job |-> j, op |-> Parts[Use[k] - Work(j)]]
  /\ (Use[k] = Work(j) - 1 => k = Ring - 1) /\ (Use[k] = Work(j) => k # Ring - 1)
Owned == \A k \in Positions : Use[k] < Fill => \E j \in Held : Owns(j, k)

\* The engine is among the slots in use, not in the middle of a command, and not past
\* the work of a job before its submission is over.
Engine ==
  dma.on => /\ Use[dma.get] <= Use[dma.put] /\ Use[dma.put] <= Fill
            /\ \A j \in Held : Use[dma.get] # Work(j) + 1 /\ Use[dma.put] # Work(j) + 1
            /\ \A j \in Elems(queue) : Work(j) + 4 <= Use[dma.put]
            /\ sub.step # "idle" => Use[dma.get] <= Work(sub.job) + 2

\* The counter tells where it is.
Reaches(j) ==
  /\ Use[dma.get] <= Work(j) => Value(j) < job[j].end
  /\ Use[dma.get] <= Work(j) + 2 => Value(j) <= job[j].end
  /\ Use[dma.get] >= Work(j) + 2 => Value(j) >= job[j].end /\ "work" \in job[j].ran
  /\ Use[dma.get] >= Work(j) + 3 => Value(j) > job[j].end
Paced ==
  /\ \A j \in Held : Reaches(j)
  /\ \A j \in Job : Gone(j) => Value(j) > job[j].end /\ "work" \in job[j].ran
  /\ WholeJobs

\* Nobody fails, and the engine goes on while there are jobs.
Still ==
  /\ handler = 0 /\ ~hung /\ \A s \in Syncpt : ~sp[s].locked
  /\ \A j \in Job : /\ ~job[j].cancelled /\ ~job[j].failed /\ job[j].fence # "missed"
                    /\ job[j].step \in {"new", "refused", "submit"} => job[j].fence = "none"
  /\ ~dma.on => sub.step = "idle" /\ queue = <<>>
  /\ stop \in {"check", "sleep"} => sub.step = "idle"

\* The first job in the queue has its timer running, and its fence is pending unless
\* the CPU is about to look.
Watched ==
  /\ \A j \in Job : job[j].timed
  /\ \A j \in Elems(queue) : job[j].fence # "pending" => sp[Sp(j)].min >= job[j].thresh
  /\ timer = IF queue = <<>> THEN [client |-> 0, pending |-> FALSE]
             ELSE [client |-> queue[1], pending |-> TRUE]
  /\ queue # <<>> /\ ~update => job[queue[1]].fence = "pending"

Even == Numbers /\ Turns /\ Watched /\ Still /\ Packed /\ Owned /\ Engine /\ Paced
EInv == Undisturbed /\ NoWrap => Even
EHyp == CInv /\ Undisturbed /\ NoWrap /\ Even
-----------------------------------------------------------------------------
(* Positions, counted from the first slot in use.                          *)

LEMMA RingMinus ==
  ASSUME NEW N \in Nat, N > 0, NEW x \in 0..(N - 1), NEW y \in 0..(N - 1)
  PROVE  (x - y) % N = IF x >= y THEN x - y ELSE x - y + N
<1>1. x - y \in Int /\ x - y < N /\ 0 - N <= x - y
  OBVIOUS
<1> QED BY <1>1, RingFacts

LEMMA RingPlus ==
  ASSUME NEW N \in Nat, N > 0, NEW x \in Int, 0 <= x, x < 2 * N
  PROVE  x % N = IF x < N THEN x ELSE x - N
BY RingFacts

LEMMA UseFacts ==
  ASSUME Types
  PROVE  /\ Ring \in Nat /\ Ring > 5 /\ Positions = 0..(Ring - 1)
         /\ pb.pos \in Positions /\ pb.fence \in Positions /\ (pb.fence + 1) % Ring \in Positions
         /\ \A k \in Positions : Use[k] \in 0..(Ring - 1)
         /\ \A k, n \in Positions : Use[k] = Use[n] => k = n
         /\ Fill \in 0..(Ring - 1)
<1> DEFINE b == (pb.fence + 1) % Ring
<1>1. Ring \in Nat /\ Ring > 5 /\ Positions = 0..(Ring - 1)
  BY RingSize DEF Positions
<1>2. pb.pos \in Positions /\ pb.fence \in Positions
  BY DEF Types
<1>3. b \in Positions
  <2>1. pb.fence + 1 \in Int
    BY <1>1, <1>2
  <2> QED BY <1>1, <2>1, RingFacts
<1> HIDE DEF b
<1>4. ASSUME NEW k \in Positions PROVE Use[k] = IF k >= b THEN k - b ELSE k - b + Ring
  <2>1. Use[k] = (k - b) % Ring
    BY DEF Use, Dist, b
  <2>2. k - b \in Int /\ k - b < Ring /\ 0 - Ring <= k - b
    BY <1>1, <1>3
  <2> QED BY <1>1, <1>3, <2>1, <2>2, RingFacts
<1>5. \A k \in Positions : Use[k] \in 0..(Ring - 1)
  BY <1>1, <1>3, <1>4
<1>6. \A k, n \in Positions : Use[k] = Use[n] => k = n
  BY <1>1, <1>3, <1>4
<1> QED BY <1>1, <1>2, <1>3, <1>5, <1>6 DEF Fill, b

LEMMA UseStep ==
  ASSUME Types, NEW k \in Positions, NEW n \in Nat, Use[k] + n < Ring
  PROVE  (k + n) % Ring \in Positions /\ Use[(k + n) % Ring] = Use[k] + n
<1> DEFINE b == (pb.fence + 1) % Ring
           m == (k + n) % Ring
<1>1. Ring \in Nat /\ Ring > 0 /\ Positions = 0..(Ring - 1) /\ b \in 0..(Ring - 1) /\ k \in 0..(Ring - 1)
  BY UseFacts
<1>2. Use[k] = (k - b) % Ring
  BY DEF Use, Dist
<1>3. n + ((k - b) % Ring) < Ring
  BY <1>1, <1>2, UseFacts
<1> HIDE DEF b
<1>4. m \in 0..(Ring - 1) /\ (m - b) % Ring = ((k - b) % Ring) + n
  BY <1>1, <1>3, Moves
<1>5. Use[m] = (m - b) % Ring
  BY <1>1, <1>4 DEF Use, Dist, b
<1> QED BY <1>1, <1>2, <1>4, <1>5

LEMMA UseDist ==
  ASSUME Types, NEW f \in Positions, NEW k \in Positions
  PROVE  Dist(k, f) = IF Use[f] <= Use[k] THEN Use[k] - Use[f] ELSE Use[k] - Use[f] + Ring
<1> DEFINE b == (pb.fence + 1) % Ring
<1>1. Ring \in Nat /\ Ring > 0 /\ Positions = 0..(Ring - 1) /\ b \in Positions
  BY UseFacts
<1>2. Use[k] = (k - b) % Ring /\ Use[f] = (f - b) % Ring
  BY DEF Use, Dist
<1> HIDE DEF b
<1>3. \A x, y \in Positions : (x - y) % Ring = IF x >= y THEN x - y ELSE x - y + Ring
  <2> SUFFICES ASSUME NEW x \in Positions, NEW y \in Positions
               PROVE  (x - y) % Ring = IF x >= y THEN x - y ELSE x - y + Ring
    OBVIOUS
  <2>1. x - y \in Int /\ x - y < Ring /\ 0 - Ring <= x - y /\ x \in Int /\ y \in Int
    BY <1>1
  <2> QED BY <1>1, <2>1, RingFacts
<1>4. /\ Use[k] = (IF k >= b THEN k - b ELSE k - b + Ring)
      /\ Use[f] = (IF f >= b THEN f - b ELSE f - b + Ring)
      /\ Dist(k, f) = (IF k >= f THEN k - f ELSE k - f + Ring)
  BY <1>1, <1>2, <1>3 DEF Dist
<1> QED BY <1>1, <1>4

LEMMA UseFill ==
  ASSUME CInv
  PROVE  /\ Fill = Ring - 1 - Space /\ Fill = sub.used + SlotsOf(job, Elems(queue))
         /\ Space \in 0..(Ring - 1) /\ SlotsOf(job, Elems(queue)) \in Nat /\ sub.used \in Nat /\ Types
<1>1. /\ Types /\ Ring \in Nat /\ Ring > 5 /\ Positions = 0..(Ring - 1) /\ pb.pos \in Positions /\ pb.fence \in Positions
      /\ (pb.fence + 1) % Ring \in Positions
  BY UseFacts DEF CInv
<1>2. pb.pos \in Int /\ pb.fence \in Int /\ Fill = (pb.pos - ((pb.fence + 1) % Ring)) % Ring
  <2>1. Fill = (pb.pos - ((pb.fence + 1) % Ring)) % Ring
    BY <1>1 DEF Fill, Use, Dist
  <2> QED BY <1>1, <2>1
<1>3. Space = (pb.fence - pb.pos) % Ring
  BY DEF Space, Dist
<1>4. (pb.fence + 1) % Ring = IF pb.fence = Ring - 1 THEN 0 ELSE pb.fence + 1
  <2>1. pb.fence + 1 \in Int /\ 0 <= pb.fence + 1 /\ pb.fence + 1 <= Ring
    BY <1>1
  <2>2. pb.fence = Ring - 1 => pb.fence + 1 = Ring /\ pb.fence + 1 < 2 * Ring
    BY <1>1
  <2>3. pb.fence # Ring - 1 => pb.fence + 1 < Ring
    BY <1>1
  <2>4. CASE pb.fence = Ring - 1
    <3>1. (pb.fence + 1) % Ring = pb.fence + 1 - Ring
      BY <1>1, <2>1, <2>2, <2>4, RingFacts
    <3> QED BY <1>1, <2>2, <2>4, <3>1
  <2>5. CASE pb.fence # Ring - 1
    BY <1>1, <2>1, <2>3, <2>5, RingFacts
  <2> QED BY <2>4, <2>5
<1>5. (pb.fence - pb.pos) % Ring = IF pb.fence >= pb.pos THEN pb.fence - pb.pos ELSE pb.fence - pb.pos + Ring
  <2> DEFINE x == pb.pos
             f == pb.fence
  <2>1. x \in 0..(Ring - 1) /\ f \in 0..(Ring - 1) /\ Ring > 0
    BY <1>1
  <2> HIDE DEF x, f
  <2>2. (f - x) % Ring = IF f >= x THEN f - x ELSE f - x + Ring
    BY <1>1, <2>1, RingMinus
  <2> QED BY <2>2 DEF x, f
<1>6. Fill = Ring - 1 - Space
  <2> DEFINE b == (pb.fence + 1) % Ring
             x == pb.pos
             f == pb.fence
             fill == Fill
             space == Space
  <2>1. b \in 0..(Ring - 1) /\ x \in 0..(Ring - 1) /\ f \in 0..(Ring - 1) /\ fill = (x - b) % Ring
        /\ b = (IF f = Ring - 1 THEN 0 ELSE f + 1) /\ space = (IF f >= x THEN f - x ELSE f - x + Ring)
    BY <1>1, <1>2, <1>3, <1>4, <1>5
  <2> HIDE DEF b, x, f, fill, space
  <2>2. x - b \in Int /\ x - b < Ring /\ 0 - Ring <= x - b
    BY <1>1, <2>1
  <2>3. fill = IF x >= b THEN x - b ELSE x - b + Ring
    BY <1>1, <2>1, <2>2, RingFacts
  <2>4. fill = Ring - 1 - space
    BY <1>1, <2>1, <2>3
  <2> QED BY <2>4 DEF fill, space
<1> QED BY <1>1, <1>6, SpaceFacts

\* What is freed lies before the rest.
LEMMA UseFreed ==
  ASSUME Types, scene' = scene, NEW n \in 0..(Ring - 1), pb'.fence = (pb.fence + n) % Ring
  PROVE  /\ Ring' = Ring /\ Positions' = Positions
         /\ \A k \in Positions : Use'[k] = IF Use[k] >= n THEN Use[k] - n ELSE Use[k] - n + Ring
<1> DEFINE N == Ring
           f == pb.fence
           b == (f + 1) % N
           g == (f + n) % N
           c == (g + 1) % N
<1>1. /\ Ring \in Nat /\ Ring > 5 /\ Positions = 0..(Ring - 1) /\ pb.fence \in 0..(Ring - 1)
      /\ Ring' = Ring /\ Positions' = Positions
  BY UseFacts DEF Ring, Positions
<1>2. ASSUME NEW k \in Positions PROVE Use'[k] = IF Use[k] >= n THEN Use[k] - n ELSE Use[k] - n + Ring
  <2>1. Use[k] = (k - b) % N
    BY DEF Use, Dist
  <2>2. Use'[k] = (k - c) % N
    <3>1. Use'[k] = (k - ((pb'.fence + 1) % Ring)) % Ring
      BY <1>1 DEF Use, Dist
    <3> QED BY <3>1
  <2> DEFINE u == Use[k]
  <2>3. N \in Nat /\ N > 5 /\ f \in 0..(N - 1) /\ n \in 0..(N - 1) /\ k \in 0..(N - 1)
    BY <1>1
  <2>4. b = (f + 1) % N /\ g = (f + n) % N /\ c = (g + 1) % N /\ u = (k - b) % N
    BY <2>1
  <2> HIDE DEF N, f, b, g, c, u
  <2>5. f + 1 \in Int /\ f + n \in Int /\ f + 1 < 2 * N /\ f + n < 2 * N /\ 0 <= f + n /\ 0 <= f + 1 /\ N > 0
    BY <2>3
  <2>6. b = IF f + 1 < N THEN f + 1 ELSE f + 1 - N
    BY <2>3, <2>4, <2>5, RingPlus
  <2>7. g = IF f + n < N THEN f + n ELSE f + n - N
    BY <2>3, <2>4, <2>5, RingPlus
  <2>8. g \in 0..(N - 1)
    BY <2>3, <2>4, <2>7
  <2>9. g + 1 \in Int /\ 0 <= g + 1 /\ g + 1 < 2 * N
    BY <2>3, <2>4, <2>8
  <2>10. c = IF g + 1 < N THEN g + 1 ELSE g + 1 - N
    BY <2>3, <2>4, <2>5, <2>9, RingPlus
  <2>11. b \in 0..(N - 1) /\ c \in 0..(N - 1) /\ c = IF b + n < N THEN b + n ELSE b + n - N
    BY <2>3, <2>4, <2>6, <2>7, <2>8, <2>10
  <2>12. u = IF k >= b THEN k - b ELSE k - b + N
    BY <2>3, <2>4, <2>5, <2>11, RingMinus
  <2>13. (k - c) % N = IF k >= c THEN k - c ELSE k - c + N
    BY <2>3, <2>4, <2>5, <2>11, RingMinus
  <2>14. (k - c) % N = IF u >= n THEN u - n ELSE u - n + N
    BY <2>3, <2>11, <2>12, <2>13
  <2> QED BY <2>2, <2>14 DEF N, u
<1> QED BY <1>1, <1>2

-----------------------------------------------------------------------------
(* Jobs, one after the other.                                              *)

LEMMA SlotsMore ==
  ASSUME NEW jb, Counts(jb), NEW B \in SUBSET Job, NEW A \in SUBSET B
  PROVE  /\ SlotsOf(jb, A) \in Nat /\ SlotsOf(jb, B) \in Nat
         /\ SlotsOf(jb, A) <= SlotsOf(jb, B)
<1>1. A \in SUBSET Job /\ B \ A \in SUBSET Job /\ A \cap (B \ A) = {} /\ A \cup (B \ A) = B
  OBVIOUS
<1>2. SlotsOf(jb, A) \in Nat /\ SlotsOf(jb, B \ A) \in Nat /\ SlotsOf(jb, B) \in Nat
  BY <1>1, SlotsNat
<1>3. SlotsOf(jb, B) = SlotsOf(jb, A) + SlotsOf(jb, B \ A)
  BY <1>1, SlotsBoth
<1> QED BY <1>2, <1>3

\* A queued job with those before it.
LEMMA SlotsBefore ==
  ASSUME CInv, Turns, Packed, NEW i \in Elems(queue)
  PROVE  /\ i \in Job /\ i # sub.job /\ job[i].slots \in {4, 5} /\ Earlier(i) \cup {i} \subseteq Elems(queue)
         /\ From(i) \in Nat /\ From(i) = SlotsOf(job, Earlier(i)) /\ From(i) = Use[job[i].first]
         /\ Work(i) = From(i) + job[i].slots - 4
         /\ SlotsOf(job, Earlier(i) \cup {i}) = Work(i) + 4
<1>1. i \in Job /\ i # sub.job /\ Counts(job) /\ Elems(queue) \subseteq Job /\ i \in Held
  BY SpaceFacts DEF Turns, Held
<1>2. job[i].slots \in {4, 5} /\ From(i) = SlotsOf(job, Earlier(i))
  BY <1>1 DEF Packed
<1>3. Earlier(i) \in SUBSET Job /\ Earlier(i) \cup {i} \in SUBSET Job /\ (Earlier(i) \cup {i}) \ {i} = Earlier(i)
  <2>1. ~(i < i)
    BY <1>1, NumberTypes DEF CInv
  <2> QED BY <1>1, <2>1 DEF Earlier
<1>4. SlotsOf(job, Earlier(i) \cup {i}) = job[i].slots + SlotsOf(job, Earlier(i))
  <2>1. i \in Earlier(i) \cup {i}
    OBVIOUS
  <2> QED BY <1>1, <1>3, <2>1, SlotsAny
<1>5. SlotsOf(job, Earlier(i)) \in Nat
  BY <1>1, <1>3, SlotsNat
<1>6. From(i) = Use[job[i].first] /\ Work(i) = From(i) + job[i].slots - 4
  BY <1>1 DEF From, Work
<1> QED BY <1>1, <1>2, <1>4, <1>5, <1>6 DEF Earlier

LEMMA HeldFacts ==
  ASSUME CInv, Turns, Packed
  PROVE  /\ Held \subseteq Job /\ Elems(queue) \subseteq Held /\ \A j \in Held : j \in Nat
         /\ \A j \in Held : From(j) \in Nat /\ Work(j) \in Nat /\ From(j) <= Work(j)
         /\ \A j \in Elems(queue) : Work(j) <= From(j) + 1 /\ Work(j) + 4 <= Fill /\ j # sub.job
         /\ \A j \in Elems(queue), k \in Held : j < k => Work(j) + 4 <= From(k)
         /\ \A j, k \in Held : j < k => j \in Elems(queue)
         /\ sub.step # "idle" => /\ sub.job \in Held /\ Work(sub.job) + Filled(sub.i) = Fill
                                 /\ From(sub.job) + sub.used = Fill
                                 /\ \A j \in Elems(queue) : j < sub.job
<1>1. Elems(queue) \subseteq Job /\ Counts(job) /\ \A j \in Job : j \in Nat
  BY SpaceFacts, NumberTypes DEF CInv
<1>2. sub.step # "idle" => sub.job \in Job
  BY ReachFacts
<1>3. Held \subseteq Job /\ Elems(queue) \subseteq Held /\ (sub.step # "idle" => sub.job \in Held)
  BY <1>1, <1>2 DEF Held
<1>4. Fill = sub.used + SlotsOf(job, Elems(queue)) /\ sub.used \in Nat /\ SlotsOf(job, Elems(queue)) \in Nat
      /\ Fill \in Nat
  BY UseFill, UseFacts
<1>5. ASSUME NEW j \in Elems(queue)
      PROVE  /\ From(j) \in Nat /\ Work(j) \in Nat /\ From(j) <= Work(j) /\ Work(j) <= From(j) + 1
             /\ Work(j) + 4 <= Fill /\ j # sub.job
  <2>1. /\ job[j].slots \in {4, 5} /\ From(j) \in Nat /\ Work(j) = From(j) + job[j].slots - 4
        /\ SlotsOf(job, Earlier(j) \cup {j}) = Work(j) + 4 /\ Earlier(j) \cup {j} \in SUBSET Elems(queue)
        /\ j # sub.job
    BY SlotsBefore
  <2>2. SlotsOf(job, Earlier(j) \cup {j}) <= SlotsOf(job, Elems(queue))
    BY <1>1, <2>1, SlotsMore
  <2>3. Work(j) + 4 <= Fill
    BY <1>4, <2>1, <2>2
  <2> QED BY <2>1, <2>3
<1>6. ASSUME NEW j \in Elems(queue), NEW k \in Held, j < k PROVE Work(j) + 4 <= From(k)
  <2>1. SlotsOf(job, Earlier(j) \cup {j}) = Work(j) + 4 /\ Earlier(j) \cup {j} \subseteq Elems(queue)
    BY SlotsBefore
  <2>2. Earlier(j) \cup {j} \in SUBSET Earlier(k)
    BY <1>1, <1>3, <1>6, <2>1 DEF Earlier
  <2>3. Earlier(k) \in SUBSET Job
    BY <1>1 DEF Earlier
  <2>4. SlotsOf(job, Earlier(j) \cup {j}) <= SlotsOf(job, Earlier(k))
    BY <1>1, <2>2, <2>3, SlotsMore
  <2>5. From(k) = SlotsOf(job, Earlier(k))
    BY DEF Packed
  <2> QED BY <2>1, <2>4, <2>5
<1>7. ASSUME sub.step # "idle"
      PROVE  /\ Work(sub.job) + Filled(sub.i) = Fill /\ From(sub.job) + sub.used = Fill
             /\ From(sub.job) \in Nat /\ Work(sub.job) \in Nat /\ From(sub.job) <= Work(sub.job)
             /\ \A j \in Elems(queue) : j < sub.job
  <2>1. \A j \in Elems(queue) : j < sub.job
    <3>1. \A j \in Elems(queue) : j \in Nat /\ j <= sub.job /\ j # sub.job /\ sub.job \in Nat
      BY <1>1, <1>2, <1>7 DEF Turns
    <3> QED BY <3>1
  <2>2. Earlier(sub.job) = Elems(queue)
    BY <2>1 DEF Earlier
  <2>3. From(sub.job) = SlotsOf(job, Elems(queue))
    BY <1>3, <1>7, <2>2 DEF Packed
  <2>4. Work(sub.job) = Fill - Filled(sub.i)
    BY DEF Work
  <2>5. Filled(sub.i) \in Nat /\ sub.used >= Filled(sub.i)
    <3>1. sub.i \in 1..4 /\ sub.used \in {Filled(sub.i), Filled(sub.i) + 1}
      BY <1>7 DEF Packed
    <3>2. Filled(sub.i) \in Nat
      BY <3>1 DEF Filled
    <3> QED BY <3>1, <3>2
  <2> QED BY <1>4, <2>1, <2>3, <2>4, <2>5
<1>8. ASSUME NEW j \in Held, NEW k \in Held, j < k PROVE j \in Elems(queue)
  <2> SUFFICES ASSUME sub.step # "idle", j = sub.job PROVE FALSE
    BY DEF Held
  <2>1. k \in Elems(queue) \/ k = sub.job
    BY DEF Held
  <2>2. j \in Nat /\ k \in Nat
    BY <1>1, <1>3
  <2> QED BY <1>7, <1>8, <2>1, <2>2
<1>9. \A j \in Held : From(j) \in Nat /\ Work(j) \in Nat /\ From(j) <= Work(j)
  BY <1>5, <1>7 DEF Held
<1> QED BY <1>1, <1>3, <1>5, <1>6, <1>7, <1>8, <1>9

\* Every slot in use has one owner.
LEMMA Owner ==
  ASSUME CInv, Turns, Packed, Owned, NEW k \in Positions, Use[k] < Fill
  PROVE  \E j \in Held :
           /\ Owns(j, k) /\ From(j) <= Use[k] /\ Use[k] - Work(j) \in -1..3 /\ Use[k] \in Nat
           /\ mem[k] = [job |-> j, op |-> Parts[Use[k] - Work(j)]]
           /\ \A i \in Held : /\ i < j => Work(i) + 4 <= Use[k]
                              /\ j < i => j \in Elems(queue) /\ Work(j) + 4 <= From(i)
                              /\ i = j \/ i < j \/ j < i
<1>1. PICK j \in Held : Owns(j, k)
  BY DEF Owned
<1>2. From(j) <= Use[k] /\ Use[k] - Work(j) \in -1..3 /\ mem[k] = [job |-> j, op |-> Parts[Use[k] - Work(j)]]
  BY <1>1 DEF Owns
<1>3. Use[k] \in Nat
  BY UseFacts DEF CInv
<1>4. ASSUME NEW i \in Held
      PROVE  /\ i < j => Work(i) + 4 <= Use[k]
             /\ j < i => j \in Elems(queue) /\ Work(j) + 4 <= From(i)
             /\ i = j \/ i < j \/ j < i
  <2>1. i \in Nat /\ j \in Nat /\ From(j) \in Nat /\ Work(i) \in Nat
    BY HeldFacts
  <2>2. i < j => i \in Elems(queue) /\ Work(i) + 4 <= From(j)
    BY HeldFacts
  <2>3. j < i => j \in Elems(queue) /\ Work(j) + 4 <= From(i)
    BY HeldFacts
  <2> QED BY <1>2, <1>3, <2>1, <2>2, <2>3
<1> QED BY <1>1, <1>2, <1>3, <1>4

-----------------------------------------------------------------------------
(* Steps that leave the jobs where they are.                               *)

LEMMA EvenTypes ==
  ASSUME EHyp
  PROVE  /\ Types /\ CInv /\ NoWrap /\ Numbers /\ Turns /\ Watched /\ Still /\ Packed /\ Owned /\ Engine /\ Paced
         /\ Submission
         /\ job \in [Job -> Jobs] /\ queue \in Seq(Job) /\ Elems(queue) \subseteq Job /\ Len(queue) \in Nat
         /\ sp \in [Syncpt -> [value : Int, min : Int, max : Int, locked : BOOLEAN]]
         /\ dma \in [get : Positions, put : Positions, on : BOOLEAN]
         /\ timer \in [client : Job \cup {0}, pending : BOOLEAN] /\ scene.hangs = {}
         /\ "slow" \notin env /\ "long" \notin env /\ "early" \notin env /\ "late" \notin env /\ "busy_stop" \notin env
<1>1. CInv /\ Types /\ Submission
  BY DEF EHyp, CInv
<1>2. Elems(queue) \subseteq Job /\ Len(queue) \in Nat /\ queue \in Seq(Job)
  BY <1>1, SpaceFacts, LenProperties DEF Types
<1>3. scene.hangs = {} /\ env \subseteq {"legacy"}
  BY DEF EHyp, Undisturbed
<1> QED BY <1>1, <1>2, <1>3, TypedJobs DEF EHyp, Even

\* The job with which the submission is busy goes on.
Stays ==
  /\ sub'.job = sub.job /\ sub'.i = sub.i /\ sub'.used = sub.used /\ sub'.first = sub.first
  /\ sub'.step = "idle" <=> sub.step = "idle"
  /\ sub'.step = "end" => sub.step = "end"

LEMMA PlacesSame ==
  ASSUME CInv, UNCHANGED <<scene, pb, queue>>, Stays,
         \A j \in Job : job'[j].first = job[j].first /\ job'[j].slots = job[j].slots
  PROVE  /\ Ring' = Ring /\ Positions' = Positions /\ Use' = Use /\ Fill' = Fill /\ Held' = Held
         /\ Elems(queue)' = Elems(queue)
         /\ \A j \in Job : From(j)' = From(j) /\ Work(j)' = Work(j) /\ Earlier(j)' = Earlier(j)
<1>1. Ring' = Ring /\ Positions' = Positions /\ Use' = Use /\ Fill' = Fill /\ Elems(queue)' = Elems(queue)
  BY DEF Ring, Positions, Use, Dist, Fill, Elems
<1>2. Held' = Held
  BY <1>1 DEF Held, Stays
<1>3. ASSUME NEW j \in Job PROVE From(j)' = From(j) /\ Work(j)' = Work(j) /\ Earlier(j)' = Earlier(j)
  <2>1. From(j)' = From(j) /\ Earlier(j)' = Earlier(j)
    BY <1>1 DEF From, Earlier, Stays
  <2> QED BY <1>1, <2>1 DEF Work, Stays
<1> QED BY <1>1, <1>2, <1>3

LEMMA PackedSame ==
  ASSUME CInv, Turns, Packed, Owned, UNCHANGED <<scene, pb, queue, mem>>, Stays, job' \in [Job -> Jobs],
         \A j \in Job : job'[j].first = job[j].first /\ job'[j].slots = job[j].slots
  PROVE  Packed' /\ Owned'
<1>1. /\ Ring' = Ring /\ Positions' = Positions /\ Use' = Use /\ Fill' = Fill /\ Held' = Held
      /\ Elems(queue)' = Elems(queue)
      /\ \A j \in Job : From(j)' = From(j) /\ Work(j)' = Work(j) /\ Earlier(j)' = Earlier(j)
  BY PlacesSame
<1>2. Held \subseteq Job /\ Counts(job) /\ Elems(queue) \subseteq Job
  BY HeldFacts, SpaceFacts
<1>3. Counts(job')
  BY DEF Counts, Jobs
<1>4. ASSUME NEW j \in Job PROVE SlotsOf(job', Earlier(j)) = SlotsOf(job, Earlier(j))
  <2>1. Earlier(j) \in SUBSET Job
    BY <1>2 DEF Earlier
  <2> QED BY <1>2, <1>3, <2>1, SlotsSame
<1>5. \A j \in Held : From(j)' = SlotsOf(job', Earlier(j)')
  BY <1>1, <1>2, <1>4 DEF Packed
<1>6. \A j \in Elems(queue) : job'[j].slots \in {4, 5}
  BY <1>2 DEF Packed
<1>7. Packed'
  BY <1>1, <1>5, <1>6 DEF Packed, Stays
<1>8. \A j \in Held, k \in Positions : Owns(j, k) => Owns(j, k)'
  BY <1>1, <1>2 DEF Owns
<1> QED BY <1>1, <1>7, <1>8 DEF Owned

LEMMA EngineSame ==
  ASSUME CInv, Turns, Packed, Engine, UNCHANGED <<scene, pb, queue>>, Stays,
         \A j \in Job : job'[j].first = job[j].first /\ job'[j].slots = job[j].slots,
         dma'.get = dma.get, dma'.put \in {dma.put, pb.pos}, dma'.on => dma.on
  PROVE  Engine'
<1> SUFFICES ASSUME dma'.on PROVE Engine'
  BY DEF Engine
<1>1. /\ Ring' = Ring /\ Positions' = Positions /\ Use' = Use /\ Fill' = Fill /\ Held' = Held
      /\ Elems(queue)' = Elems(queue)
      /\ \A j \in Job : From(j)' = From(j) /\ Work(j)' = Work(j) /\ Earlier(j)' = Earlier(j)
  BY PlacesSame
<1>2. /\ Held \subseteq Job /\ Elems(queue) \subseteq Held /\ \A j \in Held : Work(j) \in Nat
      /\ \A j \in Elems(queue) : Work(j) + 4 <= Fill
      /\ sub.step # "idle" => sub.job \in Held /\ Work(sub.job) + Filled(sub.i) = Fill
  BY HeldFacts
<1>3. /\ Use[dma.get] <= Use[dma.put] /\ Use[dma.put] <= Fill
      /\ \A j \in Held : Use[dma.get] # Work(j) + 1 /\ Use[dma.put] # Work(j) + 1
      /\ \A j \in Elems(queue) : Work(j) + 4 <= Use[dma.put]
      /\ sub.step # "idle" => Use[dma.get] <= Work(sub.job) + 2
  BY DEF Engine
<1>4. Fill = Use[pb.pos] /\ Fill \in Nat /\ Use[dma.get] \in Nat /\ Use[dma.put] \in Nat
  BY UseFacts DEF Fill, CInv, Types
<1>5. \A j \in Held : Fill # Work(j) + 1
  <2>1. sub.step # "idle" => Filled(sub.i) \in {0, 2, 3, 4}
    BY DEF Packed, Filled
  <2>2. \A j \in Held : j \in Elems(queue) \/ (sub.step # "idle" /\ j = sub.job)
    BY DEF Held
  <2> QED BY <1>2, <1>4, <2>1, <2>2
<1>6. Use[dma'.put] \in {Use[dma.put], Fill}
  BY <1>4
<1>7. /\ Use[dma.get] <= Use[dma'.put] /\ Use[dma'.put] <= Fill
      /\ \A j \in Held : Use[dma'.put] # Work(j) + 1
      /\ \A j \in Elems(queue) : Work(j) + 4 <= Use[dma'.put]
  <2>1. CASE Use[dma'.put] = Use[dma.put]
    BY <1>3, <2>1
  <2>2. CASE Use[dma'.put] = Fill
    BY <1>2, <1>3, <1>4, <1>5, <2>2
  <2> QED BY <1>6, <2>1, <2>2
<1>8. sub'.step # "idle" => Use[dma.get] <= Work(sub.job) + 2 /\ sub.job \in Job
  BY <1>2, <1>3 DEF Stays
<1>9. \A j \in Held : Work(j)' = Work(j)
  BY <1>1, <1>2
<1> QED BY <1>1, <1>2, <1>3, <1>7, <1>8, <1>9 DEF Engine, Stays

LEMMA PacedSame ==
  ASSUME CInv, Turns, Packed, Paced, UNCHANGED <<scene, pb, queue>>, Stays, dma'.get = dma.get,
         \A j \in Job : Kept(j) /\ job'[j].ran = job[j].ran,
         \A s \in Syncpt : sp'[s].value = sp[s].value
  PROVE  Paced'
<1>1. /\ Use' = Use /\ Held' = Held /\ Elems(queue)' = Elems(queue)
      /\ \A j \in Job : Work(j)' = Work(j)
  BY PlacesSame DEF Kept
<1>2. \A j \in Job : Value(j)' = Value(j) /\ Value(j) = sp[Sp(j)].value /\ job'[j].end = job[j].end /\ (Begun(j)' <=> Begun(j))
  BY NumberTypes DEF CInv, Value, Sp, Kept, Alike, Begun
<1>3. Held \subseteq Job
  BY HeldFacts
<1>4. \A j \in Held : Reaches(j)'
  <2> SUFFICES ASSUME NEW j \in Held PROVE Reaches(j)'
    OBVIOUS
  <2>1. Reaches(j) /\ Value(j)' = Value(j) /\ job'[j].end = job[j].end /\ job'[j].ran = job[j].ran /\ Work(j)' = Work(j)
    BY <1>1, <1>2, <1>3 DEF Paced
  <2> QED BY <1>1, <2>1 DEF Reaches
<1>5. \A j \in Job : Gone(j)' => Gone(j)
  BY <1>1, <1>2 DEF Gone, Stays
<1>6. \A j \in Job : Gone(j)' => Value(j)' > job'[j].end /\ "work" \in job'[j].ran
  BY <1>2, <1>5 DEF Paced
<1>7. WholeJobs'
  BY DEF WholeJobs, Paced
<1> QED BY <1>1, <1>4, <1>6, <1>7 DEF Paced

LEMMA QuietEven ==
  ASSUME EHyp, UNCHANGED <<scene, pb, mem, queue, timer, handler, hung>>, Stays,
         dma'.get = dma.get, dma'.put \in {dma.put, pb.pos}, dma'.on => dma.on,
         ~dma'.on => sub.step = "idle" /\ queue = <<>>,
         job' \in [Job -> Jobs],
         \A j \in Job : /\ Kept(j) /\ Spared(j) /\ job'[j].timed = job[j].timed
                        /\ job'[j].fence # "missed"
                        /\ job'[j].step \in {"new", "refused", "submit"} => job'[j].fence = "none",
         \A i, j \in Job : i < j /\ job'[i].step = "new" => job'[j].step = "new",
         \A s \in Syncpt : /\ sp'[s].max = sp[s].max /\ sp'[s].value = sp[s].value
                           /\ sp'[s].locked = sp[s].locked /\ sp'[s].min \in {sp[s].min, sp[s].value},
         \A j \in Elems(queue) : \/ job'[j].fence = job[j].fence
                                 \/ update' /\ sp'[Sp(j)].min >= job[j].thresh,
         update => update',
         stop' \in {"check", "sleep"} => sub.step = "idle"
  PROVE  Even'
<1>1. /\ Types /\ CInv /\ Numbers /\ Turns /\ Watched /\ Still /\ Packed /\ Owned /\ Engine /\ Paced
      /\ queue \in Seq(Job) /\ Elems(queue) \subseteq Job /\ Len(queue) \in Nat
  BY EvenTypes
<1>2. \A s \in Syncpt : sp[s].value \in Nat /\ sp[s].min \in Nat /\ sp[s].min <= sp[s].value /\ sp[s].value <= sp[s].max
                        /\ scene.from <= sp[s].min /\ scene.from \in Nat /\ sp[s].max \in Nat
  BY <1>1, Between
<1>3. \A s \in Syncpt : sp'[s].min \in Nat /\ sp[s].min <= sp'[s].min
  BY <1>2
<1>4. Numbers'
  <2>1. \A s \in Syncpt : /\ sp'[s].max = sp[s].max /\ {sp'[s].min, sp'[s].value} \subseteq Nat
                          /\ scene.from <= sp'[s].min /\ sp'[s].min <= sp'[s].value
                          /\ sp'[s].value <= sp[s].max
    BY <1>2
  <2> QED BY <1>1, <2>1, NumbersKept DEF Kept
<1>5. Turns'
  <2>1. Shorter(0)
    <3>1. SubSeq(queue, 0 + 1, Len(queue)) = queue
      BY <1>1
    <3> QED BY <1>1, <3>1 DEF Shorter
  <2> QED BY <1>1, <2>1, TurnsKept DEF Stays
<1>6. \A j \in Job : job'[j].first = job[j].first /\ job'[j].slots = job[j].slots
  BY DEF Kept
<1>7. Packed' /\ Owned'
  BY <1>1, <1>6, PackedSame
<1>8. Engine'
  BY <1>1, <1>6, EngineSame
<1>9. Paced'
  BY <1>1, PacedSame DEF Spared
<1>10. Elems(queue)' = Elems(queue) /\ \A j \in Job : Sp(j)' = Sp(j) /\ Sp(j) \in Syncpt
  BY <1>1, NumberTypes DEF Elems, Sp
<1>11. Still'
  <2>1. \A s \in Syncpt : ~sp'[s].locked
    BY <1>1 DEF Still
  <2>2. \A j \in Job : /\ ~job'[j].cancelled /\ ~job'[j].failed /\ job'[j].fence # "missed"
                       /\ job'[j].step \in {"new", "refused", "submit"} => job'[j].fence = "none"
    BY <1>1 DEF Still, Spared
  <2> QED BY <1>1, <2>1, <2>2 DEF Still, Stays
<1>12. Watched'
  <2>1. \A j \in Job : job'[j].timed
    BY <1>1 DEF Watched
  <2>2. ASSUME NEW j \in Elems(queue), job'[j].fence # "pending" PROVE sp'[Sp(j)].min >= job'[j].thresh
    <3>1. j \in Job /\ Sp(j) \in Syncpt /\ job'[j].thresh = job[j].thresh /\ Begun(j)
      BY <1>1, <1>10 DEF Kept, Alike, Turns
    <3>2. CASE job'[j].fence = job[j].fence
      <4>1. sp[Sp(j)].min >= job[j].thresh
        BY <1>1, <2>2, <3>2 DEF Watched
      <4>2. job[j].thresh \in Nat
        BY <1>1, <3>1 DEF Numbers, Numbered
      <4> QED BY <1>2, <1>3, <3>1, <4>1, <4>2
    <3> QED BY <2>2, <3>1, <3>2
  <2>3. queue # <<>> /\ ~update' => job'[queue[1]].fence = "pending"
    <3> SUFFICES ASSUME queue # <<>>, ~update' PROVE job'[queue[1]].fence = "pending"
      OBVIOUS
    <3>1. queue[1] \in Elems(queue)
      <4>1. Len(queue) # 0
        BY <1>1
      <4>2. 1 \in 1..Len(queue)
        BY <1>1, <4>1
      <4> QED BY <4>2 DEF Elems
    <3> QED BY <1>1, <3>1 DEF Watched
  <2> QED BY <1>1, <1>10, <2>1, <2>2, <2>3 DEF Watched
<1> QED BY <1>4, <1>5, <1>7, <1>8, <1>9, <1>11, <1>12 DEF Even

LEMMA SameEven == ASSUME EHyp, UNCHANGED vars PROVE Even'
<1>1. job' = job /\ queue' = queue /\ sub' = sub /\ sp' = sp /\ dma' = dma /\ update' = update /\ stop' = stop
      /\ UNCHANGED <<scene, pb, mem, queue, timer, handler, hung>>
  BY DEF vars
<1>2. job \in [Job -> Jobs] /\ Still /\ Turns
  BY EvenTypes
<1>3. \A j \in Job : Kept(j) /\ Spared(j)
  BY <1>1 DEF Kept, Alike, Spared, Begun
<1>4. \A j \in Job : job[j].fence # "missed" /\ (job[j].step \in {"new", "refused", "submit"} => job[j].fence = "none")
  BY <1>2 DEF Still
<1>5. ~dma.on => sub.step = "idle" /\ queue = <<>>
  BY <1>2 DEF Still
<1>6. stop \in {"check", "sleep"} => sub.step = "idle"
  BY <1>2 DEF Still
<1>7. \A i, j \in Job : i < j /\ job[i].step = "new" => job[j].step = "new"
  BY <1>2 DEF Turns
<1> QED BY <1>1, <1>2, <1>3, <1>4, <1>5, <1>6, <1>7, QuietEven DEF Stays

\* The submitter's reference, and somebody who looks at the counter.
LEMMA PutEven == ASSUME EHyp, NEW j \in Job, Put(j) PROVE Even'
<1>1. /\ job \in [Job -> Jobs] /\ Still /\ Turns /\ CInv
  BY EvenTypes
<1>2. /\ job[j].step = "held"
      /\ UNCHANGED <<scene, sp, pb, mem, dma, queue, sub, event, complete, timer, handler, update, stop, hung>>
      /\ job' = [job EXCEPT ![j].step = IF ~Queued(j) /\ job[j].fence = "missed" THEN "stuck" ELSE "done",
                            ![j].fence = IF Queued(j) THEN @ ELSE "gone"]
  BY DEF Put
<1>3. PICK st \in {"stuck", "done"}, f \in {job[j].fence, "gone"} :
        /\ job' = [job EXCEPT ![j].step = st, ![j].fence = f]
        /\ Queued(j) => f = job[j].fence
  BY <1>2
<1>4. job' \in [Job -> Jobs]
  BY <1>1, <1>2, PutStep, StillThere DEF CInv, Types
<1>5. ASSUME NEW i \in Job
      PROVE  /\ Kept(i) /\ Spared(i) /\ job'[i].timed = job[i].timed /\ job'[i].fence # "missed"
             /\ job'[i].step \in {"new", "refused", "submit"} => job'[i].fence = "none"
             /\ job'[i].step = "new" <=> job[i].step = "new"
             /\ job'[i].fence = job[i].fence \/ ~Queued(i)
  <2>1. job[i] \in Jobs /\ job[i].fence # "missed"
        /\ (job[i].step \in {"new", "refused", "submit"} => job[i].fence = "none")
    BY <1>1 DEF Still
  <2>2. CASE i # j
    <3>1. job'[i] = job[i]
      BY <1>1, <1>3, <2>2
    <3> QED BY <2>1, <3>1 DEF Kept, Alike, Spared, Begun
  <2>3. CASE i = j
    <3>1. job'[i] = [job[i] EXCEPT !.step = st, !.fence = f]
      BY <1>1, <1>3, <2>3
    <3>2. /\ job'[i].step = st /\ job'[i].fence = f /\ job'[i].end = job[i].end /\ job'[i].thresh = job[i].thresh
          /\ job'[i].first = job[i].first /\ job'[i].slots = job[i].slots
          /\ job'[i].ran = job[i].ran
      BY <2>1, <3>1 DEF Jobs
    <3>3. job'[i].cancelled = job[i].cancelled
      BY <2>1, <3>1 DEF Jobs
    <3>4. job'[i].failed = job[i].failed
      BY <2>1, <3>1 DEF Jobs
    <3>5. job'[i].timed = job[i].timed
      BY <2>1, <3>1 DEF Jobs
    <3>6. f # "missed" /\ st \notin {"new", "refused", "submit"} /\ (f = job[i].fence \/ ~Queued(i))
      BY <1>3, <2>1, <2>3
    <3> QED BY <1>2, <2>3, <3>2, <3>3, <3>4, <3>5, <3>6 DEF Kept, Alike, Spared, Begun
  <2> QED BY <2>2, <2>3
<1>6. \A i \in Elems(queue) : i \in Job /\ job'[i].fence = job[i].fence
  BY <1>1, <1>5, SpaceFacts DEF Queued, Elems
<1>7. \A i, k \in Job : i < k /\ job'[i].step = "new" => job'[k].step = "new"
  BY <1>1, <1>5 DEF Turns
<1>8. (~dma.on => sub.step = "idle" /\ queue = <<>>) /\ (stop \in {"check", "sleep"} => sub.step = "idle")
  BY <1>1 DEF Still
<1> QED BY <1>1, <1>2, <1>4, <1>5, <1>6, <1>7, <1>8, QuietEven DEF Stays

LEMMA CounterEven == ASSUME EHyp, NEW s \in Syncpt, Interrupt(s) \/ Look(s) PROVE Even'
<1>1. /\ job \in [Job -> Jobs] /\ Still /\ Turns /\ CInv /\ Types /\ Numbers /\ NoWrap
      /\ sp \in [Syncpt -> [value : Int, min : Int, max : Int, locked : BOOLEAN]]
  BY EvenTypes
<1>2. /\ UNCHANGED <<scene, pb, mem, dma, queue, sub, event, complete, timer, handler, stop, hung>>
      /\ sp' = [sp EXCEPT ![s].min = sp[s].value] /\ (update => update')
  BY DEF Interrupt, Look, Load
<1>3. \A t \in Syncpt : /\ sp'[t].max = sp[t].max /\ sp'[t].value = sp[t].value
                        /\ sp'[t].min = IF t = s THEN sp[t].value ELSE sp[t].min
  BY <1>1, <1>2
<1>4. \A t \in Syncpt : sp'[t].locked = sp[t].locked
  BY <1>1, <1>2
<1>5. job' \in [Job -> Jobs]
  <2>1. CInv'
    BY <1>1, InterruptStep, LookStep
  <2> QED BY <1>2, <2>1, StillThere DEF CInv, Types
<1>6. ASSUME NEW i \in Job
      PROVE  \/ job'[i] = job[i]
             \/ /\ job'[i] = [job[i] EXCEPT !.fence = "signalled"] /\ update'
                /\ Sp(i) = s /\ job[i].fence = "pending" /\ Expired(sp[s].value, job[i].thresh)
  BY DEF Interrupt, Look, Due
<1>7. ASSUME NEW i \in Job
      PROVE  /\ Kept(i) /\ Spared(i) /\ job'[i].timed = job[i].timed /\ job'[i].fence # "missed"
             /\ job'[i].step = job[i].step
             /\ job'[i].step \in {"new", "refused", "submit"} => job'[i].fence = "none"
  <2>1. job[i] \in Jobs /\ job[i].fence # "missed"
        /\ (job[i].step \in {"new", "refused", "submit"} => job[i].fence = "none")
    BY <1>1 DEF Still
  <2>2. CASE job'[i] = job[i]
    BY <2>1, <2>2 DEF Kept, Alike, Spared, Begun
  <2>3. CASE job'[i] = [job[i] EXCEPT !.fence = "signalled"] /\ job[i].fence = "pending"
    <3>1. /\ job'[i].step = job[i].step /\ job'[i].fence = "signalled" /\ job'[i].end = job[i].end
          /\ job'[i].first = job[i].first /\ job'[i].slots = job[i].slots /\ job'[i].thresh = job[i].thresh
          /\ job'[i].ran = job[i].ran
      BY <2>1, <2>3 DEF Jobs
    <3>2. job'[i].cancelled = job[i].cancelled
      BY <2>1, <2>3 DEF Jobs
    <3>3. job'[i].failed = job[i].failed
      BY <2>1, <2>3 DEF Jobs
    <3>4. job'[i].timed = job[i].timed
      BY <2>1, <2>3 DEF Jobs
    <3> QED BY <2>1, <2>3, <3>1, <3>2, <3>3, <3>4 DEF Kept, Alike, Spared, Begun
  <2> QED BY <1>6, <2>2, <2>3
<1>8. ASSUME NEW i \in Elems(queue)
      PROVE  job'[i].fence = job[i].fence \/ (update' /\ sp'[Sp(i)].min >= job[i].thresh)
  <2>1. i \in Job /\ Begun(i)
    BY <1>1, SpaceFacts DEF Turns
  <2>2. CASE job'[i] = job[i]
    BY <2>2
  <2>3. CASE update' /\ Sp(i) = s /\ Expired(sp[s].value, job[i].thresh)
    <3>1. sp[s].value \in scene.from..sp[s].max
      BY <1>1, Between
    <3>2. sp[s].value >= job[i].end + 1 /\ job[i].thresh = job[i].end + 1
      BY <1>1, <2>1, <2>3, <3>1, ReachedThresh
    <3> QED BY <1>3, <2>3, <3>2
  <2> QED BY <1>6, <2>1, <2>2, <2>3
<1>9. \A i, k \in Job : i < k /\ job'[i].step = "new" => job'[k].step = "new"
  BY <1>1, <1>7 DEF Turns
<1>10. (~dma.on => sub.step = "idle" /\ queue = <<>>) /\ (stop \in {"check", "sleep"} => sub.step = "idle")
  BY <1>1 DEF Still
<1>11. \A t \in Syncpt : sp'[t].min \in {sp[t].min, sp[t].value}
  BY <1>3
<1> QED BY <1>2, <1>3, <1>4, <1>5, <1>7, <1>8, <1>9, <1>10, <1>11, QuietEven DEF Stays

\* cdma_stop(), which nobody calls in the middle of a submission.
LEMMA StopEven == ASSUME EHyp, StopRuns \/ StopCheck \/ StopWake PROVE Even'
<1>1. /\ job \in [Job -> Jobs] /\ Still /\ Turns /\ CInv /\ "busy_stop" \notin env
      /\ dma \in [get : Positions, put : Positions, on : BOOLEAN]
  BY EvenTypes
<1>2. UNCHANGED <<scene, sp, pb, mem, job, queue, sub, timer, handler, update, hung>>
  BY DEF StopRuns, StopCall, StopCheck, StopWake
<1>3. \A j \in Job : Kept(j) /\ Spared(j)
  BY <1>2 DEF Kept, Alike, Spared, Begun
<1>4. \A j \in Job : job[j].fence # "missed" /\ (job[j].step \in {"new", "refused", "submit"} => job[j].fence = "none")
  BY <1>1 DEF Still
<1>5. \A i, j \in Job : i < j /\ job[i].step = "new" => job[j].step = "new"
  BY <1>1 DEF Turns
<1>6. stop' \in {"check", "sleep"} => sub.step = "idle"
  BY <1>1 DEF StopRuns, StopCall, StopCheck, StopWake, Still
<1>7. \/ dma' = dma
      \/ dma' = [dma EXCEPT !.on = FALSE] /\ queue = <<>> /\ sub.step = "idle"
  BY <1>1 DEF StopRuns, StopCall, StopCheck, StopWake, Still
<1>8. /\ dma'.get = dma.get /\ dma'.put = dma.put /\ (dma'.on => dma.on)
      /\ ~dma'.on => sub.step = "idle" /\ queue = <<>>
  BY <1>1, <1>7 DEF Still
<1> QED BY <1>1, <1>2, <1>3, <1>4, <1>5, <1>6, <1>8, QuietEven DEF Stays

\* A submission that waits for slots lets the engine go on, and sleeps or not.
LEMMA WaitEven ==
  ASSUME EHyp, UNCHANGED <<scene, sp, pb, mem, job, queue, timer, handler, update, hung, stop>>, Stays,
         dma' = dma \/ Flush
  PROVE  Even'
<1>1. /\ job \in [Job -> Jobs] /\ Still /\ Turns /\ CInv
      /\ dma \in [get : Positions, put : Positions, on : BOOLEAN]
  BY EvenTypes
<1>2. \A j \in Job : Kept(j) /\ Spared(j)
  BY DEF Kept, Alike, Spared, Begun
<1>3. \A j \in Job : job[j].fence # "missed" /\ (job[j].step \in {"new", "refused", "submit"} => job[j].fence = "none")
  BY <1>1 DEF Still
<1>4. \A i, j \in Job : i < j /\ job[i].step = "new" => job[j].step = "new"
  BY <1>1 DEF Turns
<1>5. dma'.get = dma.get /\ dma'.put \in {dma.put, pb.pos} /\ dma'.on = dma.on
  BY <1>1 DEF Flush
<1>6. (~dma.on => sub.step = "idle" /\ queue = <<>>) /\ (stop \in {"check", "sleep"} => sub.step = "idle")
  BY <1>1 DEF Still
<1> QED BY <1>1, <1>2, <1>3, <1>4, <1>5, <1>6, QuietEven

LEMMA WakeEven == ASSUME EHyp, Wake \/ Relock PROVE Even'
<1>1. /\ UNCHANGED <<scene, sp, pb, mem, job, queue, timer, handler, update, hung, stop>> /\ dma' = dma
      /\ sub.step \in {"sleep", "yield"} /\ sub' \in {[sub EXCEPT !.step = "yield"], [sub EXCEPT !.step = "push"]}
  BY DEF Wake, Relock
<1>2. sub \in Subs
  BY SubFacts, EvenTypes
<1>3. Stays
  BY <1>1, <1>2 DEF Stays, Subs
<1> QED BY <1>1, <1>3, WaitEven

LEMMA WaitsEven ==
  ASSUME EHyp, WaitForSpace, sub.step = "push", UNCHANGED <<scene, sp, job, queue, timer, handler, update, hung, stop>>
  PROVE  Even'
<1>1. /\ UNCHANGED <<pb, mem>> /\ Flush
      /\ sub' \in {[sub EXCEPT !.step = "yield"], [sub EXCEPT !.step = "sleep"]}
  BY DEF WaitForSpace
<1>2. sub \in Subs
  BY SubFacts, EvenTypes
<1>3. Stays
  BY <1>1, <1>2 DEF Stays, Subs
<1> QED BY <1>1, <1>3, WaitEven

-----------------------------------------------------------------------------
(* Submission: a job begins behind those in the queue, ...                 *)

LEMMA BeginEven == ASSUME EHyp, NEW j \in Job, BeginRuns(j) PROVE Even'
<1>1. /\ Types /\ CInv /\ NoWrap /\ Numbers /\ Turns /\ Watched /\ Still /\ Packed /\ Owned /\ Engine /\ Paced
      /\ job \in [Job -> Jobs] /\ queue \in Seq(Job) /\ Elems(queue) \subseteq Job /\ Len(queue) \in Nat
      /\ dma \in [get : Positions, put : Positions, on : BOOLEAN]
      /\ "busy_stop" \notin env /\ \A i \in Job : i \in Nat /\ i # 0 /\ Sp(i) \in Syncpt
  BY EvenTypes, NumberTypes
<1>2. ~sp[Sp(j)].locked
  BY <1>1 DEF Still
<1>3. Enters(j)
  BY <1>1, <1>2, BeginEnters DEF BeginRuns
<1>4. /\ UNCHANGED <<scene, pb, mem, queue, timer, update, handler, stop, hung>> /\ stop \in {"no", "done"}
      /\ sub.step = "idle" /\ sub.job = 0 /\ job[j].step = "new"
      /\ sub'.job = j /\ sub'.i = 1 /\ sub'.used = 0 /\ sub'.first = pb.pos /\ sub'.step = "push"
      /\ dma' = (IF dma.on THEN dma ELSE [get |-> pb.pos, put |-> pb.pos, on |-> TRUE])
      /\ job'[j].end = sp[Sp(j)].max + 1
      /\ \A i \in Job \ {j} : job'[i] = job[i]
      /\ ~Begun(j) /\ \A i \in Job : Begun(i) => i < j
  BY <1>1, <1>3 DEF BeginRuns, Begin, Enters
<1>5. job' = [job EXCEPT ![j].step = "submit", ![j].end = (sp[Sp(j)].max + 1) % CounterMod,
                         ![j].thresh = (sp[Sp(j)].max + 2) % CounterMod]
  BY <1>2 DEF BeginRuns, Begin
<1>6. /\ job'[j].fence = job[j].fence /\ job'[j].first = job[j].first /\ job'[j].slots = job[j].slots
      /\ job'[j].step = "submit" /\ job'[j].ran = job[j].ran
  <2>1. job[j] \in Jobs
    BY <1>1
  <2>2. job'[j] = [job[j] EXCEPT !.step = "submit", !.end = (sp[Sp(j)].max + 1) % CounterMod,
                                 !.thresh = (sp[Sp(j)].max + 2) % CounterMod]
    BY <1>1, <1>5
  <2> QED BY <2>1, <2>2 DEF Jobs
<1>7. job'[j].timed = job[j].timed
  <2>1. job[j] \in Jobs
    BY <1>1
  <2>2. job'[j] = [job[j] EXCEPT !.step = "submit", !.end = (sp[Sp(j)].max + 1) % CounterMod,
                                 !.thresh = (sp[Sp(j)].max + 2) % CounterMod]
    BY <1>1, <1>5
  <2> QED BY <2>1, <2>2 DEF Jobs
<1>8. Numbers' /\ Turns'
  BY <1>1, <1>3, EntersNumbers, EntersTurns
<1>9. \A i \in Elems(queue) : i \in Job /\ i # j /\ i < j /\ Begun(i) /\ i # 0 /\ job'[i] = job[i]
  <2>1. \A i \in Elems(queue) : i \in Job /\ Begun(i)
    BY <1>1 DEF Turns
  <2> QED BY <1>1, <1>4, <2>1
<1>10. /\ Ring' = Ring /\ Positions' = Positions /\ Use' = Use /\ Fill' = Fill /\ Elems(queue)' = Elems(queue)
       /\ Held = Elems(queue) /\ Held' = Elems(queue) \cup {j}
  BY <1>4 DEF Ring, Positions, Use, Dist, Fill, Elems, Held
<1>11. /\ Fill = Use[pb.pos] /\ Fill \in Nat /\ Fill = SlotsOf(job, Elems(queue))
       /\ \A k \in Positions : Use[k] \in Nat
  BY <1>1, <1>4, UseFill, UseFacts DEF Fill, Submission, CInv
<1>12. /\ From(j)' = Fill /\ Work(j)' = Fill /\ Earlier(j)' = Elems(queue)
  <2>1. From(j)' = Fill
    BY <1>4, <1>10, <1>11 DEF From
  <2>2. Work(j)' = Fill
    BY <1>4, <1>10, <1>11 DEF Work, Filled
  <2>3. Earlier(j)' = Elems(queue)
    BY <1>9, <1>10 DEF Earlier
  <2> QED BY <2>1, <2>2, <2>3
<1>13. ASSUME NEW i \in Elems(queue) PROVE From(i)' = From(i) /\ Work(i)' = Work(i) /\ Earlier(i)' = Earlier(i)
  <2>1. i # j /\ i # sub.job /\ job'[i] = job[i] /\ sub'.job = j
    BY <1>4, <1>9
  <2>2. From(i)' = From(i) /\ Earlier(i)' = Earlier(i)
    BY <1>10, <2>1 DEF From, Earlier
  <2> QED BY <2>1, <2>2 DEF Work
<1>14. \A S \in SUBSET Elems(queue) : SlotsOf(job', S) = SlotsOf(job, S)
  <2> SUFFICES ASSUME NEW S \in SUBSET Elems(queue) PROVE SlotsOf(job', S) = SlotsOf(job, S)
    OBVIOUS
  <2>1. Counts(job) /\ Counts(job')
    <3>1. job'[j].slots \in Nat
      BY <1>1, <1>6 DEF Jobs
    <3> QED BY <1>1, <1>4, <3>1 DEF Counts, Jobs
  <2>2. S \in SUBSET Job
    BY <1>1
  <2>3. \A i \in S : job'[i].slots = job[i].slots
    BY <1>9
  <2> QED BY <2>1, <2>2, <2>3, SlotsSame
<1>15. Packed'
  <2>1. ASSUME NEW i \in Elems(queue) \cup {j} PROVE From(i)' = SlotsOf(job', Earlier(i)')
    <3>1. CASE i = j
      BY <1>11, <1>12, <1>14, <3>1
    <3>2. CASE i \in Elems(queue)
      <4>1. From(i) = SlotsOf(job, Earlier(i))
        BY <1>1, <1>10, <3>2 DEF Packed
      <4>2. Earlier(i) \in SUBSET Elems(queue)
        BY DEF Earlier
      <4> QED BY <1>13, <1>14, <3>2, <4>1, <4>2
    <3> QED BY <3>1, <3>2
  <2>2. \A i \in Elems(queue) : job'[i].slots \in {4, 5}
    BY <1>1, <1>9 DEF Packed
  <2>3. sub'.used \in {Filled(sub'.i), Filled(sub'.i) + 1} /\ sub'.i \in 1..4
        /\ (sub'.i = 1 => sub'.used = 0) /\ (sub'.step = "end" => sub'.i = 4)
    BY <1>4 DEF Filled
  <2> QED BY <1>10, <2>1, <2>2, <2>3 DEF Packed
<1>16. Owned'
  <2>1. ASSUME NEW k \in Positions, Use[k] < Fill PROVE \E i \in Elems(queue) : Owns(i, k)'
    <3>1. PICK i \in Elems(queue) : Owns(i, k)
      BY <1>1, <1>10, <2>1 DEF Owned
    <3>2. From(i)' = From(i) /\ Work(i)' = Work(i)
      BY <1>13
    <3>3. Owns(i, k)'
      BY <1>4, <1>10, <3>1, <3>2 DEF Owns
    <3> QED BY <3>3
  <2> QED BY <1>10, <2>1 DEF Owned
<1>17. /\ Use[dma'.get] <= Use[dma'.put] /\ Use[dma'.put] <= Fill /\ Use[dma'.get] \in Nat /\ Use[dma'.put] \in Nat
       /\ dma'.on /\ (queue # <<>> => dma' = dma /\ dma.on)
  <2>1. CASE dma.on
    <3>1. dma' = dma /\ dma.get \in Positions /\ dma.put \in Positions
      BY <1>1, <1>4, <2>1
    <3> QED BY <1>1, <1>11, <2>1, <3>1 DEF Engine
  <2>2. CASE ~dma.on
    <3>1. dma'.get = pb.pos /\ dma'.put = pb.pos /\ dma'.on /\ queue = <<>>
      BY <1>1, <1>4, <2>2 DEF Still
    <3>2. Use[dma'.get] = Fill /\ Use[dma'.put] = Fill
      BY <1>11, <3>1
    <3>3. \A x \in Nat : x <= x
      OBVIOUS
    <3> QED BY <1>11, <3>1, <3>2, <3>3
  <2> QED BY <2>1, <2>2
<1>18. \A i \in Elems(queue) : queue # <<>>
  BY <1>1 DEF Elems
<1>19. Engine'
  <2>1. ASSUME NEW i \in Elems(queue)
        PROVE  /\ Use[dma'.get] # Work(i)' + 1 /\ Use[dma'.put] # Work(i)' + 1
               /\ Work(i)' + 4 <= Use[dma'.put]
    BY <1>1, <1>10, <1>13, <1>17, <1>18 DEF Engine
  <2>2. Use[dma'.get] # Work(j)' + 1 /\ Use[dma'.put] # Work(j)' + 1 /\ Use[dma'.get] <= Work(j)' + 2
    BY <1>11, <1>12, <1>17
  <2> QED BY <1>4, <1>10, <1>17, <2>1, <2>2 DEF Engine
<1>20. Paced'
  <2>1. Reaches(j)'
    <3>1. Value(j)' = Value(j) /\ Value(j) \in Nat /\ sp[Sp(j)].max \in Nat /\ Value(j) <= sp[Sp(j)].max
      BY <1>1, <1>3, Between DEF Value, Sp, Enters
    <3>2. Value(j)' < job'[j].end /\ Value(j)' <= job'[j].end
      BY <1>4, <3>1
    <3>3. ~(Use'[dma'.get] >= Work(j)' + 2) /\ ~(Use'[dma'.get] >= Work(j)' + 3)
      BY <1>10, <1>11, <1>12, <1>17
    <3> QED BY <3>2, <3>3 DEF Reaches
  <2>2. ASSUME NEW i \in Job PROVE Value(i)' = Value(i) /\ Sp(i)' = Sp(i)
    BY <1>1, <1>3 DEF Value, Sp, Enters
  <2>3. ASSUME NEW i \in Elems(queue) PROVE Reaches(i)'
    <3>1. Reaches(i) /\ dma' = dma /\ Work(i)' = Work(i) /\ job'[i] = job[i] /\ Value(i)' = Value(i)
      BY <1>1, <1>9, <1>10, <1>13, <1>17, <1>18, <2>2 DEF Paced
    <3> QED BY <1>10, <3>1 DEF Reaches
  <2>4. ASSUME NEW i \in Job, Gone(i)' PROVE Value(i)' > job'[i].end /\ "work" \in job'[i].ran
    <3>1. i # j /\ job'[i] = job[i] /\ Gone(i)
      BY <1>1, <1>4, <1>10, <2>4 DEF Gone, Begun
    <3> QED BY <1>1, <2>2, <3>1 DEF Paced
  <2>5. WholeJobs'
    <3>1. \A i \in Job : job'[i].ran = job[i].ran
      BY <1>4, <1>6
    <3> QED BY <1>1, <3>1 DEF WholeJobs, Paced
  <2> QED BY <1>10, <2>1, <2>3, <2>4, <2>5 DEF Paced
<1>21. Still'
  <2>1. \A s \in Syncpt : ~sp'[s].locked
    BY <1>1, <1>3 DEF Still, Enters
  <2>2. ASSUME NEW i \in Job
        PROVE  /\ ~job'[i].cancelled /\ ~job'[i].failed /\ job'[i].fence # "missed"
               /\ job'[i].step \in {"new", "refused", "submit"} => job'[i].fence = "none"
    <3>1. ~job[i].cancelled /\ ~job[i].failed /\ job[i].fence # "missed"
          /\ (job[i].step \in {"new", "refused", "submit"} => job[i].fence = "none")
      BY <1>1 DEF Still
    <3>2. job'[i].cancelled = job[i].cancelled /\ job'[i].failed = job[i].failed
      BY <1>3 DEF Enters, Spared
    <3> QED BY <1>4, <1>6, <3>1, <3>2
  <2> QED BY <1>1, <1>4, <1>17, <2>1, <2>2 DEF Still
<1>22. Watched'
  <2>1. \A i \in Job : job'[i].timed
    BY <1>1, <1>4, <1>7 DEF Watched
  <2>2. \A i \in Elems(queue) : /\ job'[i] = job[i] /\ sp'[Sp(i)].min = sp[Sp(i)].min /\ Sp(i)' = Sp(i)
    BY <1>1, <1>3, <1>9 DEF Enters, Sp
  <2>3. queue # <<>> => queue[1] \in Elems(queue)
    <3>1. Len(queue) # 0 => 1 \in 1..Len(queue)
      BY <1>1
    <3> QED BY <1>1, <3>1 DEF Elems
  <2> QED BY <1>1, <1>4, <1>10, <2>1, <2>2, <2>3 DEF Watched
<1> QED BY <1>8, <1>15, <1>16, <1>19, <1>20, <1>21, <1>22 DEF Even

-----------------------------------------------------------------------------
(* ... writes what it has to do, or waits, ...                             *)

LEMMA PushEither ==
  ASSUME EHyp, PushWide \/ Push
  PROVE  \/ /\ WaitForSpace /\ sub.step = "push"
            /\ UNCHANGED <<scene, sp, job, queue, timer, handler, update, hung, stop>>
         \/ \E ops : Pushing(ops) /\ Len(ops) \in 1..3 /\ Len(ops) <= Space /\ stop' = stop
<1>1. CInv /\ dma \in [get : Positions, put : Positions, on : BOOLEAN]
  BY EvenTypes
<1>2. sub \in Subs /\ sub.free <= Space /\ Space \in Nat /\ sub.free \in Nat
      /\ (sub.step \in {"push", "sleep", "yield"} => sub.i \in 1..3)
  BY <1>1, SubFacts DEF Subs
<1>3. CASE PushWide
  <2> DEFINE ops == Padding \o <<"work", "arg">>
  <2>1. sub.step = "push" /\ Ops[sub.i] = "work"
    BY <1>3 DEF PushWide
  <2>2. NextOps(ops)
    BY <1>1, <2>1, PushesWide
  <2> HIDE DEF ops
  <2>3. Len(ops) \in 1..3
    <3>1. \/ ops = <<"work", "arg">> \/ ops = <<"pad", "work", "arg">>
          \/ ops = <<"final">> \/ ops = <<"release">>
      BY <2>2 DEF NextOps
    <3> QED BY <3>1
  <2>4. CASE Space < Len(ops)
    BY <1>3, <2>1, <2>4 DEF PushWide, ops
  <2>5. CASE ~(Space < Len(ops))
    <3>1. /\ Write(ops) /\ Pushed(Space - Len(ops), Len(ops)) /\ UNCHANGED dma
          /\ UNCHANGED <<scene, sp, job, queue, timer, handler, update, hung, stop>>
      BY <1>3, <2>5 DEF PushWide, ops
    <3>2. Pushing(ops)
      BY <2>1, <2>2, <3>1 DEF Pushing
    <3>3. Len(ops) <= Space
      <4> DEFINE n == Len(ops)
                 r == Space
      <4>1. n \in 1..3 /\ r \in Nat /\ ~(r < n)
        BY <1>2, <2>3, <2>5
      <4> HIDE DEF n, r
      <4>2. n <= r
        BY <4>1
      <4> QED BY <4>2 DEF n, r
    <3> QED BY <2>3, <3>1, <3>2, <3>3
  <2> QED BY <2>4, <2>5
<1>4. CASE Push
  <2> DEFINE ops == <<Ops[sub.i]>>
             had == IF sub.free = 0 THEN Space ELSE sub.free
  <2>1. sub.step = "push" /\ Ops[sub.i] # "work"
    BY <1>4 DEF Push
  <2>2. NextOps(ops) /\ Len(ops) = 1
    <3>1. sub.i \in {2, 3}
      BY <1>2, <2>1 DEF Ops
    <3> QED BY <3>1 DEF NextOps, Ops
  <2>3. CASE sub.free = 0 /\ Space = 0
    BY <1>4, <2>1, <2>3 DEF Push
  <2>4. CASE ~(sub.free = 0 /\ Space = 0)
    <3>1. /\ Write(ops) /\ Pushed(had - 1, 1) /\ (Flush \/ UNCHANGED dma)
          /\ UNCHANGED <<scene, sp, job, queue, timer, handler, update, hung, stop>>
      BY <1>4, <2>4 DEF Push
    <3>2. dma'.get = dma.get /\ dma'.on = dma.on /\ dma'.put \in {dma.put, pb.pos}
      BY <1>1, <3>1 DEF Flush
    <3>3. 1 <= Space
      BY <1>2, <2>4
    <3> HIDE DEF ops, had
    <3>4. Pushing(ops)
      BY <2>1, <2>2, <3>1, <3>2 DEF Pushing
    <3>5. Len(ops) \in 1..3 /\ Len(ops) <= Space
      BY <2>2, <3>3
    <3> QED BY <3>1, <3>4, <3>5
  <2> QED BY <2>3, <2>4
<1> QED BY <1>3, <1>4

\* What is written lies behind the rest, and is the next part of the job.
Pad(ops) == IF ops[1] = "pad" THEN 1 ELSE 0
PushedAt(ops, n, j) ==
  /\ Ring' = Ring /\ Positions' = Positions /\ Use' = Use /\ Fill' = Fill + n /\ Fill + n < Ring
  /\ Held' = Held /\ Elems(queue)' = Elems(queue) /\ j \in Job /\ j \in Held /\ j \notin Elems(queue)
  /\ sub'.job = j /\ sub'.i = sub.i + 1 /\ sub'.used = sub.used + n /\ sub'.step \in {"push", "end"}
  /\ sub.i \in 1..3 /\ (sub'.step = "end" => sub'.i = 4)
  /\ \A i \in Job : From(i)' = From(i) /\ Earlier(i)' = Earlier(i)
  /\ \A i \in Elems(queue) : Work(i)' = Work(i)
  /\ Work(j)' = Work(j) + Pad(ops) /\ Pad(ops) \in 0..1
  /\ Pad(ops) = 1 => sub.i = 1 /\ Work(j) = Fill /\ From(j) = Fill
  /\ sub'.used \in {Filled(sub'.i), Filled(sub'.i) + 1}
  /\ \A k \in Positions : Use[k] < Fill => mem'[k] = mem[k]
  /\ \A k \in Positions : Fill <= Use[k] /\ Use[k] < Fill + n => Owns(j, k)'

LEMMA PushedPlace ==
  ASSUME EHyp, NEW ops, Pushing(ops), NEW n \in 1..3, n = Len(ops), n <= Space, NEW j, j = sub.job
  PROVE  PushedAt(ops, n, j)
<1>1. /\ Types /\ CInv /\ Turns /\ Still /\ Packed /\ Owned /\ Elems(queue) \subseteq Job
  BY EvenTypes
<1>2. /\ sub.step = "push" /\ NextOps(ops) /\ Write(ops) /\ UNCHANGED <<scene, job, queue>>
      /\ n \in 1..3 /\ n <= Space
  BY DEF Pushing
<1>3. sub \in Subs /\ Space \in Nat /\ sub.i \in 1..3 /\ pb \in [pos : Positions, fence : Positions]
  BY <1>1, <1>2, SubFacts
<1>4. PICK free : Pushed(free, n)
  BY DEF Pushing
<1>5. /\ sub'.job = j /\ sub'.i = sub.i + 1 /\ sub'.used = sub.used + n /\ sub'.first = sub.first
      /\ sub'.step = (IF sub.i = 3 THEN "end" ELSE "push")
  BY <1>3, <1>4 DEF Pushed, Subs, Ops
<1>6. pb'.fence = pb.fence /\ pb'.pos = (pb.pos + n) % Ring
  BY <1>2, <1>3 DEF Write
<1>7. Ring' = Ring /\ Positions' = Positions /\ Use' = Use /\ Elems(queue)' = Elems(queue)
  BY <1>2, <1>6 DEF Ring, Positions, Use, Dist, Elems
<1>8. /\ Fill = Use[pb.pos] /\ Fill = Ring - 1 - Space /\ Fill \in Nat /\ Ring \in Nat /\ Ring > 5 /\ pb.pos \in Positions
      /\ Positions = 0..(Ring - 1)
      /\ \A k \in Positions : Use[k] \in 0..(Ring - 1)
      /\ \A k, m \in Positions : Use[k] = Use[m] => k = m
  BY <1>1, UseFacts, UseFill DEF Fill
<1>9. Fill + n < Ring
  <2> DEFINE fill == Fill
             space == Space
             m == n
  <2>1. fill = Ring - 1 - space /\ fill \in Nat /\ space \in Nat /\ m \in 1..3 /\ m <= space
    BY <1>2, <1>3, <1>8
  <2> HIDE DEF fill, space, m
  <2>2. fill + m < Ring
    BY <1>8, <2>1
  <2> QED BY <2>2 DEF fill, m
<1>10. Fill' = Fill + n
  <2>1. n \in Nat /\ Use[pb.pos] + n < Ring
    BY <1>2, <1>8, <1>9
  <2>2. Use[(pb.pos + n) % Ring] = Use[pb.pos] + n
    BY <1>1, <1>8, <2>1, UseStep
  <2>3. Fill' = Use[(pb.pos + n) % Ring]
    BY <1>6, <1>7 DEF Fill
  <2> QED BY <1>8, <2>2, <2>3
<1>11. /\ j \in Job /\ j \in Held /\ j \notin Elems(queue) /\ j # 0
       /\ Work(j) + Filled(sub.i) = Fill /\ From(j) + sub.used = Fill /\ From(j) \in Nat /\ Work(j) \in Nat
       /\ sub.used \in {Filled(sub.i), Filled(sub.i) + 1} /\ (sub.i = 1 => sub.used = 0)
  <2>1. j \in Job /\ j # 0
    BY <1>2, ReachFacts, <1>1, NumberTypes
  <2> QED BY <1>1, <1>2, <2>1, HeldFacts DEF Packed, Turns
<1>12. Held' = Held
  BY <1>2, <1>5, <1>7 DEF Held
<1>13. \A i \in Job : From(i)' = From(i) /\ Earlier(i)' = Earlier(i)
  BY <1>2, <1>5, <1>7 DEF From, Earlier
<1>14. \A i \in Elems(queue) : Work(i)' = Work(i)
  BY <1>1, <1>2, <1>5, <1>11, <1>13 DEF Work
<1>15. Work(j)' = Fill + n - Filled(sub.i + 1)
  <2>1. Work(j)' = Fill' - Filled(sub'.i)
    BY <1>5 DEF Work
  <2>2. Filled(sub'.i) = Filled(sub.i + 1)
    BY <1>5
  <2>3. Fill' = Fill + n
    BY <1>10
  <2>4. Fill \in Nat /\ Filled(sub.i + 1) \in Nat /\ n \in Nat
    BY <1>3, <1>8 DEF Filled
  <2> DEFINE a == Fill'
             b == Filled(sub'.i)
             c == Filled(sub.i + 1)
  <2>5. Work(j)' = a - b /\ a = Fill + n /\ b = c
    BY <2>1, <2>2, <2>3
  <2>6. Fill \in Nat /\ n \in Nat /\ c \in Nat
    BY <2>4
  <2> HIDE DEF a, b, c
  <2>7. b = c
    BY <2>5
  <2>8. Work(j)' = Fill + n - c
    BY <2>5, <2>6, <2>7
  <2> QED BY <2>8 DEF c
<1>16. \/ sub.i = 1 /\ ops = <<"work", "arg">> /\ pb.pos # Ring - 1 /\ n = 2 /\ Pad(ops) = 0
       \/ sub.i = 1 /\ ops = <<"pad", "work", "arg">> /\ pb.pos = Ring - 1 /\ n = 3 /\ Pad(ops) = 1
       \/ sub.i = 2 /\ ops = <<"final">> /\ n = 1 /\ Pad(ops) = 0
       \/ sub.i = 3 /\ ops = <<"release">> /\ n = 1 /\ Pad(ops) = 0
  BY <1>2 DEF NextOps, Pad
<1>17. ASSUME NEW k \in Positions
       PROVE  /\ Use[k] < Fill => mem'[k] = mem[k]
              /\ Fill <= Use[k] /\ Use[k] < Fill + n => mem'[k] = [job |-> j, op |-> ops[Use[k] - Fill + 1]]
  <2> DEFINE d == Dist(k, pb.pos)
             u == Use[k]
             m == n
             fill == Fill
  <2>1. d = IF fill <= u THEN u - fill ELSE u - fill + Ring
    <3>1. Dist(k, pb.pos) = IF Use[pb.pos] <= Use[k] THEN Use[k] - Use[pb.pos] ELSE Use[k] - Use[pb.pos] + Ring
      BY <1>1, <1>8, UseDist
    <3>2. Fill = Use[pb.pos]
      BY <1>8
    <3> QED BY <3>1, <3>2
  <2>2. mem'[k] = IF d + 1 <= m THEN [job |-> j, op |-> ops[d + 1]] ELSE mem[k]
    BY <1>2, <1>8 DEF Write
  <2>3. u \in 0..(Ring - 1) /\ fill \in Nat /\ m \in 1..3 /\ fill + m < Ring
    BY <1>2, <1>8, <1>9
  <2> HIDE DEF d, u, m, fill
  <2>4. u < fill => ~(d + 1 <= m)
    BY <1>8, <2>1, <2>3
  <2>5. fill <= u /\ u < fill + m => d + 1 <= m /\ d + 1 = u - fill + 1
    BY <1>8, <2>1, <2>3
  <2>6. (u < fill => mem'[k] = mem[k])
        /\ (fill <= u /\ u < fill + m => mem'[k] = [job |-> j, op |-> ops[u - fill + 1]])
    BY <2>2, <2>4, <2>5
  <2> QED BY <2>6 DEF u, m, fill
<1>18. Work(j)' = Work(j) + Pad(ops) /\ Pad(ops) \in 0..1 /\ (Pad(ops) = 1 => sub.i = 1 /\ Work(j) = Fill /\ From(j) = Fill)
  <2> DEFINE w == Work(j)
             v == Work(j)'
             fill == Fill
             f == From(j)
             p == Pad(ops)
             i == sub.i
             u == sub.used
  <2>1. w + Filled(i) = fill /\ f + u = fill /\ f \in Nat /\ w \in Nat /\ (i = 1 => u = 0) /\ fill \in Nat /\ u \in Nat
    BY <1>3, <1>8, <1>11 DEF Subs
  <2>2. v = fill + n - Filled(i + 1)
    BY <1>15
  <2>3. \/ i = 1 /\ n = 2 /\ p = 0
        \/ i = 1 /\ n = 3 /\ p = 1
        \/ i = 2 /\ n = 1 /\ p = 0
        \/ i = 3 /\ n = 1 /\ p = 0
    BY <1>16
  <2> HIDE DEF w, v, fill, f, p, i, u
  <2>4. v = w + p /\ p \in 0..1 /\ (p = 1 => i = 1 /\ w = fill /\ f = fill)
    <3>1. CASE i = 1
      <4>1. Filled(i) = 0 /\ Filled(i + 1) = 2 /\ u = 0
        BY <2>1, <3>1 DEF Filled
      <4>2. w = fill /\ f = fill /\ v = fill + n - 2
        BY <2>1, <2>2, <4>1
      <4>3. CASE n = 2 /\ p = 0
        <5>1. v = fill
          BY <2>1, <4>2, <4>3
        <5> QED BY <2>1, <4>2, <4>3, <5>1
      <4>4. CASE n = 3 /\ p = 1
        <5>1. v = fill + 1
          BY <2>1, <4>2, <4>4
        <5> QED BY <3>1, <4>2, <4>4, <5>1
      <4> QED BY <2>3, <3>1, <4>3, <4>4
    <3>2. CASE i \in {2, 3}
      <4>1. Filled(i) = i /\ Filled(i + 1) = i + 1
        BY <3>2 DEF Filled
      <4>2. w + i = fill /\ v = fill + n - (i + 1) /\ n = 1 /\ p = 0
        BY <2>1, <2>2, <2>3, <3>2, <4>1
      <4> QED BY <2>1, <3>2, <4>2
    <3> QED BY <2>3, <3>1, <3>2
  <2> QED BY <2>4 DEF w, v, fill, f, p, i
<1>19. sub'.used \in {Filled(sub'.i), Filled(sub'.i) + 1}
  <2>1. sub.used \in {Filled(sub.i), Filled(sub.i) + 1} /\ (sub.i = 1 => sub.used = 0)
    BY <1>11
  <2>2. \/ sub.i = 1 /\ n = 2
        \/ sub.i = 1 /\ n = 3
        \/ sub.i = 2 /\ n = 1
        \/ sub.i = 3 /\ n = 1
    BY <1>16
  <2>3. sub.used + n \in {Filled(sub.i + 1), Filled(sub.i + 1) + 1}
    BY <2>1, <2>2 DEF Filled
  <2>4. sub'.i = sub.i + 1 /\ sub'.used = sub.used + n
    BY <1>5
  <2> QED BY <2>3, <2>4
<1>20. ASSUME NEW k \in Positions, Fill <= Use[k], Use[k] < Fill + n PROVE Owns(j, k)'
  <2>1. /\ mem'[k] = [job |-> j, op |-> ops[Use[k] - Fill + 1]] /\ Use[k] \in Nat
        /\ k = pb.pos <=> Use[k] = Fill
    <3>1. Use[k] \in Nat /\ (k = pb.pos <=> Use[k] = Fill)
      <4>1. Use[k] \in 0..(Ring - 1) /\ pb.pos \in Positions /\ Fill = Use[pb.pos]
        BY <1>8
      <4>2. Use[k] = Use[pb.pos] => k = pb.pos
        BY <1>8, <4>1
      <4>3. Use[k] \in Nat
        BY <1>8, <4>1
      <4> QED BY <4>1, <4>2, <4>3
    <3> QED BY <1>17, <1>20, <3>1
  <2>2. From(j)' = From(j) /\ From(j) <= Use[k]
    <3>1. sub.used \in Nat
      BY <1>3 DEF Subs
    <3>2. From(j)' = From(j) /\ From(j) \in Nat /\ From(j) + sub.used = Fill
      BY <1>11, <1>13
    <3>3. From(j) <= Fill /\ Fill <= Use[k] /\ Fill \in Nat /\ Use[k] \in Nat
      BY <1>8, <1>20, <2>1, <3>1, <3>2
    <3> QED BY <3>2, <3>3
  <2> SUFFICES /\ Use[k] - Work(j)' \in -1..3
               /\ ops[Use[k] - Fill + 1] = Parts[Use[k] - Work(j)']
               /\ Use[k] = Work(j)' - 1 => k = Ring - 1
               /\ Use[k] = Work(j)' => k # Ring - 1
    <3>1. Ring' = Ring /\ Use'[k] = Use[k] /\ From(j)' <= Use[k]
      BY <1>7, <2>2
    <3> QED BY <2>1, <3>1 DEF Owns
  <2> DEFINE u == Use[k]
             w == Work(j)'
             fill == Fill
  <2>3. u \in Nat /\ fill \in Nat /\ fill <= u /\ u < fill + n /\ (k = pb.pos <=> u = fill) /\ w = fill + n - Filled(sub.i + 1)
    BY <1>8, <1>15, <1>20, <2>1
  <2>4. CASE sub.i = 1 /\ ops = <<"work", "arg">> /\ pb.pos # Ring - 1 /\ n = 2
    <3>1. w = fill /\ (u = fill \/ u = fill + 1)
      <4> HIDE DEF u, w, fill
      <4> QED BY <2>3, <2>4 DEF Filled
    <3>2. ops[1] = "work" /\ ops[2] = "arg" /\ Parts[0] = "work" /\ Parts[1] = "arg"
      BY <2>4 DEF Parts
    <3> HIDE DEF u, w, fill
    <3>3. CASE u = fill
      <4>1. u - w = 0 /\ u - fill + 1 = 1 /\ k # Ring - 1 /\ ~(u = w - 1)
        BY <2>3, <2>4, <3>1, <3>3
      <4>2. u - w \in -1..3 /\ ops[u - fill + 1] = Parts[u - w]
        BY <3>2, <4>1
      <4> QED BY <4>1, <4>2 DEF u, w, fill
    <3>4. CASE u = fill + 1
      <4>1. u - w = 1 /\ u - fill + 1 = 2 /\ u # w /\ ~(u = w - 1)
        BY <2>3, <2>4, <3>1, <3>4
      <4>2. u - w \in -1..3 /\ ops[u - fill + 1] = Parts[u - w]
        BY <3>2, <4>1
      <4> QED BY <4>1, <4>2 DEF u, w, fill
    <3> QED BY <3>1, <3>3, <3>4
  <2>5. CASE sub.i = 1 /\ ops = <<"pad", "work", "arg">> /\ pb.pos = Ring - 1 /\ n = 3
    <3>1. w = fill + 1 /\ (u = fill \/ u = fill + 1 \/ u = fill + 2)
      <4> HIDE DEF u, w, fill
      <4> QED BY <2>3, <2>5 DEF Filled
    <3>2. ops[1] = "pad" /\ ops[2] = "work" /\ ops[3] = "arg"
          /\ Parts[-1] = "pad" /\ Parts[0] = "work" /\ Parts[1] = "arg"
      BY <2>5 DEF Parts
    <3> HIDE DEF u, w, fill
    <3>3. CASE u = fill
      <4>1. u - w = -1 /\ u - fill + 1 = 1 /\ k = Ring - 1 /\ u # w
        BY <2>3, <2>5, <3>1, <3>3
      <4>2. u - w \in -1..3 /\ ops[u - fill + 1] = Parts[u - w]
        BY <3>2, <4>1
      <4> QED BY <4>1, <4>2 DEF u, w, fill
    <3>4. CASE u = fill + 1
      <4>1. u - w = 0 /\ u - fill + 1 = 2 /\ k # Ring - 1 /\ ~(u = w - 1)
        BY <2>3, <2>5, <3>1, <3>4
      <4>2. u - w \in -1..3 /\ ops[u - fill + 1] = Parts[u - w]
        BY <3>2, <4>1
      <4> QED BY <4>1, <4>2 DEF u, w, fill
    <3>5. CASE u = fill + 2
      <4>1. u - w = 1 /\ u - fill + 1 = 3 /\ u # w /\ ~(u = w - 1)
        BY <2>3, <2>5, <3>1, <3>5
      <4>2. u - w \in -1..3 /\ ops[u - fill + 1] = Parts[u - w]
        BY <3>2, <4>1
      <4> QED BY <4>1, <4>2 DEF u, w, fill
    <3> QED BY <3>1, <3>3, <3>4, <3>5
  <2>6. CASE n = 1 /\ \/ sub.i = 2 /\ ops = <<"final">>
                      \/ sub.i = 3 /\ ops = <<"release">>
    <3>1. u = fill /\ w = fill - sub.i /\ sub.i \in {2, 3}
      <4> HIDE DEF u, w, fill
      <4> QED BY <2>3, <2>6 DEF Filled
    <3>2. ops[1] = Parts[sub.i]
      BY <2>6 DEF Parts
    <3> HIDE DEF u, w, fill
    <3>3. u - w = sub.i /\ u - fill + 1 = 1 /\ u # w /\ ~(u = w - 1)
      <4>1. u \in Int /\ fill \in Int
        BY <2>3
      <4>2. CASE sub.i = 2
        BY <3>1, <4>1, <4>2
      <4>3. CASE sub.i = 3
        BY <3>1, <4>1, <4>3
      <4> QED BY <3>1, <4>2, <4>3
    <3>4. u - w \in -1..3 /\ ops[u - fill + 1] = Parts[u - w]
      BY <3>1, <3>2, <3>3
    <3> QED BY <3>3, <3>4 DEF u, w, fill
  <2> QED BY <1>16, <2>4, <2>5, <2>6
<1>21. sub'.step \in {"push", "end"} /\ (sub'.step = "end" => sub'.i = 4)
  BY <1>3, <1>5
<1> QED BY <1>3, <1>5, <1>7, <1>9, <1>10, <1>11, <1>12, <1>13, <1>14, <1>17, <1>18, <1>19, <1>20, <1>21 DEF PushedAt
LEMMA PushedEven ==
  ASSUME EHyp, NEW ops, Pushing(ops), Len(ops) \in 1..3, Len(ops) <= Space, stop' = stop
  PROVE  Even'
<1> DEFINE n == Len(ops)
<1>1. /\ Types /\ CInv /\ Numbers /\ Turns /\ Watched /\ Still /\ Packed /\ Owned /\ Engine /\ Paced
      /\ queue \in Seq(Job) /\ Elems(queue) \subseteq Job /\ Len(queue) \in Nat
  BY EvenTypes
<1>2. /\ sub.step = "push" /\ dma'.get = dma.get /\ dma'.on = dma.on /\ dma'.put \in {dma.put, pb.pos}
      /\ UNCHANGED <<scene, sp, job, queue, timer, handler, update, hung, stop>>
  BY DEF Pushing
<1>3. PICK j : j = sub.job
  OBVIOUS
<1>4. /\ n \in 1..3 /\ n = Len(ops) /\ n <= Space
  OBVIOUS
<1> HIDE DEF n
<1>5. /\ Ring' = Ring /\ Positions' = Positions /\ Use' = Use /\ Fill' = Fill + n /\ Fill + n < Ring
      /\ Held' = Held /\ Elems(queue)' = Elems(queue) /\ j \in Job /\ j \in Held /\ j \notin Elems(queue)
      /\ sub'.job = j /\ sub'.i = sub.i + 1 /\ sub'.used = sub.used + n /\ sub'.step \in {"push", "end"}
      /\ sub.i \in 1..3 /\ (sub'.step = "end" => sub'.i = 4)
      /\ \A i \in Job : From(i)' = From(i) /\ Earlier(i)' = Earlier(i)
      /\ \A i \in Elems(queue) : Work(i)' = Work(i)
      /\ Work(j)' = Work(j) + Pad(ops) /\ Pad(ops) \in 0..1
      /\ Pad(ops) = 1 => sub.i = 1 /\ Work(j) = Fill /\ From(j) = Fill
      /\ sub'.used \in {Filled(sub'.i), Filled(sub'.i) + 1}
      /\ \A k \in Positions : Use[k] < Fill => mem'[k] = mem[k]
      /\ \A k \in Positions : Fill <= Use[k] /\ Use[k] < Fill + n => Owns(j, k)'
  <2>1. PushedAt(ops, n, j)
    BY <1>3, <1>4, PushedPlace
  <2> QED BY <2>1 DEF PushedAt
<1>6. \A i \in Job : Kept(i) /\ Spared(i)
  BY <1>2 DEF Kept, Alike, Spared, Begun
<1>7. Numbers'
  <2>1. \A s \in Syncpt : /\ sp'[s].max = sp[s].max /\ {sp'[s].min, sp'[s].value} \subseteq Nat
                          /\ scene.from <= sp'[s].min /\ sp'[s].min <= sp'[s].value
                          /\ sp'[s].value <= sp[s].max
    BY <1>1, <1>2 DEF Numbers, Counted
  <2> QED BY <1>1, <1>2, <1>6, <2>1, NumbersKept DEF Kept
<1>8. Turns'
  <2>1. Shorter(0)
    <3>1. SubSeq(queue, 0 + 1, Len(queue)) = queue
      BY <1>1
    <3> QED BY <1>1, <1>2, <3>1 DEF Shorter
  <2>2. sub'.job = sub.job /\ (sub'.step = "idle" <=> sub.step = "idle")
    BY <1>2, <1>3, <1>5
  <2>3. \A i, k \in Job : i < k /\ job'[i].step = "new" => job'[k].step = "new"
    BY <1>1, <1>2 DEF Turns
  <2> QED BY <1>1, <1>6, <2>1, <2>2, <2>3, TurnsKept
<1>9. Watched'
  <2>1. \A i \in Job : Sp(i)' = Sp(i)
    BY <1>2 DEF Sp
  <2> QED BY <1>1, <1>2, <1>5, <2>1 DEF Watched
<1>10. Still'
  <2>1. dma.on /\ stop \notin {"check", "sleep"}
    BY <1>1, <1>2 DEF Still
  <2> QED BY <1>1, <1>2, <2>1 DEF Still
<1>11. /\ \A i \in Held : i \in Job /\ Work(i) \in Nat /\ From(i) \in Nat /\ (i # j => i \in Elems(queue))
       /\ \A i \in Elems(queue) : i \in Held /\ Work(i) + 4 <= Fill
       /\ Work(j) + Filled(sub.i) = Fill /\ Filled(sub.i) \in {0, 2, 3}
       /\ Fill \in Nat /\ Fill = Use[pb.pos] /\ Use[dma.get] \in Nat /\ Use[dma.put] \in Nat
       /\ \A k \in Positions : Use[k] \in Nat
  <2>1. Filled(sub.i) \in {0, 2, 3}
    BY <1>5 DEF Filled
  <2>2. \A i \in Held : i # j => i \in Elems(queue)
    BY <1>3 DEF Held
  <2>3. Fill \in Nat /\ Fill = Use[pb.pos] /\ (\A k \in Positions : Use[k] \in Nat)
        /\ dma.get \in Positions /\ dma.put \in Positions
    BY <1>1, UseFacts DEF Fill, Types
  <2>4. /\ \A i \in Held : i \in Job /\ Work(i) \in Nat /\ From(i) \in Nat
        /\ \A i \in Elems(queue) : i \in Held /\ Work(i) + 4 <= Fill
        /\ Work(j) + Filled(sub.i) = Fill
    BY <1>1, <1>2, <1>3, HeldFacts
  <2> QED BY <2>1, <2>2, <2>3, <2>4
<1>12. /\ Pad(ops) = 0 \/ (Pad(ops) = 1 /\ Work(j) = Fill /\ From(j) = Fill)
       /\ \A i \in Held : i # j \/ Pad(ops) = 0 => Work(i)' = Work(i)
  <2>1. Pad(ops) = 0 => Work(j)' = Work(j)
    BY <1>5, <1>11
  <2> QED BY <1>5, <1>11, <2>1
<1>13. Packed'
  <2>1. \A i \in Held : From(i)' = SlotsOf(job', Earlier(i)')
    BY <1>1, <1>2, <1>5, <1>11 DEF Packed
  <2>2. sub'.i \in 1..4 /\ sub'.i # 1
    BY <1>5
  <2>3. \A i \in Elems(queue) : job'[i].slots \in {4, 5}
    BY <1>1, <1>2 DEF Packed
  <2> QED BY <1>5, <2>1, <2>2, <2>3 DEF Packed
<1>14. Owned'
  <2> SUFFICES ASSUME NEW k \in Positions, Use[k] < Fill + n PROVE \E i \in Held : Owns(i, k)'
    BY <1>5 DEF Owned
  <2>1. CASE Use[k] < Fill
    <3>1. PICK i \in Held : Owns(i, k)
      BY <1>1, <2>1 DEF Owned
    <3>2. Work(i)' = Work(i)
      <4>1. ASSUME i = j, Pad(ops) = 1 PROVE FALSE
        <5>1. Fill <= Use[k] /\ Use[k] \in Nat
          BY <1>11, <1>12, <3>1, <4>1 DEF Owns
        <5> QED BY <1>11, <2>1, <5>1
      <4> QED BY <1>12, <4>1
    <3>3. From(i)' = From(i) /\ mem'[k] = mem[k]
      BY <1>5, <1>11, <2>1
    <3>4. Owns(i, k)'
      BY <1>5, <3>1, <3>2, <3>3 DEF Owns
    <3> QED BY <3>4
  <2>2. CASE ~(Use[k] < Fill)
    <3>1. Fill <= Use[k]
      BY <1>11, <2>2
    <3> QED BY <1>5, <3>1
  <2> QED BY <2>1, <2>2
<1>15. dma.on /\ Use[dma'.get] = Use[dma.get] /\ Use[dma'.put] \in {Use[dma.put], Fill}
  <2>1. dma.on
    BY <1>1, <1>2 DEF Still
  <2> QED BY <1>2, <1>11, <2>1
<1>16. /\ Use[dma.get] <= Use[dma.put] /\ Use[dma.put] <= Fill
       /\ \A i \in Held : Use[dma.get] # Work(i) + 1 /\ Use[dma.put] # Work(i) + 1
       /\ \A i \in Elems(queue) : Work(i) + 4 <= Use[dma.put]
       /\ Use[dma.get] <= Work(j) + 2
  BY <1>1, <1>2, <1>3, <1>15 DEF Engine
<1>17. Engine'
  <2> DEFINE get == Use[dma.get]
             put == Use[dma'.put]
  <2>1. /\ get \in Nat /\ put \in Nat /\ get <= put /\ put <= Fill /\ put <= Fill + n
        /\ \A i \in Elems(queue) : Work(i) + 4 <= put
    <3>1. CASE Use[dma'.put] = Use[dma.put]
      BY <1>4, <1>11, <1>16, <3>1
    <3>2. CASE Use[dma'.put] = Fill
      BY <1>4, <1>11, <1>16, <3>2
    <3> QED BY <1>15, <3>1, <3>2
  <2>2. \A i \in Elems(queue) : get # Work(i)' + 1 /\ put # Work(i)' + 1 /\ Work(i)' + 4 <= put
    <3> SUFFICES ASSUME NEW i \in Elems(queue) PROVE get # Work(i)' + 1 /\ put # Work(i)' + 1 /\ Work(i)' + 4 <= put
      OBVIOUS
    <3>1. Work(i)' = Work(i) /\ Work(i) \in Nat /\ Work(i) + 4 <= put /\ get # Work(i) + 1
      BY <1>5, <1>11, <1>16, <2>1
    <3> HIDE DEF put, get
    <3>2. put # Work(i) + 1
      BY <2>1, <3>1
    <3> QED BY <3>1, <3>2
  <2>3. get # Work(j)' + 1 /\ put # Work(j)' + 1 /\ get <= Work(j)' + 2
    <3> DEFINE w == Work(j)
               v == Work(j)'
               p == Pad(ops)
               f == Filled(sub.i)
    <3>1. /\ v = w + p /\ w \in Nat /\ p \in 0..1 /\ w + f = Fill /\ f \in {0, 2, 3} /\ (p = 1 => w = Fill)
          /\ get # w + 1 /\ get <= w + 2
      BY <1>5, <1>11, <1>16
    <3>2. put = Fill \/ put # w + 1
      BY <1>5, <1>15, <1>16
    <3> HIDE DEF w, v, p, f, get, put
    <3>3. Fill \in Nat /\ get \in Nat /\ put \in Nat /\ get <= put /\ put <= Fill
      BY <1>11, <2>1
    <3>4. get # v + 1 /\ put # v + 1 /\ get <= v + 2
      <4>1. CASE p = 0
        <5>1. v = w
          BY <3>1, <4>1
        <5>2. put # w + 1
          BY <3>1, <3>2
        <5> QED BY <3>1, <5>1, <5>2
      <4>2. CASE p = 1
        <5>1. v = Fill + 1
          BY <3>1, <4>2
        <5> QED BY <3>3, <5>1
      <4> QED BY <3>1, <4>1, <4>2
    <3> QED BY <3>4 DEF v
  <2>4. \A i \in Held : Use[dma'.get] # Work(i)' + 1 /\ Use[dma'.put] # Work(i)' + 1
    BY <1>11, <1>15, <2>2, <2>3
  <2>5. Use[dma'.get] <= Use[dma'.put] /\ Use[dma'.put] <= Fill + n /\ Use[dma'.get] <= Work(j)' + 2
    BY <1>15, <2>1, <2>3
  <2>6. \A i \in Elems(queue) : Work(i)' + 4 <= Use[dma'.put]
    BY <2>2
  <2>7. Use' = Use /\ Fill' = Fill + n /\ Held' = Held /\ Elems(queue)' = Elems(queue) /\ sub'.job = j
    BY <1>5
  <2>8. Work(sub.job)' = Work(j)'
    BY <1>5 DEF Work
  <2> HIDE DEF get, put
  <2> QED BY <2>4, <2>5, <2>6, <2>7, <2>8 DEF Engine
<1>18. Paced'
  <2>1. \A i \in Job : Value(i)' = Value(i) /\ job'[i] = job[i] /\ (Gone(i)' <=> Gone(i))
    BY <1>2, <1>3, <1>5 DEF Value, Sp, Gone, Begun
  <2>2. ASSUME NEW i \in Held, i # j \/ Pad(ops) = 0 PROVE Reaches(i)'
    <3>1. Reaches(i) /\ Work(i)' = Work(i) /\ Value(i)' = Value(i) /\ job'[i] = job[i] /\ Use'[dma'.get] = Use[dma.get]
      BY <1>1, <1>2, <1>5, <1>11, <1>12, <2>1, <2>2 DEF Paced
    <3> QED BY <3>1 DEF Reaches
  <2>3. ASSUME Pad(ops) = 1 PROVE Reaches(j)'
    <3>1. Reaches(j) /\ Value(j)' = Value(j) /\ job'[j] = job[j] /\ Use'[dma'.get] = Use[dma.get]
      BY <1>1, <1>2, <1>5, <2>1 DEF Paced
    <3>2. Use[dma.get] <= Work(j) /\ Work(j) = Fill /\ Use[dma.get] <= Work(j) + 2
      BY <1>11, <1>12, <1>16, <2>3
    <3>3. Work(j)' = Fill + 1
      BY <1>5, <2>3, <3>2
    <3>4. Value(j) < job[j].end /\ Value(j) <= job[j].end
      BY <3>1, <3>2 DEF Reaches
    <3>5. ~(Use[dma.get] >= Work(j)' + 2) /\ ~(Use[dma.get] >= Work(j)' + 3)
      BY <1>11, <3>2, <3>3
    <3> QED BY <3>1, <3>4, <3>5 DEF Reaches
  <2>4. \A i \in Held : Reaches(i)'
    BY <1>12, <2>2, <2>3
  <2>5. WholeJobs'
    BY <1>1, <2>1 DEF WholeJobs, Paced
  <2> QED BY <1>1, <1>5, <2>1, <2>4, <2>5 DEF Paced
<1> QED BY <1>7, <1>8, <1>9, <1>10, <1>13, <1>14, <1>17, <1>18 DEF Even

LEMMA PushesEven == ASSUME EHyp, PushWide \/ Push PROVE Even'
BY PushEither, WaitsEven, PushedEven

-----------------------------------------------------------------------------
(* ... and is queued, when the engine is not done with it.                 *)

EndsAt(j) ==
  /\ sub.step = "end" /\ sub.i = 4 /\ dma.on /\ j \in Job /\ j # 0 /\ j \in Held /\ j \notin Elems(queue)
  /\ dma'.get = dma.get /\ dma'.put = pb.pos /\ dma'.on = dma.on
  /\ UNCHANGED <<scene, pb, mem, sp, handler, hung, stop>> /\ (update => update')
  /\ sub'.step = "idle" /\ sub'.job = 0
  /\ Elems(queue') = Elems(queue) \cup {j} /\ queue' # <<>>
  /\ queue = <<>> => queue'[1] = j /\ timer' = [client |-> j, pending |-> TRUE]
  /\ queue # <<>> => queue'[1] = queue[1] /\ queue[1] \in Elems(queue) /\ timer' = timer
  /\ \A i \in Job \ {j} : job'[i] = job[i]
  /\ \A i \in Job : Alike(i) /\ Spared(i) /\ job'[i].timed = job[i].timed
  /\ job'[j].first = sub.first /\ job'[j].slots = sub.used
  /\ job'[j].fence = "pending" /\ job'[j].step = "held"

LEMMA EndEnds == ASSUME EHyp, End, NEW j, j = sub.job PROVE EndsAt(j)
<1>1. /\ Types /\ CInv /\ Numbers /\ Turns /\ Watched /\ Still /\ Packed /\ Engine /\ Paced /\ NoWrap
      /\ queue \in Seq(Job) /\ Elems(queue) \subseteq Job /\ Len(queue) \in Nat /\ job \in [Job -> Jobs]
      /\ dma \in [get : Positions, put : Positions, on : BOOLEAN]
  BY EvenTypes
<1> DEFINE missed == Expired(sp[Sp(j)].min, job[j].thresh)
<1>2. /\ sub.step = "end" /\ dma' = [dma EXCEPT !.put = pb.pos] /\ queue' = Append(queue, j)
      /\ sub' = [step |-> "idle", job |-> 0, i |-> 0, free |-> 0, used |-> 0, first |-> 0]
      /\ UNCHANGED <<scene, pb, mem, sp, handler, hung, stop>>
      /\ timer' = IF queue = <<>> /\ timer.client = 0 THEN [client |-> j, pending |-> TRUE] ELSE timer
      /\ update' = (update \/ missed)
      /\ job' = [job EXCEPT ![j] = [@ EXCEPT !.step = "held", !.first = sub.first, !.slots = sub.used,
                                             !.fence = IF missed THEN "missed" ELSE "pending"]]
  BY DEF End, Flush
<1>3. /\ j \in Job /\ j # 0 /\ j \in Held /\ j \notin Elems(queue) /\ Begun(j) /\ sub.i = 4 /\ dma.on
  <2>1. j \in Job /\ j # 0
    <3>1. sub.step # "idle"
      BY <1>2
    <3>2. sub.job \in 1..NJobs /\ Job = 1..NJobs
      BY <1>1, <3>1, ReachFacts
    <3>3. \A i \in Job : i >= 1 /\ i \in Nat
      BY <1>1, NumberTypes
    <3>4. j \in Job
      BY <3>2
    <3> QED BY <3>3, <3>4
  <2> QED BY <1>1, <1>2, <2>1, HeldFacts DEF Packed, Turns, Still
<1>4. ~missed
  <2>1. Use[dma.get] <= Work(j) + 2 /\ Reaches(j)
    BY <1>1, <1>2, <1>3 DEF Engine, Paced
  <2>2. Value(j) <= job[j].end
    BY <2>1 DEF Reaches
  <2>3. Sp(j) \in Syncpt
    BY <1>1, <1>3, NumberTypes
  <2>4. /\ sp[Sp(j)].min \in scene.from..sp[Sp(j)].max /\ sp[Sp(j)].min <= Value(j)
        /\ Value(j) \in Nat /\ sp[Sp(j)].min \in Nat
    BY <1>1, <2>3, Between DEF Value
  <2>5. missed <=> sp[Sp(j)].min >= job[j].end + 1
    BY <1>1, <1>3, <2>4, ReachedThresh
  <2>6. job[j].end \in Nat
    BY <1>1, <1>3 DEF Numbers, Numbered
  <2> QED BY <2>2, <2>4, <2>5, <2>6
<1> HIDE DEF missed
<1>5. job' = [job EXCEPT ![j] = [@ EXCEPT !.step = "held", !.first = sub.first, !.slots = sub.used,
                                          !.fence = "pending"]]
  BY <1>2, <1>4
<1>6. /\ Elems(queue') = Elems(queue) \cup {j} /\ Len(queue') = Len(queue) + 1 /\ queue' \in Seq(Job)
      /\ queue'[Len(queue) + 1] = j /\ \A i \in 1..Len(queue) : queue'[i] = queue[i]
  BY <1>1, <1>2, <1>3, AppendFacts, AppendProperties
<1>7. queue' # <<>>
  BY <1>1, <1>6
<1>8. queue = <<>> => queue'[1] = j /\ timer' = [client |-> j, pending |-> TRUE]
  <2>1. queue = <<>> => Len(queue) = 0 /\ timer.client = 0
    BY <1>1 DEF Watched
  <2> QED BY <1>2, <1>6, <2>1
<1>9. queue # <<>> => queue'[1] = queue[1] /\ queue[1] \in Elems(queue) /\ timer' = timer
  <2>1. queue # <<>> => 1 \in 1..Len(queue)
    BY <1>1
  <2> QED BY <1>2, <1>6, <2>1 DEF Elems
<1>10. \A i \in Job \ {j} : job'[i] = job[i]
  BY <1>1, <1>5
<1>11. job[j] \in Jobs
  BY <1>1, <1>3
<1>12. /\ job'[j].step = "held" /\ job'[j].end = job[j].end /\ job'[j].thresh = job[j].thresh
       /\ job'[j].first = sub.first /\ job'[j].slots = sub.used /\ job'[j].fence = "pending"
       /\ job'[j].ran = job[j].ran
  BY <1>1, <1>3, <1>5, <1>11 DEF Jobs
<1>13. job'[j].cancelled = job[j].cancelled
  BY <1>1, <1>3, <1>5, <1>11 DEF Jobs
<1>14. job'[j].failed = job[j].failed
  BY <1>1, <1>3, <1>5, <1>11 DEF Jobs
<1>15. job'[j].timed = job[j].timed
  BY <1>1, <1>3, <1>5, <1>11 DEF Jobs
<1>16. ASSUME NEW i \in Job PROVE Alike(i) /\ Spared(i) /\ job'[i].timed = job[i].timed
  <2>1. CASE i # j
    BY <1>10, <2>1 DEF Alike, Spared, Begun
  <2>2. CASE i = j
    BY <1>3, <1>12, <1>13, <1>14, <1>15, <2>2 DEF Alike, Spared, Begun
  <2> QED BY <2>1, <2>2
<1>17. dma'.get = dma.get /\ dma'.put = pb.pos /\ dma'.on = dma.on /\ sub'.step = "idle" /\ sub'.job = 0
  BY <1>1, <1>2
<1>18. update => update'
  BY <1>2
<1> QED BY <1>2, <1>3, <1>6, <1>7, <1>8, <1>9, <1>10, <1>12, <1>16, <1>17, <1>18 DEF EndsAt

LEMMA EndEven == ASSUME EHyp, End PROVE Even'
<1>1. /\ Types /\ CInv /\ Numbers /\ Turns /\ Watched /\ Still /\ Packed /\ Owned /\ Engine /\ Paced
      /\ Elems(queue) \subseteq Job /\ job \in [Job -> Jobs]
  BY EvenTypes
<1>2. PICK j : j = sub.job
  OBVIOUS
<1>3. /\ sub.step = "end" /\ sub.i = 4 /\ dma.on /\ j \in Job /\ j # 0 /\ j \in Held /\ j \notin Elems(queue)
      /\ dma'.get = dma.get /\ dma'.put = pb.pos /\ dma'.on = dma.on
      /\ UNCHANGED <<scene, pb, mem, sp, handler, hung, stop>> /\ (update => update')
      /\ sub'.step = "idle" /\ sub'.job = 0
      /\ Elems(queue') = Elems(queue) \cup {j} /\ queue' # <<>>
      /\ queue = <<>> => queue'[1] = j /\ timer' = [client |-> j, pending |-> TRUE]
      /\ queue # <<>> => queue'[1] = queue[1] /\ queue[1] \in Elems(queue) /\ timer' = timer
      /\ \A i \in Job \ {j} : job'[i] = job[i]
      /\ \A i \in Job : Alike(i) /\ Spared(i) /\ job'[i].timed = job[i].timed
      /\ job'[j].first = sub.first /\ job'[j].slots = sub.used
      /\ job'[j].fence = "pending" /\ job'[j].step = "held"
  <2>1. EndsAt(j)
    BY <1>2, EndEnds
  <2> QED BY <2>1 DEF EndsAt
<1>4. Numbers' /\ Turns'
  BY <1>1, EndQueues
<1>5. /\ Ring' = Ring /\ Positions' = Positions /\ Use' = Use /\ Fill' = Fill
      /\ Elems(queue)' = Elems(queue) \cup {j} /\ Held' = Held /\ Held = Elems(queue) \cup {j}
  <2>1. Ring' = Ring /\ Positions' = Positions /\ Use' = Use /\ Fill' = Fill
    BY <1>3 DEF Ring, Positions, Use, Dist, Fill
  <2>2. Elems(queue)' = Elems(queue) \cup {j}
    BY <1>3 DEF Elems
  <2> QED BY <1>2, <1>3, <2>1, <2>2 DEF Held
<1>6. \A i \in Job : Value(i)' = Value(i) /\ Sp(i)' = Sp(i) /\ Sp(i) \in Syncpt /\ job'[i].end = job[i].end
                     /\ job'[i].ran = job[i].ran /\ job'[i].thresh = job[i].thresh
  BY <1>1, <1>3, NumberTypes DEF Value, Sp, Alike, Spared
<1>7. Still'
  <2>1. ASSUME NEW i \in Job
        PROVE  /\ ~job'[i].cancelled /\ ~job'[i].failed /\ job'[i].fence # "missed"
               /\ job'[i].step \in {"new", "refused", "submit"} => job'[i].fence = "none"
    <3>1. ~job'[i].cancelled /\ ~job'[i].failed
      BY <1>1, <1>3 DEF Still, Spared
    <3>2. CASE i = j
      BY <1>3, <3>1, <3>2
    <3>3. CASE i # j
      BY <1>1, <1>3, <3>1, <3>3 DEF Still
    <3> QED BY <3>2, <3>3
  <2> QED BY <1>1, <1>3, <2>1 DEF Still
<1>8. Watched'
  <2>1. \A i \in Job : job'[i].timed
    BY <1>1, <1>3 DEF Watched
  <2>2. ASSUME NEW i \in Elems(queue) \cup {j}, job'[i].fence # "pending" PROVE sp'[Sp(i)'].min >= job'[i].thresh
    <3>1. i \in Elems(queue) /\ job'[i] = job[i] /\ i \in Job
      BY <1>1, <1>3, <2>2
    <3> QED BY <1>1, <1>3, <1>6, <2>2, <3>1 DEF Watched
  <2>3. timer' = [client |-> queue'[1], pending |-> TRUE]
    BY <1>1, <1>3 DEF Watched
  <2>4. ~update' => job'[queue'[1]].fence = "pending"
    <3>1. CASE queue = <<>>
      BY <1>3, <3>1
    <3>2. CASE queue # <<>>
      <4>1. queue'[1] = queue[1] /\ queue[1] \in Elems(queue) /\ job'[queue[1]] = job[queue[1]]
        BY <1>1, <1>3, <3>2
      <4> QED BY <1>1, <1>3, <3>2, <4>1 DEF Watched
    <3> QED BY <3>1, <3>2
  <2> QED BY <1>3, <1>5, <2>1, <2>2, <2>3, <2>4 DEF Watched
<1>9. /\ Work(j) + 4 = Fill /\ From(j) + sub.used = Fill /\ sub.used \in {4, 5} /\ Fill \in Nat
      /\ \A i \in Held : i \in Job /\ i \in Nat /\ Work(i) \in Nat /\ From(i) \in Nat
      /\ \A i \in Elems(queue) : i # j /\ i < j /\ Work(i) + 4 <= Fill
  <2>1. /\ Work(j) + Filled(sub.i) = Fill /\ From(j) + sub.used = Fill
        /\ \A i \in Held : i \in Job /\ i \in Nat /\ Work(i) \in Nat /\ From(i) \in Nat
        /\ \A i \in Elems(queue) : i # j /\ i < j /\ Work(i) + 4 <= Fill
    BY <1>1, <1>2, <1>3, HeldFacts
  <2>2. sub.used \in {Filled(sub.i), Filled(sub.i) + 1} /\ Filled(sub.i) = 4
    BY <1>1, <1>3 DEF Packed, Filled
  <2>3. Fill \in Nat
    BY <1>1, UseFacts
  <2> QED BY <2>1, <2>2, <2>3
<1>10. ASSUME NEW i \in Held PROVE From(i)' = From(i) /\ Work(i)' = Work(i)
  <2>1. /\ i \in Job /\ i # 0
        /\ From(i)' = Use[job'[i].first] /\ Work(i)' = From(i)' + job'[i].slots - 4
    <3>1. i \in Job /\ i # 0
      BY <1>1, <1>9, NumberTypes
    <3> QED BY <1>3, <1>5, <3>1 DEF From, Work
  <2>2. CASE i # j
    <3>1. job'[i] = job[i] /\ i # sub.job
      BY <1>2, <1>3, <2>1, <2>2
    <3> QED BY <2>1, <3>1 DEF From, Work
  <2>3. CASE i = j
    <3>1. From(j)' = From(j) /\ Work(j)' = From(j) + sub.used - 4
      BY <1>2, <1>3, <2>1, <2>3 DEF From
    <3>2. From(j) \in Nat /\ Work(j) \in Nat
      BY <1>3, <1>9
    <3>3. Work(j)' = Work(j)
      BY <1>9, <3>1, <3>2
    <3> QED BY <2>3, <3>1, <3>3
  <2> QED BY <2>2, <2>3
<1>11. ASSUME NEW i \in Held PROVE Earlier(i)' = Earlier(i) /\ j \notin Earlier(i)
  <2>1. Earlier(i)' = {k \in Elems(queue) \cup {j} : k < i} /\ Earlier(i) = {k \in Elems(queue) : k < i}
    BY <1>5 DEF Earlier
  <2>2. ~(j < i)
    BY <1>3, <1>5, <1>9
  <2> QED BY <1>3, <2>1, <2>2
<1>12. Packed'
  <2>1. Counts(job) /\ Counts(job')
    <3>1. sub.used \in Nat
      BY <1>9
    <3>2. Counts(job)
      BY <1>1, SpaceFacts
    <3> QED BY <1>3, <3>1, <3>2 DEF Counts
  <2>2. ASSUME NEW i \in Held PROVE From(i)' = SlotsOf(job', Earlier(i)')
    <3>1. Earlier(i) \in SUBSET Job /\ \A k \in Earlier(i) : job[k].slots = job'[k].slots
      BY <1>1, <1>3, <1>11 DEF Earlier
    <3>2. SlotsOf(job, Earlier(i)) = SlotsOf(job', Earlier(i))
      BY <2>1, <3>1, SlotsSame
    <3>3. From(i) = SlotsOf(job, Earlier(i))
      BY <1>1 DEF Packed
    <3> QED BY <1>10, <1>11, <3>2, <3>3
  <2>3. \A i \in Elems(queue) \cup {j} : job'[i].slots \in {4, 5}
    BY <1>1, <1>3, <1>9 DEF Packed
  <2> QED BY <1>3, <1>5, <2>2, <2>3 DEF Packed
<1>13. Owned'
  <2>1. ASSUME NEW i \in Held, NEW k \in Positions, Owns(i, k) PROVE Owns(i, k)'
    BY <1>3, <1>5, <1>10, <2>1 DEF Owns
  <2> QED BY <1>1, <1>5, <2>1 DEF Owned
<1>14. /\ Use[dma.get] <= Use[dma.put] /\ Use[dma.put] <= Fill /\ Use[dma.get] \in Nat /\ Use[dma.put] \in Nat
       /\ \A i \in Held : Use[dma.get] # Work(i) + 1
       /\ Fill = Use[pb.pos]
  <2>1. dma.get \in Positions /\ dma.put \in Positions /\ \A k \in Positions : Use[k] \in Nat
    BY <1>1, UseFacts DEF Types
  <2> QED BY <1>1, <1>3, <2>1 DEF Engine, Fill
<1>15. Engine'
  <2>1. Use'[dma'.get] = Use[dma.get] /\ Use'[dma'.put] = Fill
    BY <1>3, <1>5, <1>14
  <2>2. Use[dma.get] <= Fill /\ Fill <= Fill
    BY <1>9, <1>14
  <2>3. \A i \in Held : i \in Elems(queue) \/ i = j
    BY <1>5
  <2>4. \A i \in Held : Work(i)' = Work(i) /\ Work(i) + 4 <= Fill /\ Fill # Work(i) + 1
    <3> SUFFICES ASSUME NEW i \in Held PROVE Work(i)' = Work(i) /\ Work(i) + 4 <= Fill /\ Fill # Work(i) + 1
      OBVIOUS
    <3>1. Work(i) + 4 <= Fill /\ Work(i) \in Nat
      BY <1>9, <2>3
    <3> QED BY <1>9, <1>10, <3>1
  <2>5. \A i \in Held : Use'[dma'.get] # Work(i)' + 1 /\ Use'[dma'.put] # Work(i)' + 1 /\ Work(i)' + 4 <= Use'[dma'.put]
    BY <1>14, <2>1, <2>4
  <2> QED BY <1>3, <1>5, <2>1, <2>2, <2>5 DEF Engine
<1>16. Paced'
  <2>1. ASSUME NEW i \in Held PROVE Reaches(i)'
    <3>1. /\ Reaches(i) /\ Value(i)' = Value(i) /\ job'[i].end = job[i].end /\ job'[i].ran = job[i].ran
          /\ Work(i)' = Work(i) /\ Use'[dma'.get] = Use[dma.get]
      BY <1>1, <1>3, <1>5, <1>6, <1>9, <1>10 DEF Paced
    <3> QED BY <3>1 DEF Reaches
  <2>2. ASSUME NEW i \in Job, Gone(i)' PROVE Value(i)' > job'[i].end /\ "work" \in job'[i].ran
    <3>1. Gone(i)
      BY <1>2, <1>3, <1>5, <2>2 DEF Gone, Alike, Begun
    <3> QED BY <1>1, <1>6, <3>1 DEF Paced
  <2>3. WholeJobs'
    BY <1>1, <1>6 DEF WholeJobs, Paced
  <2> QED BY <1>5, <2>1, <2>2, <2>3 DEF Paced
<1> QED BY <1>4, <1>7, <1>8, <1>12, <1>13, <1>15, <1>16 DEF Even

-----------------------------------------------------------------------------
(* What the engine has yet to fetch.                                       *)

\* A slot among those of a job is its own.
LEMMA PlacedAt ==
  ASSUME CInv, Turns, Packed, Owned, NEW j \in Held, NEW k \in Positions,
         From(j) <= Use[k], Use[k] <= Work(j) + 3, Use[k] < Fill
  PROVE  Owns(j, k) /\ mem[k] = [job |-> j, op |-> Parts[Use[k] - Work(j)]]
<1>1. PICK i \in Held :
        /\ Owns(i, k) /\ Use[k] - Work(i) \in -1..3 /\ Use[k] \in Nat
        /\ mem[k] = [job |-> i, op |-> Parts[Use[k] - Work(i)]]
        /\ j < i => Work(j) + 4 <= Use[k]
        /\ i < j => Work(i) + 4 <= From(j)
        /\ j = i \/ j < i \/ i < j
  BY Owner
<1>2. Work(i) \in Nat /\ Work(j) \in Nat /\ From(j) \in Nat
  BY HeldFacts
<1>3. ~(j < i)
  BY <1>1, <1>2
<1>4. ~(i < j)
  BY <1>1, <1>2
<1> QED BY <1>1, <1>3, <1>4

\* When the CPU looks, the engine has fetched all of a job whose end it has reached.
LEMMA SettledPast ==
  ASSUME EHyp, Settled, NEW m \in Elems(queue), Value(m) >= job[m].end
  PROVE  dma.on /\ Work(m) + 4 <= Use[dma.get]
<1>1. /\ Types /\ CInv /\ Numbers /\ Turns /\ Still /\ Packed /\ Owned /\ Engine /\ Paced /\ NoWrap /\ Submission
      /\ Elems(queue) \subseteq Job /\ "late" \notin env
  BY EvenTypes
<1>2. dma.on
  <2>1. queue # <<>>
    BY DEF Elems
  <2> QED BY <1>1, <2>1 DEF Still
<1>3. /\ m \in Held /\ m \in Job /\ Begun(m) /\ Work(m) \in Nat /\ From(m) \in Nat /\ From(m) <= Work(m)
      /\ Queued(m) /\ job[m].step # "submit"
  BY <1>1, HeldFacts DEF Turns, Queued, Elems, Submission
<1>4. dma.get \in Positions /\ dma.put \in Positions /\ Use[dma.get] \in Nat /\ Use[dma.put] \in Nat /\ Fill \in Nat
  BY <1>1, UseFacts DEF Types
<1>5. Value(m) \in scene.from..sp[Sp(m)].max /\ Value(m) \in Nat /\ job[m].end \in Nat
  BY <1>1, <1>3, NumberTypes, Between, Reached DEF Value
<1>6. /\ Use[dma.get] # Work(m) + 1 /\ Work(m) + 4 <= Use[dma.put] /\ Use[dma.put] <= Fill
      /\ Reaches(m)
  BY <1>1, <1>2, <1>3 DEF Engine, Paced
<1>7. ~(Use[dma.get] <= Work(m))
  BY <1>5, <1>6 DEF Reaches
<1> SUFFICES ASSUME Use[dma.get] < Work(m) + 4 PROVE FALSE
  BY <1>2, <1>3, <1>4
<1>8. Use[dma.get] = Work(m) + 2 \/ Use[dma.get] = Work(m) + 3
  BY <1>3, <1>4, <1>6, <1>7
<1>9. Busy
  <2>1. Use[dma.get] # Use[dma.put]
    BY <1>3, <1>4, <1>6, <1>8
  <2> QED BY <1>2, <2>1 DEF Busy
<1>10. At = [job |-> m, op |-> Parts[Use[dma.get] - Work(m)]]
  <2>1. From(m) <= Use[dma.get] /\ Use[dma.get] <= Work(m) + 3 /\ Use[dma.get] < Fill
    BY <1>3, <1>4, <1>6, <1>8
  <2> QED BY <1>1, <1>3, <1>4, <2>1, PlacedAt DEF At
<1>11. CASE Use[dma.get] = Work(m) + 2
  <2>1. Use[dma.get] - Work(m) = 2
    BY <1>3, <1>11
  <2>2. At.job = m /\ At.op = "final"
    BY <1>10, <2>1 DEF Parts
  <2>3. Runs
    BY <1>3, <1>9, <2>2 DEF Runs, CanRun, InTime
  <2> QED BY <1>1, <1>3, <2>2, <2>3 DEF Settled
<1>12. CASE Use[dma.get] = Work(m) + 3
  <2>1. Use[dma.get] - Work(m) = 3
    BY <1>3, <1>12
  <2>2. At.job = m /\ At.op = "release"
    BY <1>10, <2>1 DEF Parts
  <2>3. Value(m) > job[m].end
    BY <1>3, <1>6, <1>12 DEF Reaches
  <2>4. Expired(sp[Sp(m)].value, job[m].thresh)
    <3>1. Value(m) >= job[m].end + 1
      BY <1>5, <2>3
    <3> QED BY <1>1, <1>3, <1>5, <3>1, ReachedThresh DEF Value
  <2>5. Runs
    BY <1>9, <2>2, <2>4 DEF Runs, CanRun, InTime
  <2> QED BY <1>1, <1>3, <2>2, <2>5 DEF Settled
<1> QED BY <1>8, <1>11, <1>12

-----------------------------------------------------------------------------
(* Completion: jobs leave whose slots are behind the engine.               *)

Leaves(n) ==
  /\ n \in 0..Len(queue) /\ Shorter(n) /\ queue' \in Seq(Job)
  /\ Elems(queue) = Out(n) \cup Elems(queue') /\ Out(n) \cap Elems(queue') = {} /\ Out(n) \subseteq Job
  /\ \A m \in Out(n), i \in Elems(queue') : m < i
  /\ n = 0 => Out(n) = {}
  /\ n # 0 => \E m \in Out(n) : Earlier(m) \cup {m} = Out(n)
  /\ pb'.pos = pb.pos /\ pb'.fence = (pb.fence + SlotsOf(job, Out(n))) % Ring
  /\ UNCHANGED <<scene, sp, mem, dma, sub, handler, stop, hung>> /\ update' = FALSE
  /\ \A j \in Job : /\ Kept(j) /\ Spared(j) /\ job'[j].timed = job[j].timed
                    /\ job'[j].step = job[j].step /\ job'[j].fence # "missed"
                    /\ job'[j].step \in {"new", "refused", "submit"} => job'[j].fence = job[j].fence
  /\ \A j \in Elems(queue') : job'[j] = job[j]
  /\ \A m \in Out(n) : Over(job, sp, m)
  /\ queue' # <<>> => ~Over(job, sp, queue'[1])
  /\ timer' = IF queue' = <<>> THEN [client |-> 0, pending |-> FALSE]
              ELSE [client |-> queue'[1], pending |-> TRUE]

LEMMA UpdateLeaves == ASSUME EHyp, Update PROVE \E n : Leaves(n)
<1> DEFINE n == Retired(job, sp)
           out == {queue[i] : i \in 1..n}
           rest == SubSeq(queue, n + 1, Len(queue))
           hangs == n > 0 /\ Hangs(job, queue[n])
<1>1. /\ Types /\ CInv /\ Turns /\ Watched /\ Still /\ Elems(queue) \subseteq Job /\ job \in [Job -> Jobs]
      /\ queue \in Seq(Job) /\ Distinct(queue) /\ Len(queue) \in Nat /\ pb \in [pos : Positions, fence : Positions]
  BY EvenTypes, SubFacts DEF Submission
<1>2. /\ n \in 0..Len(queue) /\ \A i \in 1..n : Over(job, sp, queue[i])
      /\ n < Len(queue) => ~Over(job, sp, queue[n + 1]) \/ hangs
  BY <1>1, RetiredFacts
<1>3. /\ UpdateLocked(job, sp) /\ update' = FALSE
      /\ UNCHANGED <<scene, sp, mem, dma, sub, handler, stop>>
  BY DEF Update
<1>4. /\ queue' = rest /\ hung' = hangs
      /\ pb' = [pb EXCEPT !.fence = (@ + SlotsOf(job, out)) % Ring]
      /\ job' = [j \in Job |-> IF j \in out /\ job[j].step = "done" THEN [job[j] EXCEPT !.fence = "gone"]
                               ELSE job[j]]
  BY <1>3 DEF UpdateLocked
<1>5. ~hangs
  <2>1. n > 0 => queue[n] \in Job
    <3>1. n > 0 => n \in 1..Len(queue)
      BY <1>1, <1>2
    <3> QED BY <1>1, <3>1
  <2> QED BY <1>1, <2>1 DEF Still, Hangs
<1>0. hangs \in BOOLEAN /\ hung \in BOOLEAN /\ ~hung
  BY <1>1 DEF Types, Still
<1> HIDE DEF n, hangs
<1>6. hung' = hung
  <2>1. hangs = FALSE /\ hung = FALSE
    BY <1>0, <1>5
  <2> QED BY <1>4, <2>1
<1>7. out = Out(n)
  BY DEF Out
<1>8. /\ queue' \in Seq(Job) /\ Elems(queue) = Out(n) \cup Elems(queue') /\ Out(n) \cap Elems(queue') = {}
      /\ Out(n) \subseteq Job
  BY <1>1, <1>2, <1>4, RestFacts
<1>9. Shorter(n)
  BY <1>2, <1>4 DEF Shorter
<1>10. /\ Len(queue') = Len(queue) - n /\ n \in Nat /\ (n = 0 => queue' = queue)
       /\ Elems(queue') = {queue[i] : i \in (n + 1)..Len(queue)}
       /\ \A i \in 1..Len(queue') : queue'[i] = queue[n + i]
  BY <1>1, <1>9, ShorterFacts
<1>11. ASSUME NEW m \in Out(n), NEW i \in Elems(queue') PROVE m < i
  <2>1. PICK a \in 1..n : m = queue[a]
    BY DEF Out
  <2>2. PICK b \in (n + 1)..Len(queue) : i = queue[b]
    BY <1>10
  <2>3. a \in 1..Len(queue) /\ b \in 1..Len(queue) /\ a < b
    BY <1>1, <1>2, <1>10
  <2> QED BY <1>1, <2>1, <2>2, <2>3 DEF Turns
<1>12. n = 0 => Out(n) = {}
  BY DEF Out
<1>13. ASSUME n # 0 PROVE \E m \in Out(n) : Earlier(m) \cup {m} = Out(n)
  <2> DEFINE m == queue[n]
  <2>1. n \in 1..n /\ n \in 1..Len(queue) /\ m \in Job /\ m \in Out(n) /\ m \in Elems(queue)
    <3>1. n \in 1..n /\ n \in 1..Len(queue)
      BY <1>2, <1>10, <1>13
    <3> QED BY <1>1, <3>1 DEF Out, Elems
  <2>2. ASSUME NEW i \in Earlier(m) PROVE i \in Out(n)
    <3>1. i \in Elems(queue) /\ i < m
      BY DEF Earlier
    <3>2. PICK a \in 1..Len(queue) : i = queue[a]
      BY <3>1 DEF Elems
    <3>3. ~(n < a)
      <4>1. n < a => m < i
        BY <1>1, <2>1, <3>2 DEF Turns
      <4>2. i \in Nat /\ m \in Nat
        BY <1>1, <2>1, <3>1, NumberTypes
      <4> QED BY <3>1, <4>1, <4>2
    <3>4. a = n \/ a \in 1..n
      BY <1>10, <3>2, <3>3
    <3> QED BY <2>1, <3>2, <3>4 DEF Out
  <2>3. ASSUME NEW i \in Out(n) PROVE i \in Earlier(m) \cup {m}
    <3>1. PICK a \in 1..n : i = queue[a]
      BY DEF Out
    <3>2. a \in 1..Len(queue)
      BY <1>1, <1>2, <3>1
    <3>3. a < n => i < m
      BY <1>1, <2>1, <3>1, <3>2 DEF Turns
    <3>4. i \in Elems(queue)
      BY <3>1, <3>2 DEF Elems
    <3>5. a < n \/ a = n
      BY <1>10, <3>1
    <3> QED BY <3>1, <3>3, <3>4, <3>5 DEF Earlier
  <2>4. Earlier(m) \cup {m} = Out(n)
    BY <2>1, <2>2, <2>3
  <2> QED BY <2>1, <2>4
<1>14. ASSUME NEW j \in Job
       PROVE  /\ Kept(j) /\ Spared(j) /\ job'[j].timed = job[j].timed
              /\ job'[j].step = job[j].step /\ job'[j].fence # "missed"
              /\ job'[j].step \in {"new", "refused", "submit"} => job'[j].fence = job[j].fence
  <2>1. job[j] \in Jobs /\ job[j].fence # "missed"
    BY <1>1 DEF Still
  <2>2. CASE job'[j] = job[j]
    BY <2>1, <2>2 DEF Kept, Alike, Spared, Begun
  <2>3. CASE job[j].step = "done" /\ job'[j] = [job[j] EXCEPT !.fence = "gone"]
    <3>1. /\ job'[j].step = job[j].step /\ job'[j].fence = "gone" /\ job'[j].end = job[j].end
          /\ job'[j].first = job[j].first /\ job'[j].slots = job[j].slots /\ job'[j].thresh = job[j].thresh
          /\ job'[j].ran = job[j].ran
      BY <2>1, <2>3 DEF Jobs
    <3>2. job'[j].cancelled = job[j].cancelled
      BY <2>1, <2>3 DEF Jobs
    <3>3. job'[j].failed = job[j].failed
      BY <2>1, <2>3 DEF Jobs
    <3>4. job'[j].timed = job[j].timed
      BY <2>1, <2>3 DEF Jobs
    <3> QED BY <2>3, <3>1, <3>2, <3>3, <3>4 DEF Kept, Alike, Spared, Begun
  <2> QED BY <1>4, <2>2, <2>3
<1>15. /\ \A j \in Elems(queue') : job'[j] = job[j]
       /\ queue' # <<>> => ~Over(job, sp, queue'[1])
       /\ \/ timer' = timer /\ queue' = queue /\ timer.client # 0
          \/ timer' = IF queue' # <<>> THEN [client |-> queue'[1], pending |-> TRUE]
                      ELSE [client |-> 0, pending |-> FALSE]
  <2>1. \A j \in Job : job[j].timed
    BY <1>1 DEF Watched
  <2>2. /\ \A j \in Elems(queue') : job'[j] = job[j]
        /\ queue' # <<>> /\ ~hung' => ~Over(job, sp, queue'[1])
        /\ \/ hung'
           \/ timer' = timer /\ queue' = queue /\ timer.client # 0
           \/ /\ timer.client = 0 \/ Over(job, sp, queue[1])
              /\ timer' = IF queue' # <<>> THEN [client |-> queue'[1], pending |-> TRUE]
                          ELSE [client |-> 0, pending |-> FALSE]
    BY <1>1, <1>3, <2>1, UpdatedClock
  <2>3. ~hung'
    BY <1>4, <1>5
  <2> QED BY <2>2, <2>3
<1>16. timer' = IF queue' = <<>> THEN [client |-> 0, pending |-> FALSE]
                ELSE [client |-> queue'[1], pending |-> TRUE]
  <2>1. timer = IF queue = <<>> THEN [client |-> 0, pending |-> FALSE]
                ELSE [client |-> queue[1], pending |-> TRUE]
    BY <1>1 DEF Watched
  <2> QED BY <1>15, <2>1
<1>17. \A m \in Out(n) : Over(job, sp, m)
  BY <1>2 DEF Out
<1>18. pb'.pos = pb.pos /\ pb'.fence = (pb.fence + SlotsOf(job, Out(n))) % Ring
  BY <1>1, <1>4, <1>7
<1>19. Leaves(n)
  BY <1>2, <1>3, <1>6, <1>8, <1>9, <1>11, <1>12, <1>13, <1>14, <1>15, <1>16, <1>17, <1>18 DEF Leaves
<1> QED BY <1>19

\* Everything is that much nearer to the first slot in use.
Shifted(n, m) ==
  /\ Ring' = Ring /\ Positions' = Positions /\ m \in Nat /\ Fill' = Fill - m /\ m <= Fill
  /\ Elems(queue)' = Elems(queue') /\ Held' \subseteq Held /\ Held' = Held \ Out(n)
  /\ \A k \in Positions : Use'[k] = IF Use[k] >= m THEN Use[k] - m ELSE Use[k] - m + Ring
  /\ \A i \in Held' : m <= From(i) /\ From(i)' = From(i) - m /\ Work(i)' = Work(i) - m
  /\ \A i \in Held' : Earlier(i) = Out(n) \cup Earlier(i)' /\ Out(n) \cap Earlier(i)' = {}
  /\ \A i \in Out(n) : Work(i) + 4 <= m

LEMMA LeavesShift ==
  ASSUME EHyp, NEW n, Leaves(n), NEW m, m = SlotsOf(job, Out(n))
  PROVE  Shifted(n, m) /\ (Out(n) = {} => m = 0)
         /\ (Out(n) # {} => \E i \in Out(n) : m = Work(i) + 4)
<1>1. /\ Types /\ CInv /\ Turns /\ Packed /\ Submission /\ Elems(queue) \subseteq Job /\ job \in [Job -> Jobs]
      /\ queue \in Seq(Job) /\ Counts(job)
  BY EvenTypes, SpaceFacts
<1>2. /\ Elems(queue) = Out(n) \cup Elems(queue') /\ Out(n) \cap Elems(queue') = {} /\ Out(n) \subseteq Job
      /\ \A i \in Out(n), k \in Elems(queue') : i < k
      /\ n = 0 => Out(n) = {}
      /\ n # 0 => \E i \in Out(n) : Earlier(i) \cup {i} = Out(n)
      /\ pb'.pos = pb.pos /\ pb'.fence = (pb.fence + m) % Ring
      /\ UNCHANGED <<scene, sub>>
      /\ \A j \in Job : job'[j].first = job[j].first /\ job'[j].slots = job[j].slots
  BY DEF Leaves, Kept
<1>3. m \in Nat
  BY <1>1, <1>2, SlotsNat
<1>4. Out(n) = {} => m = 0
  BY SlotsOne
<1>5. Out(n) # {} => \E i \in Out(n) : m = Work(i) + 4
  <2> SUFFICES ASSUME Out(n) # {} PROVE \E i \in Out(n) : m = Work(i) + 4
    OBVIOUS
  <2>1. PICK i \in Out(n) : Earlier(i) \cup {i} = Out(n)
    BY <1>2
  <2>2. SlotsOf(job, Earlier(i) \cup {i}) = Work(i) + 4
    BY <1>1, <1>2, SlotsBefore
  <2> QED BY <2>1, <2>2
<1>6. m <= Fill
  <2>1. SlotsOf(job, Out(n)) <= SlotsOf(job, Elems(queue)) /\ SlotsOf(job, Elems(queue)) \in Nat
    <3>1. Elems(queue) \in SUBSET Job /\ Out(n) \in SUBSET Elems(queue)
      BY <1>1, <1>2
    <3> QED BY <1>1, <3>1, SlotsMore
  <2>2. Fill = sub.used + SlotsOf(job, Elems(queue)) /\ sub.used \in Nat
    BY <1>1, UseFill
  <2> QED BY <1>3, <2>1, <2>2
<1>7. /\ Ring \in Nat /\ Fill \in 0..(Ring - 1) /\ Positions = 0..(Ring - 1) /\ pb.pos \in Positions
      /\ \A k \in Positions : Use[k] \in 0..(Ring - 1)
  BY <1>1, UseFacts
<1>8. m \in 0..(Ring - 1)
  BY <1>3, <1>6, <1>7
<1>9. /\ Ring' = Ring /\ Positions' = Positions
      /\ \A k \in Positions : Use'[k] = IF Use[k] >= m THEN Use[k] - m ELSE Use[k] - m + Ring
  BY <1>1, <1>2, <1>8, UseFreed
<1>10. Fill' = Fill - m
  <2>1. Fill' = Use'[pb.pos] /\ Fill = Use[pb.pos]
    BY <1>2 DEF Fill
  <2> QED BY <1>6, <1>7, <1>9, <2>1
<1>11. /\ Held \subseteq Job /\ Elems(queue) \subseteq Held
       /\ \A i \in Held : From(i) \in Nat /\ Work(i) \in Nat
       /\ \A i \in Elems(queue), k \in Held : i < k => Work(i) + 4 <= From(k)
       /\ \A i \in Elems(queue) : i # sub.job
       /\ sub.step # "idle" => sub.job \in Held /\ \A i \in Elems(queue) : i < sub.job
  BY <1>1, HeldFacts
<1>12. Elems(queue)' = Elems(queue') /\ Held' = Held \ Out(n) /\ Held' \subseteq Held
  <2>1. Elems(queue)' = Elems(queue')
    BY DEF Elems
  <2>2. Held' = Elems(queue') \cup (IF sub.step = "idle" THEN {} ELSE {sub.job})
    BY <1>2, <2>1 DEF Held
  <2>3. \A i \in Out(n) : i # sub.job
    BY <1>2, <1>11
  <2>4. Held' = Held \ Out(n)
    BY <1>2, <2>2, <2>3 DEF Held
  <2> QED BY <2>1, <2>4
<1>13. \A i \in Out(n), k \in Held' : i \in Elems(queue) /\ i < k
  <2> SUFFICES ASSUME NEW i \in Out(n), NEW k \in Held' PROVE i \in Elems(queue) /\ i < k
    OBVIOUS
  <2>1. i \in Elems(queue)
    BY <1>2
  <2>2. k \in Elems(queue') \/ (sub.step # "idle" /\ k = sub.job)
    BY <1>2, <1>12 DEF Held
  <2> QED BY <1>2, <1>11, <2>1, <2>2
<1>14. ASSUME NEW k \in Held' PROVE m <= From(k)
  <2>1. From(k) \in Nat
    BY <1>11, <1>12
  <2>2. CASE Out(n) = {}
    BY <1>4, <2>1, <2>2
  <2>3. CASE Out(n) # {}
    <3>1. PICK i \in Out(n) : m = Work(i) + 4
      BY <1>5, <2>3
    <3>2. i \in Elems(queue) /\ i < k /\ k \in Held
      BY <1>12, <1>13
    <3> QED BY <1>11, <3>1, <3>2
  <2> QED BY <2>2, <2>3
<1>15. ASSUME NEW k \in Held' PROVE From(k)' = From(k) - m
  <2> DEFINE f == IF k = sub.job THEN sub.first ELSE job[k].first
  <2>1. k \in Job /\ f \in Positions
    <3>1. k \in Job
      BY <1>11, <1>12
    <3> QED BY <1>1, <3>1 DEF Types, Jobs
  <2>2. From(k) = Use[f]
    BY DEF From
  <2>3. From(k)' = Use'[f]
    BY <1>2, <2>1 DEF From
  <2> HIDE DEF f
  <2>4. Use'[f] = IF Use[f] >= m THEN Use[f] - m ELSE Use[f] - m + Ring
    BY <1>9, <2>1
  <2>5. m <= Use[f]
    BY <1>14, <2>2
  <2> QED BY <2>2, <2>3, <2>4, <2>5
<1>16. ASSUME NEW k \in Held' PROVE Work(k)' = Work(k) - m
  <2>0. k \in Job /\ From(k) \in Nat /\ job'[k].slots = job[k].slots /\ job[k].slots \in Nat
    BY <1>1, <1>2, <1>11, <1>12 DEF Counts
  <2>1. CASE k = sub.job
    <3>1. Work(k) = Fill - Filled(sub.i) /\ Work(k)' = Fill' - Filled(sub.i)
      BY <1>2, <2>1 DEF Work
    <3>2. Filled(sub.i) \in Nat
      BY <1>1 DEF Types, Filled
    <3> DEFINE c == Filled(sub.i)
    <3> HIDE DEF c
    <3>3. Work(k) = Fill - c /\ Work(k)' = Fill - m - c /\ c \in Nat
      BY <1>10, <3>1, <3>2 DEF c
    <3> QED BY <1>3, <1>7, <3>3
  <2>2. CASE k # sub.job
    <3>1. Work(k) = From(k) + job[k].slots - 4 /\ Work(k)' = From(k)' + job'[k].slots - 4
      BY <1>2, <2>2 DEF Work
    <3>2. Work(k)' = From(k) - m + job[k].slots - 4
      BY <1>15, <2>0, <3>1
    <3> QED BY <1>3, <2>0, <3>1, <3>2
  <2> QED BY <2>1, <2>2
<1>17. ASSUME NEW k \in Held' PROVE Earlier(k) = Out(n) \cup Earlier(k)' /\ Out(n) \cap Earlier(k)' = {}
  <2>1. Earlier(k)' = {i \in Elems(queue') : i < k} /\ Earlier(k) = {i \in Elems(queue) : i < k}
    BY <1>12 DEF Earlier
  <2> QED BY <1>2, <1>13, <2>1
<1>18. ASSUME NEW i \in Out(n) PROVE Work(i) + 4 <= m
  <2>1. PICK l \in Out(n) : Earlier(l) \cup {l} = Out(n) /\ m = Work(l) + 4
    <3>1. PICK l \in Out(n) : Earlier(l) \cup {l} = Out(n)
      BY <1>2
    <3>2. SlotsOf(job, Earlier(l) \cup {l}) = Work(l) + 4
      BY <1>1, <1>2, SlotsBefore
    <3> QED BY <3>1, <3>2
  <2>2. i \in Elems(queue) /\ l \in Held /\ Work(i) \in Nat /\ Work(l) \in Nat /\ From(l) \in Nat /\ From(l) <= Work(l)
    BY <1>1, <1>2, <1>11, HeldFacts
  <2>3. CASE i = l
    BY <2>1, <2>2, <2>3
  <2>4. CASE i < l
    <3>1. Work(i) + 4 <= From(l)
      BY <1>11, <2>2, <2>4
    <3> QED BY <2>1, <2>2, <3>1
  <2> QED BY <2>1, <2>3, <2>4 DEF Earlier
<1> QED BY <1>3, <1>4, <1>5, <1>6, <1>9, <1>10, <1>12, <1>14, <1>15, <1>16, <1>17, <1>18 DEF Shifted

LEMMA UpdateEven == ASSUME EHyp, UpdateRuns PROVE Even'
<1>1. /\ Types /\ CInv /\ Numbers /\ Turns /\ Watched /\ Still /\ Packed /\ Owned /\ Engine /\ Paced /\ NoWrap
      /\ Elems(queue) \subseteq Job /\ job \in [Job -> Jobs]
  BY EvenTypes
<1>2. PICK n : Leaves(n)
  BY UpdateLeaves DEF UpdateRuns
<1>3. PICK m : m = SlotsOf(job, Out(n))
  OBVIOUS
<1>4. /\ Shorter(n) /\ queue' \in Seq(Job)
      /\ Elems(queue) = Out(n) \cup Elems(queue') /\ Out(n) \subseteq Job
      /\ UNCHANGED <<scene, sp, mem, dma, sub, handler, stop, hung>> /\ update' = FALSE
      /\ \A j \in Job : /\ Kept(j) /\ Spared(j) /\ job'[j].timed = job[j].timed
                        /\ job'[j].step = job[j].step /\ job'[j].fence # "missed"
                        /\ job'[j].step \in {"new", "refused", "submit"} => job'[j].fence = job[j].fence
      /\ \A j \in Elems(queue') : job'[j] = job[j]
      /\ \A i \in Out(n) : Over(job, sp, i)
      /\ queue' # <<>> => ~Over(job, sp, queue'[1])
      /\ timer' = IF queue' = <<>> THEN [client |-> 0, pending |-> FALSE]
                  ELSE [client |-> queue'[1], pending |-> TRUE]
  BY <1>2 DEF Leaves
<1>5. /\ Ring' = Ring /\ Positions' = Positions /\ m \in Nat /\ Fill' = Fill - m /\ m <= Fill
      /\ Elems(queue)' = Elems(queue') /\ Held' \subseteq Held /\ Held' = Held \ Out(n)
      /\ \A k \in Positions : Use'[k] = IF Use[k] >= m THEN Use[k] - m ELSE Use[k] - m + Ring
      /\ \A i \in Held' : m <= From(i) /\ From(i)' = From(i) - m /\ Work(i)' = Work(i) - m
      /\ \A i \in Held' : Earlier(i) = Out(n) \cup Earlier(i)' /\ Out(n) \cap Earlier(i)' = {}
      /\ \A i \in Out(n) : Work(i) + 4 <= m
      /\ Out(n) = {} => m = 0
      /\ Out(n) # {} => \E i \in Out(n) : m = Work(i) + 4
  BY <1>2, <1>3, LeavesShift DEF Shifted
<1>6. /\ Ring \in Nat /\ Ring > 5 /\ Fill \in 0..(Ring - 1) /\ Positions = 0..(Ring - 1)
      /\ \A k \in Positions : Use[k] \in 0..(Ring - 1)
      /\ dma.get \in Positions /\ dma.put \in Positions
  BY <1>1, UseFacts DEF Types
<1>7. /\ Held \subseteq Job /\ Elems(queue) \subseteq Held
      /\ \A i \in Held : From(i) \in Nat /\ Work(i) \in Nat /\ From(i) <= Work(i)
  BY <1>1, HeldFacts
<1>8. \A i \in Job : Value(i)' = Value(i) /\ Sp(i)' = Sp(i) /\ Sp(i) \in Syncpt /\ job'[i].end = job[i].end
                     /\ job'[i].ran = job[i].ran /\ job'[i].thresh = job[i].thresh
  BY <1>1, <1>4, NumberTypes DEF Value, Sp, Kept, Alike, Spared
<1>9. ASSUME NEW i \in Elems(queue)
      PROVE  /\ Expired(sp[Sp(i)].min, job[i].end) <=> sp[Sp(i)].min >= job[i].end
             /\ Over(job, sp, i) <=> sp[Sp(i)].min >= job[i].end
             /\ sp[Sp(i)].min \in Nat /\ sp[Sp(i)].min <= Value(i) /\ Value(i) \in Nat /\ job[i].end \in Nat
             /\ job[i].thresh = job[i].end + 1
  <2>1. i \in Job /\ Begun(i) /\ Sp(i) \in Syncpt
    BY <1>1, <1>8 DEF Turns
  <2>2. /\ sp[Sp(i)].min \in scene.from..sp[Sp(i)].max /\ sp[Sp(i)].min \in Nat
        /\ sp[Sp(i)].min <= Value(i) /\ Value(i) \in Nat
    BY <1>1, <2>1, Between DEF Value
  <2>3. Expired(sp[Sp(i)].min, job[i].end) <=> sp[Sp(i)].min >= job[i].end
    BY <1>1, <2>1, <2>2, Reached
  <2>4. ~job[i].cancelled
    BY <1>1, <2>1 DEF Still
  <2>5. job[i].end \in Nat /\ job[i].thresh = job[i].end + 1
    BY <1>1, <2>1 DEF Numbers, Numbered
  <2> QED BY <2>2, <2>3, <2>4, <2>5 DEF Over
<1>10. ASSUME NEW i \in Out(n) PROVE dma.on /\ Work(i) + 4 <= Use[dma.get]
  <2>1. i \in Elems(queue) /\ Value(i) >= job[i].end
    BY <1>4, <1>9
  <2>2. Settled
    BY DEF UpdateRuns
  <2> QED BY <2>1, <2>2, SettledPast
<1>11. m <= Use[dma.get]
  <2>1. CASE Out(n) = {}
    BY <1>5, <1>6, <2>1
  <2>2. CASE Out(n) # {}
    BY <1>5, <1>10, <2>2
  <2> QED BY <2>1, <2>2
<1>12. Use'[dma'.get] = Use[dma.get] - m
  BY <1>4, <1>5, <1>6, <1>11
<1>13. Numbers'
  <2>1. \A s \in Syncpt : /\ sp'[s].max = sp[s].max /\ {sp'[s].min, sp'[s].value} \subseteq Nat
                          /\ scene.from <= sp'[s].min /\ sp'[s].min <= sp'[s].value
                          /\ sp'[s].value <= sp[s].max
    BY <1>1, <1>4 DEF Numbers, Counted
  <2> QED BY <1>1, <1>4, <2>1, NumbersKept DEF Kept
<1>14. Turns'
  <2>1. \A i, k \in Job : i < k /\ job'[i].step = "new" => job'[k].step = "new"
    BY <1>1, <1>4 DEF Turns
  <2> QED BY <1>1, <1>4, <2>1, TurnsKept
<1>15. Watched'
  <2>1. \A i \in Job : job'[i].timed
    BY <1>1, <1>4 DEF Watched
  <2>2. ASSUME NEW i \in Elems(queue'), job'[i].fence # "pending" PROVE sp[Sp(i)].min >= job[i].thresh
    BY <1>1, <1>4, <2>2 DEF Watched
  <2>3. \A i \in Elems(queue') : job'[i].fence # "pending" => sp'[Sp(i)'].min >= job'[i].thresh
    BY <1>4, <1>7, <1>8, <2>2
  <2>4. queue' # <<>> => job'[queue'[1]].fence = "pending"
    <3> SUFFICES ASSUME queue' # <<>>, job'[queue'[1]].fence # "pending" PROVE FALSE
      OBVIOUS
    <3> DEFINE h == queue'[1]
    <3>1. h \in Elems(queue')
      <4>1. Len(queue') # 0 /\ Len(queue') \in Nat
        BY <1>4
      <4>2. 1 \in 1..Len(queue')
        BY <4>1
      <4> QED BY <4>2 DEF Elems
    <3>2. job'[h].fence # "pending" /\ ~Over(job, sp, h)
      BY <1>4
    <3> HIDE DEF h
    <3>3. h \in Elems(queue) /\ sp[Sp(h)].min >= job[h].thresh
      BY <1>4, <2>2, <3>1, <3>2
    <3>4. ~(sp[Sp(h)].min >= job[h].end)
      BY <1>9, <3>2, <3>3
    <3> QED BY <1>9, <3>3, <3>4
  <2> QED BY <1>4, <1>5, <2>1, <2>3, <2>4 DEF Watched
<1>16. Still'
  <2>1. ASSUME NEW i \in Job
        PROVE  /\ ~job'[i].cancelled /\ ~job'[i].failed /\ job'[i].fence # "missed"
               /\ job'[i].step \in {"new", "refused", "submit"} => job'[i].fence = "none"
    BY <1>1, <1>4 DEF Still, Spared
  <2>2. queue = <<>> => queue' = <<>>
    <3>1. queue = <<>> => Elems(queue) = {}
      BY EmptyFacts
    <3>2. queue' # <<>> => 1 \in 1..Len(queue')
      <4>1. queue' # <<>> => Len(queue') # 0 /\ Len(queue') \in Nat
        BY <1>4
      <4> QED BY <4>1
    <3> QED BY <1>4, <3>1, <3>2 DEF Elems
  <2> QED BY <1>1, <1>4, <2>1, <2>2 DEF Still
<1>17. Packed'
  <2>1. Counts(job) /\ Counts(job')
    BY <1>1, <1>4, SpaceFacts DEF Counts, Kept
  <2>2. ASSUME NEW i \in Held' PROVE From(i)' = SlotsOf(job', Earlier(i)')
    <3>1. Earlier(i) \in SUBSET Job /\ Earlier(i) = Out(n) \cup Earlier(i)' /\ Out(n) \cap Earlier(i)' = {}
          /\ From(i) = SlotsOf(job, Earlier(i)) /\ From(i)' = From(i) - m
      BY <1>1, <1>5 DEF Earlier, Packed
    <3> DEFINE e == Earlier(i)'
    <3>2. e \in SUBSET Job /\ Out(n) \in SUBSET Job /\ Out(n) \cap e = {}
      BY <1>4, <3>1
    <3>3. SlotsOf(job, Out(n) \cup e) = m + SlotsOf(job, e)
      <4> HIDE DEF e
      <4> QED BY <1>3, <2>1, <3>2, SlotsBoth
    <3>4. SlotsOf(job, e) = SlotsOf(job', e) /\ SlotsOf(job, e) \in Nat
      <4>1. \A k \in e : job[k].slots = job'[k].slots
        BY <1>4, <3>2 DEF Kept
      <4> HIDE DEF e
      <4> QED BY <2>1, <3>2, <4>1, SlotsSame, SlotsNat
    <3>5. From(i) = m + SlotsOf(job, e)
      BY <3>1, <3>3
    <3> HIDE DEF e
    <3>6. From(i)' = SlotsOf(job', e)
      BY <1>5, <3>1, <3>4, <3>5
    <3> QED BY <3>6 DEF e
  <2>3. \A i \in Elems(queue') : job'[i].slots \in {4, 5}
    BY <1>1, <1>4 DEF Packed
  <2> QED BY <1>1, <1>4, <1>5, <2>2, <2>3 DEF Packed
<1>18. Owned'
  <2> SUFFICES ASSUME NEW k \in Positions, Use'[k] < Fill' PROVE \E i \in Held' : Owns(i, k)'
    BY <1>5 DEF Owned
  <2>1. Use[k] \in 0..(Ring - 1) /\ Use'[k] = (IF Use[k] >= m THEN Use[k] - m ELSE Use[k] - m + Ring)
    BY <1>5, <1>6
  <2>2. Use[k] >= m /\ Use'[k] = Use[k] - m /\ Use[k] < Fill
    BY <1>5, <1>6, <2>1
  <2>3. PICK i \in Held : Owns(i, k)
    BY <1>1, <2>2 DEF Owned
  <2>4. i \notin Out(n)
    <3> SUFFICES ASSUME i \in Out(n) PROVE FALSE
      OBVIOUS
    <3>1. Work(i) + 4 <= m /\ Use[k] - Work(i) \in -1..3 /\ Work(i) \in Nat
      BY <1>5, <1>7, <2>3 DEF Owns
    <3> QED BY <1>5, <2>1, <2>2, <3>1
  <2>5. i \in Held' /\ From(i)' = From(i) - m /\ Work(i)' = Work(i) - m /\ From(i) \in Nat /\ Work(i) \in Nat
    BY <1>5, <1>7, <2>3, <2>4
  <2>6. /\ From(i) <= Use[k] /\ Use[k] - Work(i) \in -1..3
        /\ mem[k] = [job |-> i, op |-> Parts[Use[k] - Work(i)]]
        /\ (Use[k] = Work(i) - 1 => k = Ring - 1) /\ (Use[k] = Work(i) => k # Ring - 1)
    BY <2>3 DEF Owns
  <2>7. /\ Use'[k] - Work(i)' = Use[k] - Work(i) /\ From(i)' <= Use'[k]
        /\ (Use'[k] = Work(i)' - 1 <=> Use[k] = Work(i) - 1) /\ (Use'[k] = Work(i)' <=> Use[k] = Work(i))
    BY <1>5, <2>1, <2>2, <2>5, <2>6
  <2>8. Owns(i, k)'
    BY <1>4, <1>5, <2>6, <2>7 DEF Owns
  <2> QED BY <2>5, <2>8
<1>19. ASSUME NEW i \in Held' PROVE i \in Held /\ i \in Job /\ Work(i)' = Work(i) - m /\ Work(i) \in Nat /\ m <= Work(i)
  <2>1. i \in Held /\ m <= From(i) /\ From(i) \in Nat /\ From(i) <= Work(i) /\ Work(i) \in Nat
    BY <1>5, <1>7
  <2> QED BY <1>5, <1>7, <2>1
<1>20. Engine'
  <2> SUFFICES ASSUME dma.on PROVE Engine'
    BY <1>4 DEF Engine
  <2>1. /\ Use[dma.get] <= Use[dma.put] /\ Use[dma.put] <= Fill
        /\ \A j \in Held : Use[dma.get] # Work(j) + 1 /\ Use[dma.put] # Work(j) + 1
        /\ \A j \in Elems(queue) : Work(j) + 4 <= Use[dma.put]
        /\ sub.step # "idle" => Use[dma.get] <= Work(sub.job) + 2
    BY <1>1 DEF Engine
  <2> DEFINE get == Use[dma.get]
             put == Use[dma.put]
  <2>2. get \in Nat /\ put \in Nat /\ m <= get /\ get <= put /\ put <= Fill /\ Fill \in Nat
    BY <1>6, <1>11, <2>1
  <2>3. Use'[dma'.get] = get - m /\ Use'[dma'.put] = put - m
    <3>1. Use'[dma.put] = IF put >= m THEN put - m ELSE put - m + Ring
      BY <1>5, <1>6
    <3>2. put >= m
      BY <1>5, <2>2
    <3> QED BY <1>4, <1>12, <3>1, <3>2
  <2>4. Use'[dma'.get] <= Use'[dma'.put] /\ Use'[dma'.put] <= Fill'
    BY <1>5, <2>2, <2>3
  <2>5. ASSUME NEW i \in Held'
        PROVE  /\ Use'[dma'.get] # Work(i)' + 1 /\ Use'[dma'.put] # Work(i)' + 1
               /\ i \in Elems(queue') => Work(i)' + 4 <= Use'[dma'.put]
               /\ i = sub.job /\ sub.step # "idle" => Use'[dma'.get] <= Work(i)' + 2
    <3>1. /\ get # Work(i) + 1 /\ put # Work(i) + 1 /\ (i \in Elems(queue') => Work(i) + 4 <= put)
          /\ (i = sub.job /\ sub.step # "idle" => get <= Work(i) + 2)
      BY <1>4, <1>19, <2>1
    <3>2. Work(i)' = Work(i) - m /\ Work(i) \in Nat /\ m <= Work(i)
      BY <1>19
    <3> DEFINE w == Work(i)
               v == Work(i)'
               g == Use'[dma'.get]
               p == Use'[dma'.put]
    <3>3. /\ g = get - m /\ p = put - m /\ v = w - m /\ w \in Nat
          /\ get # w + 1 /\ put # w + 1 /\ (i \in Elems(queue') => w + 4 <= put)
          /\ (i = sub.job /\ sub.step # "idle" => get <= w + 2)
      BY <2>3, <3>1, <3>2
    <3> HIDE DEF w, v, g, p, get, put
    <3>4. /\ g # v + 1 /\ p # v + 1 /\ (i \in Elems(queue') => v + 4 <= p)
          /\ (i = sub.job /\ sub.step # "idle" => g <= v + 2)
      BY <1>5, <2>2, <3>3
    <3> QED BY <3>4 DEF g, p, v
  <2>6. sub.step # "idle" => sub.job \in Held'
    BY <1>4, <1>5 DEF Held
  <2>7. Elems(queue') \subseteq Held'
    BY <1>5 DEF Held
  <2>8. sub'.step # "idle" => Use'[dma'.get] <= Work(sub.job)' + 2
    <3> SUFFICES ASSUME sub.step # "idle" PROVE Use'[dma'.get] <= Work(sub.job)' + 2
      BY <1>4
    <3>1. PICK j \in Held' : j = sub.job
      BY <2>6
    <3>2. Use'[dma'.get] <= Work(j)' + 2
      BY <2>5, <3>1
    <3>3. Work(sub.job)' = Work(j)'
      BY <1>4, <3>1 DEF Work
    <3> QED BY <3>2, <3>3
  <2> HIDE DEF get, put
  <2> QED BY <1>5, <2>4, <2>5, <2>7, <2>8 DEF Engine
<1>21. Paced'
  <2>1. ASSUME NEW i \in Held' PROVE Reaches(i)'
    <3>1. /\ Reaches(i) /\ Value(i)' = Value(i) /\ job'[i].end = job[i].end /\ job'[i].ran = job[i].ran
          /\ Use'[dma'.get] = Use[dma.get] - m
      BY <1>1, <1>8, <1>12, <1>19 DEF Paced
    <3>2. Work(i)' = Work(i) - m /\ Work(i) \in Nat /\ Use[dma.get] \in Nat
      BY <1>6, <1>19
    <3> DEFINE w == Work(i)
               v == Work(i)'
               get == Use[dma.get]
               g == Use'[dma'.get]
    <3>3. g = get - m /\ v = w - m /\ w \in Nat /\ get \in Nat
      BY <3>1, <3>2
    <3>4. /\ get <= w => Value(i) < job[i].end
          /\ get <= w + 2 => Value(i) <= job[i].end
          /\ get >= w + 2 => Value(i) >= job[i].end /\ "work" \in job[i].ran
          /\ get >= w + 3 => Value(i) > job[i].end
      BY <3>1 DEF Reaches
    <3> HIDE DEF w, v, get, g
    <3>5. /\ g <= v <=> get <= w
          /\ g <= v + 2 <=> get <= w + 2
          /\ g >= v + 2 <=> get >= w + 2
          /\ g >= v + 3 <=> get >= w + 3
      BY <1>5, <3>3
    <3>6. /\ g <= v => Value(i)' < job'[i].end
          /\ g <= v + 2 => Value(i)' <= job'[i].end
          /\ g >= v + 2 => Value(i)' >= job'[i].end /\ "work" \in job'[i].ran
          /\ g >= v + 3 => Value(i)' > job'[i].end
      BY <3>1, <3>4, <3>5
    <3> QED BY <3>6 DEF Reaches, g, v
  <2>2. ASSUME NEW i \in Job, Gone(i)' PROVE Value(i)' > job'[i].end /\ "work" \in job'[i].ran
    <3>1. CASE i \in Out(n)
      <4>1. /\ Work(i) + 4 <= Use[dma.get] /\ Reaches(i) /\ Work(i) \in Nat /\ Use[dma.get] \in Nat
        BY <1>1, <1>4, <1>6, <1>7, <1>10, <3>1 DEF Paced
      <4>2. Use[dma.get] >= Work(i) + 3 /\ Use[dma.get] >= Work(i) + 2
        BY <4>1
      <4> QED BY <1>8, <4>1, <4>2 DEF Reaches
    <3>2. CASE i \notin Out(n)
      <4>1. Begun(i) /\ i # sub.job /\ i \notin Elems(queue)
        BY <1>4, <1>5, <2>2, <3>2 DEF Gone, Kept, Alike, Begun
      <4> QED BY <1>1, <1>8, <4>1 DEF Gone, Paced
    <3> QED BY <3>1, <3>2
  <2>3. WholeJobs'
    BY <1>1, <1>8 DEF WholeJobs, Paced
  <2> QED BY <2>1, <2>2, <2>3 DEF Paced
<1> QED BY <1>13, <1>14, <1>15, <1>16, <1>17, <1>18, <1>20, <1>21 DEF Even

-----------------------------------------------------------------------------
(* No timer goes off.                                                      *)

\* The engine is at a command of a job, between those of the jobs before and after it.
Doing(j, d) ==
  /\ Use[dma.get] = Work(j) + d /\ At = [job |-> j, op |-> Parts[d]]
  /\ d = -1 <=> At.op = "pad"
  /\ d = 0 <=> At.op = "work"
  /\ d = 2 <=> At.op = "final"
  /\ d = 3 <=> At.op = "release"
  /\ Owns(j, dma.get) /\ Reaches(j) /\ j \in Job /\ Work(j) \in Nat
  /\ dma.on /\ Use[dma.get] < Use[dma.put] /\ Use[dma.put] <= Fill
  /\ \A i \in Held : /\ i < j => Work(i) + 4 <= Use[dma.get]
                     /\ j < i => j \in Elems(queue) /\ Work(j) + 4 <= From(i)
                     /\ i = j \/ i < j \/ j < i
LEMMA Fetches == ASSUME EHyp, Busy PROVE \E j \in Held, d \in {-1, 0, 2, 3} : Doing(j, d)
<1>1. Types /\ CInv /\ Turns /\ Packed /\ Owned /\ Engine /\ Paced
  BY EvenTypes
<1>2. dma.get \in Positions /\ dma.put \in Positions /\ Use[dma.get] \in Nat /\ Use[dma.put] \in Nat /\ Fill \in Nat
  BY <1>1, UseFacts DEF Types
<1>3. dma.on /\ dma.get # dma.put /\ Use[dma.get] <= Use[dma.put] /\ Use[dma.put] <= Fill
  BY <1>1 DEF Busy, Engine
<1>4. Use[dma.get] # Use[dma.put]
  BY <1>1, <1>2, <1>3, UseFacts
<1>5. Use[dma.get] < Use[dma.put] /\ Use[dma.get] < Fill
  BY <1>2, <1>3, <1>4
<1>6. PICK j \in Held :
           /\ Owns(j, dma.get) /\ Use[dma.get] - Work(j) \in -1..3
           /\ mem[dma.get] = [job |-> j, op |-> Parts[Use[dma.get] - Work(j)]]
           /\ \A i \in Held : /\ i < j => Work(i) + 4 <= Use[dma.get]
                              /\ j < i => j \in Elems(queue) /\ Work(j) + 4 <= From(i)
                              /\ i = j \/ i < j \/ j < i
  BY <1>1, <1>2, <1>5, Owner
<1>7. Work(j) \in Nat /\ j \in Job /\ Reaches(j) /\ Use[dma.get] # Work(j) + 1
  BY <1>1, <1>3, HeldFacts DEF Engine, Paced
<1>8. PICK d \in -1..3 : d = Use[dma.get] - Work(j)
  BY <1>6
<1>9. d \in {-1, 0, 2, 3} /\ Use[dma.get] = Work(j) + d
  BY <1>2, <1>7, <1>8
<1>10. At = [job |-> j, op |-> Parts[d]]
  BY <1>6, <1>8 DEF At
<1>11. /\ Parts[-1] = "pad" /\ Parts[0] = "work" /\ Parts[2] = "final" /\ Parts[3] = "release"
  BY DEF Parts
<1>12. /\ d = -1 <=> At.op = "pad"
       /\ d = 0 <=> At.op = "work"
       /\ d = 2 <=> At.op = "final"
       /\ d = 3 <=> At.op = "release"
  BY <1>9, <1>10, <1>11
<1> QED BY <1>3, <1>5, <1>6, <1>7, <1>9, <1>10, <1>12 DEF Doing

\* It goes on with the jobs that are queued.
LEMMA EngineGoesOn == ASSUME EHyp, Busy, At.job \in Elems(queue) PROVE Runs
<1>1. PICK j \in Held, d \in {-1, 0, 2, 3} :
        /\ Use[dma.get] = Work(j) + d /\ At = [job |-> j, op |-> Parts[d]]
        /\ d = 3 <=> At.op = "release"
        /\ Reaches(j) /\ j \in Job /\ Work(j) \in Nat
  BY Fetches DEF Doing
<1>2. /\ Types /\ Numbers /\ Turns /\ NoWrap /\ scene.hangs = {} /\ Submission
  BY EvenTypes
<1>3. At.job = j /\ j \in Elems(queue) /\ Begun(j) /\ job[j].step # "submit"
  BY <1>1, <1>2 DEF Turns, Submission
<1>4. At.op = "release" => Expired(sp[Sp(j)].value, job[j].thresh)
  <2> SUFFICES ASSUME At.op = "release" PROVE Expired(sp[Sp(j)].value, job[j].thresh)
    OBVIOUS
  <2>1. Use[dma.get] >= Work(j) + 3
    BY <1>1
  <2>2. Value(j) > job[j].end
    BY <1>1, <2>1 DEF Reaches
  <2>3. Value(j) \in scene.from..sp[Sp(j)].max /\ Value(j) \in Nat /\ job[j].end \in Nat
    BY <1>1, <1>2, <1>3, NumberTypes, Between, Reached DEF Value
  <2>4. Value(j) >= job[j].end + 1
    BY <2>2, <2>3
  <2> QED BY <1>1, <1>2, <1>3, <2>3, <2>4, ReachedThresh DEF Value
<1> QED BY <1>2, <1>3, <1>4 DEF Runs, CanRun, InTime

\* The timer of the first job waits while the engine is at work with it.
LEMMA TimerEven == ASSUME EHyp, TimerGoesOff PROVE FALSE
<1>1. /\ Types /\ Numbers /\ Turns /\ NoWrap /\ Watched /\ Still /\ Engine /\ Paced /\ CInv /\ Packed
      /\ queue \in Seq(Job) /\ Len(queue) \in Nat /\ Elems(queue) \subseteq Job
  BY EvenTypes
<1>2. timer.pending /\ AtRest
  BY EvenTypes DEF TimerGoesOff, TimerFires
<1>3. queue # <<>> /\ ~update
  BY <1>1, <1>2 DEF Watched, AtRest
<1>4. PICK c : c = queue[1]
  OBVIOUS
<1>5. 1 \in 1..Len(queue) /\ c \in Elems(queue)
  <2>1. Len(queue) # 0
    BY <1>1, <1>3
  <2>2. 1 \in 1..Len(queue)
    BY <1>1, <2>1
  <2> QED BY <1>4, <2>2 DEF Elems
<1>6. /\ job[c].fence = "pending" /\ c \in Job /\ Sp(c) \in Syncpt /\ Begun(c) /\ c \in Held /\ dma.on
  BY <1>1, <1>3, <1>4, <1>5, NumberTypes DEF Watched, Turns, Held, Still
<1>7. Value(c) \in scene.from..sp[Sp(c)].max /\ Value(c) \in Nat /\ job[c].end \in Nat
  BY <1>1, <1>6, Between, Reached DEF Value
<1>8. ~(Value(c) > job[c].end)
  <2>1. ~Expired(Value(c), job[c].thresh)
    BY <1>2, <1>6 DEF AtRest, Due, Value
  <2>2. ~(Value(c) >= job[c].end + 1)
    BY <1>1, <1>6, <1>7, <2>1, ReachedThresh
  <2> QED BY <1>7, <2>2
<1>9. Reaches(c) /\ Work(c) + 4 <= Use[dma.put] /\ Work(c) \in Nat /\ Use[dma.get] \in Nat /\ Use[dma.put] \in Nat
  BY <1>1, <1>5, <1>6, HeldFacts, UseFacts DEF Engine, Paced, Types
<1>10. Use[dma.get] < Work(c) + 3
  BY <1>8, <1>9 DEF Reaches
<1>11. Busy
  <2>1. Use[dma.get] # Use[dma.put]
    BY <1>9, <1>10
  <2> QED BY <1>6, <2>1 DEF Busy
<1>12. PICK j \in Held : At.job = j /\ (c < j => Work(c) + 4 <= Use[dma.get]) /\ (j < c => j \in Elems(queue))
                         /\ (c = j \/ c < j \/ j < c)
  BY <1>6, <1>11, Fetches DEF Doing
<1>13. ~(c < j)
  BY <1>9, <1>10, <1>12
<1>14. ~(j < c)
  <2> SUFFICES ASSUME j < c PROVE FALSE
    OBVIOUS
  <2>1. PICK k \in 1..Len(queue) : j = queue[k]
    BY <1>12 DEF Elems
  <2>2. k = 1 \/ 1 < k
    BY <1>1, <2>1
  <2>3. c = j \/ c < j
    BY <1>1, <1>4, <1>5, <2>1, <2>2 DEF Turns
  <2>4. j \in Nat /\ c \in Nat
    BY <1>1, <1>6, <2>1, NumberTypes, HeldFacts
  <2> QED BY <2>3, <2>4
<1>15. At.job = c
  BY <1>12, <1>13, <1>14
<1> QED BY <1>2, <1>5, <1>11, <1>15, EngineGoesOn DEF AtRest

\* Fences that are pending when nobody is queued are due.
LEMMA FenceEven == ASSUME EHyp, NEW j \in Job, FenceGivesUp(j) PROVE FALSE
<1>1. /\ Types /\ Numbers /\ NoWrap /\ Watched /\ Still /\ Paced /\ Submission
      /\ queue \in Seq(Job) /\ Sp(j) \in Syncpt
  BY EvenTypes, NumberTypes
<1>2. job[j].fence = "pending" /\ ~timer.pending /\ j \notin Due(Sp(j), sp[Sp(j)].value)
  BY EvenTypes DEF FenceGivesUp, FenceTimeout
<1>3. Elems(queue) = {}
  <2>1. queue = <<>>
    BY <1>1, <1>2 DEF Watched
  <2> QED BY <2>1, EmptyFacts
<1>4. Begun(j) /\ Gone(j)
  <2>1. job[j].step \notin {"new", "refused", "submit"}
    BY <1>1, <1>2 DEF Still
  <2>2. j # sub.job
    BY <1>1, <2>1 DEF Submission
  <2> QED BY <1>3, <2>1, <2>2 DEF Gone, Begun
<1>5. Value(j) \in scene.from..sp[Sp(j)].max /\ Value(j) \in Nat /\ job[j].end \in Nat /\ Value(j) > job[j].end
  BY <1>1, <1>4, Between, Reached DEF Value, Paced
<1>6. Expired(Value(j), job[j].thresh)
  <2>1. Value(j) >= job[j].end + 1
    BY <1>5
  <2> QED BY <1>1, <1>4, <1>5, <2>1, ReachedThresh
<1> QED BY <1>1, <1>2, <1>6 DEF Due, Value

-----------------------------------------------------------------------------
(* The engine goes on.                                                     *)

\* By how much a command counts, and how many slots it takes.
Steps(d) == IF d = 0 THEN 2 ELSE 1
Counting(d) == d \in {0, 2}

\* It goes past the command, which is not yet that of a submission after its work.
LEMMA ExecGets ==
  ASSUME EHyp, EngineRuns, NEW j \in Held, NEW d \in {-1, 0, 2, 3}, Doing(j, d)
  PROVE  /\ dma'.get \in Positions /\ Use[dma'.get] = Use[dma.get] + Steps(d)
         /\ Use[dma'.get] <= Use[dma.put] /\ (j = sub.job => d \in {-1, 0})
         /\ dma'.put = dma.put /\ dma'.on = dma.on
<1> DEFINE k == dma.get
           next == IF At.op = "pad" \/ dma.get = Ring - 1 THEN 0
                   ELSE IF At.op = "work" THEN dma.get + 2 ELSE dma.get + 1
           n == Steps(d)
<1>1. Types /\ CInv /\ Engine /\ dma \in [get : Positions, put : Positions, on : BOOLEAN] /\ "early" \notin env
      /\ Submission
  BY EvenTypes
<1>2. /\ Ring \in Nat /\ Ring > 5 /\ Positions = 0..(Ring - 1) /\ k \in Positions /\ dma.put \in Positions
      /\ Use[k] \in Nat /\ Use[dma.put] \in Nat /\ Fill \in 0..(Ring - 1)
  BY <1>1, UseFacts
<1>3. /\ Use[k] = Work(j) + d /\ Work(j) \in Nat /\ Use[k] < Use[dma.put] /\ Use[dma.put] <= Fill /\ dma.on
      /\ d = -1 <=> At.op = "pad"
      /\ d = 0 <=> At.op = "work"
      /\ (Use[k] = Work(j) - 1 => k = Ring - 1) /\ (Use[k] = Work(j) => k # Ring - 1)
  BY DEF Doing, Owns
<1>4. Use[k] + n <= Use[dma.put]
  <2>1. Use[dma.put] # Work(j) + 1
    BY <1>1, <1>3 DEF Engine
  <2>2. CASE d = 0
    BY <1>2, <1>3, <2>1, <2>2 DEF Steps
  <2>3. CASE d # 0
    BY <1>2, <1>3, <2>3 DEF Steps
  <2> QED BY <2>2, <2>3
<1>5. next % Ring = (k + n) % Ring
  <2>1. (0 % Ring) = 0 /\ (k = Ring - 1 => (k + 1) % Ring = 0)
    <3>1. 0 \in Int /\ Ring > 0 /\ k + 1 \in Int
      BY <1>2
    <3>2. k = Ring - 1 => k + 1 = Ring /\ Ring < 2 * Ring
      BY <1>2
    <3>3. 0 % Ring = 0
      BY <1>2, <3>1, RingFacts
    <3>4. k = Ring - 1 => (k + 1) % Ring = (k + 1) - Ring
      BY <1>2, <3>1, <3>2, RingFacts
    <3> QED BY <1>2, <3>2, <3>3, <3>4
  <2>2. CASE d = -1
    <3>1. k = Ring - 1 /\ next = 0 /\ n = 1
      BY <1>2, <1>3, <2>2 DEF Steps
    <3> QED BY <2>1, <3>1
  <2>3. CASE d = 0
    <3>1. k # Ring - 1 /\ next = k + 2 /\ n = 2
      BY <1>2, <1>3, <2>3 DEF Steps
    <3> QED BY <3>1
  <2>4. CASE d \in {2, 3}
    <3>1. next = (IF k = Ring - 1 THEN 0 ELSE k + 1) /\ n = 1
      BY <1>3, <2>4 DEF Steps
    <3> QED BY <2>1, <3>1
  <2> QED BY <2>2, <2>3, <2>4
<1>6. dma'.get = next % Ring /\ dma'.put = dma.put /\ dma'.on = dma.on
  <2>1. dma' = [dma EXCEPT !.get = next % Ring]
    BY DEF EngineRuns, Exec
  <2> HIDE DEF next
  <2> QED BY <1>1, <2>1
<1>7. n \in Nat /\ Use[k] + n < Ring
  <2>1. n \in Nat
    BY DEF Steps
  <2> HIDE DEF n
  <2> QED BY <1>2, <1>3, <1>4, <2>1
<1>8. dma'.get \in Positions /\ Use[dma'.get] = Use[k] + n
  <2> HIDE DEF n, next
  <2> QED BY <1>1, <1>2, <1>5, <1>6, <1>7, UseStep
<1>9. j = sub.job => d \in {-1, 0}
  <2> SUFFICES ASSUME j = sub.job PROVE d \in {-1, 0}
    OBVIOUS
  <2>1. j \in Job /\ j # 0
    BY <1>1, NumberTypes DEF Doing
  <2>2. sub.step # "idle" /\ job[j].step = "submit"
    BY <1>1, <2>1 DEF Submission
  <2>3. d # 2
    <3>1. CanRun /\ InTime /\ At.job = j
      BY DEF EngineRuns, Exec, Doing
    <3> QED BY <1>1, <2>2, <3>1 DEF CanRun, InTime, Doing
  <2>4. d # 3
    <3>1. Use[k] <= Work(j) + 2
      BY <1>1, <1>3, <2>2 DEF Engine
    <3> QED BY <1>2, <1>3, <3>1
  <2> QED BY <2>3, <2>4
<1> QED BY <1>4, <1>6, <1>8, <1>9

\* The counter stands where the command expects it.
LEMMA ExecValue ==
  ASSUME EHyp, EngineRuns, NEW j \in Held, NEW d \in {-1, 0, 2, 3}, Doing(j, d)
  PROVE  /\ j \in Job /\ Begun(j) /\ Sp(j) \in Syncpt /\ Value(j) \in Nat /\ job[j].end \in Nat /\ Numbered(j)
         /\ d = 0 => Value(j) = job[j].end - 1
         /\ d = 2 => Value(j) = job[j].end
         /\ d # -1 /\ d # 0 => "work" \in job[j].ran
         /\ Counting(d) => Value(j) < sp[Sp(j)].max /\ (Value(j) + 1) % CounterMod = Value(j) + 1
<1>1. /\ Types /\ CInv /\ Numbers /\ Turns /\ NoWrap /\ Packed /\ Paced /\ Submission /\ Elems(queue) \subseteq Job
  BY EvenTypes
<1>2. /\ Use[dma.get] = Work(j) + d /\ Work(j) \in Nat /\ Reaches(j) /\ j \in Job
      /\ \A i \in Held : i < j => Work(i) + 4 <= Use[dma.get]
  BY DEF Doing
<1>3. Begun(j) /\ Sp(j) \in Syncpt
  <2>1. j \in Elems(queue) \/ (sub.step # "idle" /\ j = sub.job)
    BY DEF Held
  <2> QED BY <1>1, <1>2, <2>1, NumberTypes DEF Turns
<1>4. Value(j) \in Nat /\ Value(j) >= scene.from /\ scene.from \in Nat /\ job[j].end \in Nat /\ Numbered(j)
      /\ job[j].end < sp[Sp(j)].max
  BY <1>1, <1>2, <1>3, NumberTypes, Between DEF Numbers, Numbered, Value
<1>5. ASSUME d = 0 PROVE Value(j) = job[j].end - 1
  <2>1. Value(j) < job[j].end
    <3>1. Use[dma.get] <= Work(j)
      BY <1>2, <1>5
    <3> QED BY <1>2, <3>1 DEF Reaches
  <2>2. CASE job[j].end = scene.from + 1
    BY <1>4, <2>1, <2>2
  <2>3. ASSUME NEW p \in Job, p < j, Begun(p), Sp(p) = Sp(j), job[p].end + 2 = job[j].end
        PROVE  Value(j) = job[j].end - 1
    <3>1. Value(p) > job[p].end
      <4>1. CASE p \in Held
        <5>1. Work(p) + 4 <= Use[dma.get] /\ Reaches(p) /\ Work(p) \in Nat /\ Use[dma.get] \in Nat
          <6>1. dma.get \in Positions
            BY <1>1 DEF Types
          <6>2. Use[dma.get] \in Nat
            BY <1>1, <6>1, UseFacts
          <6>3. Work(p) \in Nat
            BY <1>1, <4>1, HeldFacts
          <6>4. Reaches(p) /\ Work(p) + 4 <= Use[dma.get]
            BY <1>1, <1>2, <2>3, <4>1 DEF Paced
          <6> QED BY <6>2, <6>3, <6>4
        <5>2. Use[dma.get] >= Work(p) + 3
          BY <5>1
        <5> QED BY <5>1, <5>2 DEF Reaches
      <4>2. CASE p \notin Held
        <5>1. p \notin Elems(queue)
          BY <4>2 DEF Held
        <5>2. p # sub.job
          <6>1. sub.step = "idle" => sub.job = 0
            BY <1>1 DEF Submission
          <6>2. p # 0
            BY <1>1, NumberTypes
          <6> QED BY <4>2, <6>1, <6>2 DEF Held
        <5> QED BY <1>1, <2>3, <5>1, <5>2 DEF Gone, Paced
      <4> QED BY <4>1, <4>2
    <3>2. job[p].end \in Nat /\ Value(p) = Value(j)
      BY <1>1, <2>3 DEF Numbers, Numbered, Value
    <3> QED BY <1>4, <2>1, <2>3, <3>1, <3>2
  <2> QED BY <1>4, <2>2, <2>3 DEF Numbered
<1>6. ASSUME d = 2 PROVE Value(j) = job[j].end
  <2>1. Use[dma.get] <= Work(j) + 2 /\ Use[dma.get] >= Work(j) + 2
    BY <1>2, <1>6
  <2>2. Value(j) <= job[j].end /\ Value(j) >= job[j].end
    BY <1>2, <2>1 DEF Reaches
  <2> QED BY <1>4, <2>2
<1>7. d # -1 /\ d # 0 => "work" \in job[j].ran
  <2>1. d # -1 /\ d # 0 => Use[dma.get] >= Work(j) + 2
    BY <1>2
  <2> QED BY <1>2, <2>1 DEF Reaches
<1>8. ASSUME Counting(d)
      PROVE  Value(j) < sp[Sp(j)].max /\ (Value(j) + 1) % CounterMod = Value(j) + 1
  <2>1. Value(j) <= job[j].end
    BY <1>4, <1>5, <1>6, <1>8 DEF Counting
  <2>2. /\ sp[Sp(j)].max \in Nat /\ sp[Sp(j)].max <= scene.from + 2 * NJobs
        /\ scene.from \in Nat /\ NJobs \in Nat /\ CounterMod \in Nat /\ CounterMod > 0
    BY <1>1, <1>3, NumberTypes DEF Numbers, Counted
  <2>3. scene.from + 2 * NJobs < CounterMod
    BY <1>1 DEF NoWrap
  <2>4. Value(j) + 1 \in Int /\ 0 <= Value(j) + 1 /\ Value(j) + 1 < CounterMod /\ Value(j) < sp[Sp(j)].max
    BY <1>4, <2>1, <2>2, <2>3
  <2>5. (Value(j) + 1) % CounterMod = Value(j) + 1
    BY <2>2, <2>4, RingFacts
  <2> QED BY <2>4, <2>5
<1> QED BY <1>2, <1>3, <1>4, <1>5, <1>6, <1>7, <1>8

\* What it changes.
Ran(j, d) ==
  /\ UNCHANGED <<scene, pb, mem, queue, sub, timer, handler, update, stop, hung>>
  /\ \A i \in Job : /\ Kept(i) /\ job'[i].step = job[i].step /\ job'[i].fence = job[i].fence
                    /\ job'[i].cancelled = job[i].cancelled /\ job'[i].failed = job[i].failed
                    /\ job'[i].timed = job[i].timed
                    /\ job'[i].ran = IF i = j /\ d # -1 THEN job[i].ran \cup {At.op} ELSE job[i].ran
  /\ \A s \in Syncpt : /\ sp'[s].max = sp[s].max /\ sp'[s].min = sp[s].min /\ sp'[s].locked = sp[s].locked
                       /\ sp'[s].value = IF Counting(d) /\ s = Sp(j) THEN sp[s].value + 1 ELSE sp[s].value
LEMMA ExecRan ==
  ASSUME EHyp, EngineRuns, NEW j \in Held, NEW d \in {-1, 0, 2, 3}, Doing(j, d)
  PROVE  Ran(j, d)
<1>1. /\ job \in [Job -> Jobs]
      /\ sp \in [Syncpt -> [value : Int, min : Int, max : Int, locked : BOOLEAN]]
  BY EvenTypes
<1>2. /\ At.job = j
      /\ d # -1 <=> At.op \in {"work", "final", "release"}
      /\ Counting(d) <=> At.op \in {"work", "final"}
  <2>1. /\ At = [job |-> j, op |-> Parts[d]]
        /\ d = -1 <=> At.op = "pad"
        /\ d = 0 <=> At.op = "work"
        /\ d = 2 <=> At.op = "final"
        /\ d = 3 <=> At.op = "release"
    BY DEF Doing
  <2>2. At.job = j
    BY <2>1
  <2>3. d # -1 <=> At.op \in {"work", "final", "release"}
    BY <2>1
  <2>4. Counting(d) <=> At.op \in {"work", "final"}
    BY <2>1 DEF Counting
  <2> QED BY <2>2, <2>3, <2>4
<1>3. /\ UNCHANGED <<scene, pb, mem, queue, sub, timer, handler, update, stop, hung>>
      /\ sp' = IF Counting(d) THEN [sp EXCEPT ![Sp(j)].value = (@ + 1) % CounterMod] ELSE sp
      /\ job' = IF d # -1 THEN [job EXCEPT ![j].ran = @ \cup {At.op}] ELSE job
  <2>1. /\ UNCHANGED <<scene, pb, mem, queue, sub, timer, handler, update, stop, hung>>
        /\ sp' = IF At.op \in {"work", "final"} THEN [sp EXCEPT ![Sp(At.job)].value = (@ + 1) % CounterMod] ELSE sp
        /\ job' = IF At.op \in {"work", "final", "release"}
                    THEN [job EXCEPT ![At.job].ran = @ \cup {At.op}] ELSE job
    BY DEF EngineRuns, Exec
  <2> QED BY <1>2, <2>1
<1>4. ASSUME NEW i \in Job
      PROVE  /\ Kept(i) /\ job'[i].step = job[i].step /\ job'[i].fence = job[i].fence
             /\ job'[i].cancelled = job[i].cancelled /\ job'[i].failed = job[i].failed
             /\ job'[i].timed = job[i].timed
             /\ job'[i].ran = IF i = j /\ d # -1 THEN job[i].ran \cup {At.op} ELSE job[i].ran
  <2>1. job[i] \in Jobs
    BY <1>1
  <2>2. CASE i = j /\ d # -1
    <3>1. job'[i] = [job[i] EXCEPT !.ran = @ \cup {At.op}]
      BY <1>1, <1>3, <2>2
    <3>2. /\ job'[i].step = job[i].step /\ job'[i].fence = job[i].fence /\ job'[i].first = job[i].first
          /\ job'[i].slots = job[i].slots /\ job'[i].end = job[i].end /\ job'[i].thresh = job[i].thresh
          /\ job'[i].ran = job[i].ran \cup {At.op}
      BY <2>1, <3>1 DEF Jobs
    <3>3. job'[i].cancelled = job[i].cancelled
      BY <2>1, <3>1 DEF Jobs
    <3>4. job'[i].failed = job[i].failed
      BY <2>1, <3>1 DEF Jobs
    <3>5. job'[i].timed = job[i].timed
      BY <2>1, <3>1 DEF Jobs
    <3> QED BY <2>2, <3>2, <3>3, <3>4, <3>5 DEF Kept, Alike, Begun
  <2>3. CASE ~(i = j /\ d # -1)
    <3>1. job'[i] = job[i]
      BY <1>1, <1>3, <2>3
    <3> QED BY <2>3, <3>1 DEF Kept, Alike, Begun
  <2> QED BY <2>2, <2>3
<1>5. Sp(j) \in Syncpt /\ (Counting(d) => (sp[Sp(j)].value + 1) % CounterMod = sp[Sp(j)].value + 1)
  BY ExecValue DEF Value
<1>6. ASSUME NEW s \in Syncpt
      PROVE  /\ sp'[s].max = sp[s].max /\ sp'[s].min = sp[s].min /\ sp'[s].locked = sp[s].locked
             /\ sp'[s].value = IF Counting(d) /\ s = Sp(j) THEN sp[s].value + 1 ELSE sp[s].value
  <2>1. CASE Counting(d) /\ s = Sp(j)
    BY <1>1, <1>3, <1>5, <2>1
  <2>2. CASE ~(Counting(d) /\ s = Sp(j))
    BY <1>1, <1>3, <1>5, <2>2
  <2> QED BY <2>1, <2>2
<1> QED BY <1>3, <1>4, <1>6 DEF Ran

\* ... and, with the places as they were, where each job stands.
LEMMA ExecPaced ==
  ASSUME EHyp, EngineRuns, NEW j \in Held, NEW d \in {-1, 0, 2, 3}, Doing(j, d), Ran(j, d),
         Use' = Use, Held' = Held, \A i \in Job : Work(i)' = Work(i), Elems(queue)' = Elems(queue)
  PROVE  Paced'
<1>1. /\ Types /\ CInv /\ Numbers /\ Turns /\ Packed /\ Paced /\ Submission /\ Elems(queue) \subseteq Job
  BY EvenTypes
<1>2. /\ Use[dma.get] = Work(j) + d /\ Work(j) \in Nat /\ Reaches(j) /\ j \in Job
      /\ \A i \in Held : /\ i < j => Work(i) + 4 <= Use[dma.get]
                         /\ j < i => j \in Elems(queue) /\ Work(j) + 4 <= From(i)
                         /\ i = j \/ i < j \/ j < i
      /\ At.op = "work" \/ d # 0
  BY DEF Doing
<1>3. Use[dma'.get] = Use[dma.get] + Steps(d)
  BY ExecGets
<1>4. /\ Begun(j) /\ Sp(j) \in Syncpt /\ Value(j) \in Nat /\ job[j].end \in Nat
      /\ d = 0 => Value(j) = job[j].end - 1
      /\ d = 2 => Value(j) = job[j].end
      /\ d # -1 /\ d # 0 => "work" \in job[j].ran
  BY ExecValue
<1>5. /\ UNCHANGED <<scene, sub>>
      /\ \A i \in Job : /\ Kept(i)
                        /\ job'[i].ran = IF i = j /\ d # -1 THEN job[i].ran \cup {At.op} ELSE job[i].ran
      /\ \A s \in Syncpt : sp'[s].value = IF Counting(d) /\ s = Sp(j) THEN sp[s].value + 1 ELSE sp[s].value
  BY DEF Ran
<1>6. ASSUME NEW i \in Job
      PROVE  /\ Value(i)' = IF Counting(d) /\ Sp(i) = Sp(j) THEN Value(i) + 1 ELSE Value(i)
             /\ Sp(i) \in Syncpt /\ job'[i].end = job[i].end /\ job[i].ran \subseteq job'[i].ran
             /\ Value(i) \in Int /\ (Begun(i)' <=> Begun(i))
  <2>1. Sp(i) \in Syncpt /\ Sp(i)' = Sp(i) /\ Value(i) \in Int /\ Value(i)' = sp'[Sp(i)].value
    BY <1>1, <1>5, NumberTypes DEF Sp, Value, Types
  <2> QED BY <1>5, <2>1 DEF Value, Kept, Alike, Begun
<1>7. Work(j) + d \in Nat /\ Use[dma.get] \in Nat
  <2>1. dma.get \in Positions
    BY <1>1 DEF Types
  <2> QED BY <1>1, <1>2, <2>1, UseFacts
<1>8. ASSUME NEW i \in Held
      PROVE  /\ Use[dma'.get] <= Work(i) => Value(i)' < job[i].end
             /\ Use[dma'.get] <= Work(i) + 2 => Value(i)' <= job[i].end
             /\ Use[dma'.get] >= Work(i) + 2 => Value(i)' >= job[i].end /\ "work" \in job'[i].ran
             /\ Use[dma'.get] >= Work(i) + 3 => Value(i)' > job[i].end
  <2>1. i \in Job /\ Work(i) \in Nat /\ From(i) <= Work(i) /\ From(i) \in Nat /\ Reaches(i) /\ Begun(i)
    <3>1. i \in Elems(queue) \/ (sub.step # "idle" /\ i = sub.job)
      BY DEF Held
    <3>2. Begun(i)
      BY <1>1, <3>1 DEF Turns
    <3>3. i \in Job /\ Work(i) \in Nat /\ From(i) <= Work(i) /\ From(i) \in Nat
      BY <1>1, HeldFacts
    <3> QED BY <1>1, <3>2, <3>3 DEF Paced
  <2>2. /\ Value(i)' = IF Counting(d) /\ Sp(i) = Sp(j) THEN Value(i) + 1 ELSE Value(i)
        /\ job[i].ran \subseteq job'[i].ran /\ Value(i) \in Int
    BY <1>6, <2>1
  <2>3. job[i].end \in Nat
    BY <1>1, <2>1 DEF Numbers, Numbered
  <2>4. /\ Use[dma.get] <= Work(i) => Value(i) < job[i].end
        /\ Use[dma.get] <= Work(i) + 2 => Value(i) <= job[i].end
        /\ Use[dma.get] >= Work(i) + 2 => Value(i) >= job[i].end /\ "work" \in job[i].ran
        /\ Use[dma.get] >= Work(i) + 3 => Value(i) > job[i].end
    BY <2>1 DEF Reaches
  <2> DEFINE get == Use[dma.get]
             g == Use[dma'.get]
             w == Work(i)
             v == Value(i)
             u == Value(i)'
             e == job[i].end
  <2>5. CASE i = j
    <3>1. get = w + d /\ g = get + Steps(d) /\ w \in Nat /\ v \in Int /\ e \in Nat /\ get \in Nat
      BY <1>2, <1>3, <1>7, <2>2, <2>3, <2>5
    <3>2. u = IF Counting(d) THEN v + 1 ELSE v
      BY <2>2, <2>5
    <3>3. /\ d = 0 => v = e - 1
          /\ d = 2 => v = e
          /\ d # -1 /\ d # 0 => "work" \in job[i].ran
      BY <1>4, <2>5
    <3>4. d = 0 => "work" \in job'[i].ran
      <4> SUFFICES ASSUME d = 0 PROVE "work" \in job'[i].ran
        OBVIOUS
      <4>1. At.op = "work" /\ d # -1
        BY <1>2
      <4>2. job'[i].ran = job[i].ran \cup {At.op}
        BY <1>5, <2>1, <2>5, <4>1
      <4> QED BY <4>1, <4>2
    <3>5. /\ get <= w => v < e
          /\ get >= w + 3 => v > e
      BY <2>4
    <3> HIDE DEF get, g, w, v, u, e
    <3>6. CASE d = -1
      <4>1. g = w /\ u = v /\ get <= w
        BY <3>1, <3>2, <3>6 DEF Steps, Counting
      <4>2. /\ g <= w => u < e
            /\ g <= w + 2 => u <= e
            /\ ~(g >= w + 2) /\ ~(g >= w + 3)
        BY <3>1, <3>5, <4>1
      <4> QED BY <4>2 DEF g, w, u, e
    <3>7. CASE d = 0
      <4>1. g = w + 2 /\ u = e
        BY <3>1, <3>2, <3>3, <3>7 DEF Steps, Counting
      <4>2. /\ ~(g <= w) /\ ~(g >= w + 3) /\ u <= e /\ u >= e
        BY <3>1, <4>1
      <4> QED BY <3>4, <3>7, <4>2 DEF g, w, u, e
    <3>8. CASE d = 2
      <4>1. g = w + 3 /\ u = e + 1
        BY <3>1, <3>2, <3>3, <3>8 DEF Steps, Counting
      <4>2. /\ ~(g <= w) /\ ~(g <= w + 2) /\ u > e /\ u >= e
        BY <3>1, <4>1
      <4>3. "work" \in job'[i].ran
        BY <2>2, <3>3, <3>8
      <4> QED BY <4>2, <4>3 DEF g, w, u, e
    <3>9. CASE d = 3
      <4>1. g = w + 4 /\ u = v /\ get >= w + 3
        BY <3>1, <3>2, <3>9 DEF Steps, Counting
      <4>2. /\ ~(g <= w) /\ ~(g <= w + 2) /\ u > e /\ u >= e
        BY <3>1, <3>5, <4>1
      <4>3. "work" \in job'[i].ran
        BY <2>2, <3>3, <3>9
      <4> QED BY <4>2, <4>3 DEF g, w, u, e
    <3> QED BY <3>6, <3>7, <3>8, <3>9
  <2>6. CASE i < j
    <3>1. w + 4 <= get /\ w \in Nat /\ get \in Nat /\ v \in Int /\ e \in Nat /\ g >= get /\ g \in Nat
      BY <1>2, <1>3, <1>7, <2>1, <2>2, <2>3, <2>6 DEF Steps
    <3>2. u = v \/ u = v + 1
      BY <2>2
    <3>3. get >= w + 3 => v > e
      BY <2>4
    <3>4. get >= w + 2 => "work" \in job'[i].ran
      BY <2>2, <2>4
    <3> HIDE DEF get, g, w, v, u, e
    <3>5. ~(g <= w) /\ ~(g <= w + 2) /\ u > e /\ u >= e /\ get >= w + 2
      BY <3>1, <3>2, <3>3
    <3> QED BY <3>4, <3>5 DEF g, w, u, e
  <2>7. CASE j < i
    <3>1. Work(j) + 4 <= w /\ w \in Nat /\ Work(j) \in Nat /\ get = Work(j) + d /\ g = get + Steps(d)
      BY <1>2, <1>3, <2>1, <2>7
    <3>2. g <= w /\ get <= w
      <4> HIDE DEF get, g, w
      <4>1. CASE d = 0
        BY <3>1, <4>1 DEF Steps
      <4>2. CASE d # 0
        BY <3>1, <4>2 DEF Steps
      <4> QED BY <4>1, <4>2
    <3>3. v < e /\ v \in Int /\ e \in Nat
      BY <2>2, <2>3, <2>4, <3>2
    <3>4. u < e
      <4>1. CASE Counting(d) /\ Sp(i) = Sp(j)
        <5>1. job[j].end + 2 <= job[i].end
          BY <1>1, <1>2, <1>4, <2>1, <2>7, <4>1 DEF Numbers, Numbered
        <5>2. v <= job[j].end
          <6>1. v = Value(j)
            BY <4>1 DEF Value
          <6> QED BY <1>4, <4>1, <6>1 DEF Counting
        <5>3. u = v + 1
          BY <2>2, <4>1
        <5> HIDE DEF u, v, e
        <5>4. e = job[i].end
          BY DEF e
        <5> QED BY <1>4, <3>3, <5>1, <5>2, <5>3, <5>4
      <4>2. CASE ~(Counting(d) /\ Sp(i) = Sp(j))
        BY <2>2, <3>3, <4>2
      <4> QED BY <4>1, <4>2
    <3>5. u <= e /\ ~(g >= w + 2) /\ ~(g >= w + 3)
      <4>1. u = v \/ u = v + 1
        BY <2>2
      <4>2. g \in Nat
        BY <1>3, <1>7 DEF Steps
      <4> HIDE DEF get, g, w, v, u, e
      <4> QED BY <3>1, <3>2, <3>3, <3>4, <4>1, <4>2
    <3> HIDE DEF get, g, w, v, u, e
    <3> QED BY <3>4, <3>5 DEF g, w, u, e
  <2> QED BY <1>2, <2>5, <2>6, <2>7
<1>9. \A i \in Held' : Reaches(i)'
  <2> SUFFICES ASSUME NEW i \in Held PROVE Reaches(i)'
    OBVIOUS
  <2>1. i \in Job /\ Work(i)' = Work(i) /\ job'[i].end = job[i].end /\ Use' = Use
    BY <1>1, <1>6, HeldFacts
  <2> QED BY <1>8, <2>1 DEF Reaches
<1>10. ASSUME NEW i \in Job, Gone(i)' PROVE Value(i)' > job'[i].end /\ "work" \in job'[i].ran
  <2>1. Gone(i)
    BY <1>5, <1>6, <1>10 DEF Gone
  <2>2. Value(i) > job[i].end /\ "work" \in job[i].ran /\ job[i].end \in Nat
    BY <1>1, <2>1 DEF Paced, Gone, Numbers, Numbered
  <2>3. Value(i)' = Value(i) \/ Value(i)' = Value(i) + 1
    BY <1>6
  <2>4. Value(i)' > job[i].end
    BY <1>6, <2>2, <2>3
  <2> QED BY <1>6, <2>2, <2>4
<1>11. WholeJobs'
  <2> SUFFICES ASSUME NEW i \in Job, job'[i].ran \cap {"final", "release"} # {} PROVE "work" \in job'[i].ran
    BY DEF WholeJobs
  <2>1. CASE i = j /\ d # -1
    BY <1>2, <1>4, <1>5, <2>1
  <2>2. CASE ~(i = j /\ d # -1)
    BY <1>1, <1>5, <2>2 DEF Paced, WholeJobs
  <2> QED BY <2>1, <2>2
<1> QED BY <1>9, <1>10, <1>11 DEF Paced

LEMMA ExecEven == ASSUME EHyp, EngineRuns PROVE Even'
<1>1. /\ Types /\ CInv /\ Numbers /\ Turns /\ Watched /\ Still /\ Packed /\ Owned /\ Engine /\ Paced /\ Submission
      /\ Elems(queue) \subseteq Job /\ queue \in Seq(Job) /\ Len(queue) \in Nat
  BY EvenTypes
<1>2. PICK j \in Held, d \in {-1, 0, 2, 3} : Doing(j, d)
  BY Fetches DEF EngineRuns, Exec, CanRun
<1>3. Ran(j, d)
  BY <1>2, ExecRan
<1>4. /\ UNCHANGED <<scene, pb, mem, queue, sub, timer, handler, update, stop, hung>>
      /\ \A i \in Job : /\ Kept(i) /\ job'[i].step = job[i].step /\ job'[i].fence = job[i].fence
                        /\ job'[i].cancelled = job[i].cancelled /\ job'[i].failed = job[i].failed
                        /\ job'[i].timed = job[i].timed
      /\ \A s \in Syncpt : /\ sp'[s].max = sp[s].max /\ sp'[s].min = sp[s].min /\ sp'[s].locked = sp[s].locked
                           /\ sp'[s].value = IF Counting(d) /\ s = Sp(j) THEN sp[s].value + 1 ELSE sp[s].value
  BY <1>3 DEF Ran
<1>5. /\ j \in Job /\ Sp(j) \in Syncpt
      /\ Counting(d) => Value(j) < sp[Sp(j)].max
  BY <1>2, ExecValue
<1>6. Stays /\ \A i \in Job : job'[i].first = job[i].first /\ job'[i].slots = job[i].slots
  BY <1>4 DEF Stays, Kept
<1>7. /\ Use' = Use /\ Held' = Held /\ Fill' = Fill /\ Elems(queue)' = Elems(queue)
      /\ \A i \in Job : Work(i)' = Work(i)
  BY <1>1, <1>4, <1>6, PlacesSame
<1>8. Paced'
  BY <1>2, <1>3, <1>7, ExecPaced
<1>9. job' \in [Job -> Jobs]
  <2>1. CInv'
    BY <1>1, ExecStep DEF EngineRuns
  <2>2. Types' /\ Job' = Job /\ Jobs' = Jobs
    BY <1>4, <2>1, StillThere DEF CInv
  <2> QED BY <2>2 DEF Types
<1>10. Packed' /\ Owned'
  BY <1>1, <1>4, <1>6, <1>9, PackedSame
<1>11. Numbers'
  <2>1. ASSUME NEW s \in Syncpt
        PROVE  /\ sp'[s].max = sp[s].max /\ {sp'[s].min, sp'[s].value} \subseteq Nat
               /\ scene.from <= sp'[s].min /\ sp'[s].min <= sp'[s].value
               /\ sp'[s].value <= sp[s].max
    <3>1. /\ {sp[s].min, sp[s].value, sp[s].max} \subseteq Nat
          /\ scene.from <= sp[s].min /\ sp[s].min <= sp[s].value /\ sp[s].value <= sp[s].max
      BY <1>1 DEF Numbers, Counted
    <3>2. Counting(d) /\ s = Sp(j) => sp[s].value < sp[s].max
      BY <1>5 DEF Value
    <3>3. sp'[s].value = sp[s].value \/ (sp'[s].value = sp[s].value + 1 /\ sp[s].value < sp[s].max)
      BY <1>4, <3>2
    <3>4. /\ sp'[s].value \in Nat /\ sp[s].min <= sp'[s].value /\ sp'[s].value <= sp[s].max
      BY <3>1, <3>3
    <3> QED BY <1>4, <3>1, <3>4
  <2> QED BY <1>1, <1>4, <2>1, NumbersKept DEF Kept
<1>12. Turns'
  <2>1. Shorter(0)
    <3>1. SubSeq(queue, 0 + 1, Len(queue)) = queue
      BY <1>1
    <3> QED BY <1>1, <1>4, <3>1 DEF Shorter
  <2>2. \A a, b \in Job : a < b /\ job'[a].step = "new" => job'[b].step = "new"
    BY <1>1, <1>4 DEF Turns
  <2> QED BY <1>1, <1>4, <2>1, <2>2, TurnsKept
<1>13. Still'
  <2>1. \A s \in Syncpt : ~sp'[s].locked
    BY <1>1, <1>4 DEF Still
  <2>2. \A i \in Job : /\ ~job'[i].cancelled /\ ~job'[i].failed /\ job'[i].fence # "missed"
                       /\ job'[i].step \in {"new", "refused", "submit"} => job'[i].fence = "none"
    BY <1>1, <1>4 DEF Still
  <2>3. dma'.on
    BY <1>2, ExecGets DEF Doing
  <2> QED BY <1>1, <1>4, <2>1, <2>2, <2>3 DEF Still
<1>14. Watched'
  <2>1. \A i \in Job : job'[i].timed
    BY <1>1, <1>4 DEF Watched
  <2>2. \A i \in Elems(queue) : job'[i].fence # "pending" => sp'[Sp(i)].min >= job'[i].thresh
    <3> SUFFICES ASSUME NEW i \in Elems(queue), job'[i].fence # "pending" PROVE sp'[Sp(i)].min >= job'[i].thresh
      OBVIOUS
    <3>1. i \in Job /\ Sp(i) \in Syncpt
      BY <1>1, NumberTypes
    <3>2. sp[Sp(i)].min >= job[i].thresh
      BY <1>1, <1>4, <3>1 DEF Watched
    <3> QED BY <1>4, <3>1, <3>2 DEF Kept, Alike
  <2>3. \A i \in Job : Sp(i)' = Sp(i)
    BY <1>4 DEF Sp
  <2>4. queue # <<>> /\ ~update => job'[queue[1]].fence = "pending"
    <3> SUFFICES ASSUME queue # <<>>, ~update PROVE job'[queue[1]].fence = "pending"
      OBVIOUS
    <3>1. queue[1] \in Elems(queue)
      <4>1. Len(queue) # 0
        BY <1>1
      <4>2. 1 \in 1..Len(queue)
        BY <1>1, <4>1
      <4> QED BY <4>2 DEF Elems
    <3> QED BY <1>1, <1>4, <3>1 DEF Watched
  <2> QED BY <1>1, <1>4, <1>7, <2>1, <2>2, <2>3, <2>4 DEF Watched
<1>15. Engine'
  <2>1. /\ Use[dma.get] = Work(j) + d /\ Work(j) \in Nat /\ Use[dma.get] < Use[dma.put] /\ Use[dma.put] <= Fill
        /\ dma.on
        /\ \A i \in Held : /\ i < j => Work(i) + 4 <= Use[dma.get]
                           /\ j < i => j \in Elems(queue) /\ Work(j) + 4 <= From(i)
                           /\ i = j \/ i < j \/ j < i
    BY <1>2 DEF Doing
  <2>2. /\ Use[dma'.get] = Use[dma.get] + Steps(d) /\ Use[dma'.get] <= Use[dma.put]
        /\ (j = sub.job => d \in {-1, 0}) /\ dma'.put = dma.put /\ dma'.on
    BY <1>2, <2>1, ExecGets
  <2>3. /\ \A i \in Held : Use[dma.put] # Work(i) + 1
        /\ \A i \in Elems(queue) : Work(i) + 4 <= Use[dma.put]
    BY <1>1, <2>1 DEF Engine
  <2>4. Held \subseteq Job /\ Elems(queue) \subseteq Held
        /\ \A i \in Held : Work(i) \in Nat /\ From(i) \in Nat /\ From(i) <= Work(i) /\ i \in Nat
    BY <1>1, HeldFacts
  <2>5. ASSUME NEW i \in Held
        PROVE  Use[dma'.get] # Work(i) + 1 /\ (i = sub.job => Use[dma'.get] <= Work(i) + 2)
    <3> DEFINE get == Use[dma.get]
               g == Use[dma'.get]
               w == Work(i)
               u == Work(j)
    <3>1. get = u + d /\ g = get + Steps(d) /\ u \in Nat /\ w \in Nat
      BY <2>1, <2>2, <2>4
    <3>2. CASE i = j
      <4>1. w = u /\ (i = sub.job => d \in {-1, 0})
        BY <2>2, <3>2
      <4> HIDE DEF get, g, w, u
      <4>2. g # w + 1 /\ (d \in {-1, 0} => g <= w + 2)
        <5>1. CASE d = -1
          BY <3>1, <4>1, <5>1 DEF Steps
        <5>2. CASE d = 0
          BY <3>1, <4>1, <5>2 DEF Steps
        <5>3. CASE d \in {2, 3}
          BY <3>1, <4>1, <5>3 DEF Steps
        <5> QED BY <5>1, <5>2, <5>3
      <4> QED BY <4>1, <4>2 DEF g, w
    <3>3. CASE i < j
      <4>1. w + 4 <= get
        BY <2>1, <3>3
      <4>2. i # sub.job
        <5>1. i \in Elems(queue)
          BY <1>1, <3>3, HeldFacts
        <5> QED BY <1>1, <5>1, HeldFacts
      <4> HIDE DEF get, g, w, u
      <4>3. g # w + 1
        BY <3>1, <4>1 DEF Steps
      <4> QED BY <4>2, <4>3 DEF g, w
    <3>4. CASE j < i
      <4>1. u + 4 <= w
        BY <2>1, <2>4, <3>4
      <4> HIDE DEF get, g, w, u
      <4>2. g <= w
        <5>1. CASE d = 0
          BY <3>1, <4>1, <5>1 DEF Steps
        <5>2. CASE d # 0
          BY <3>1, <4>1, <5>2 DEF Steps
        <5> QED BY <5>1, <5>2
      <4>3. g \in Nat
        <5>1. CASE d = 0
          BY <3>1, <5>1 DEF Steps
        <5>2. CASE d # 0
          BY <3>1, <5>2 DEF Steps
        <5> QED BY <5>1, <5>2
      <4>4. g # w + 1 /\ g <= w + 2
        BY <3>1, <4>2, <4>3
      <4> QED BY <4>4 DEF g, w
    <3> QED BY <2>1, <3>2, <3>3, <3>4
  <2>6. sub.step # "idle" => Use[dma'.get] <= Work(sub.job) + 2 /\ sub.job \in Held /\ Work(sub.job)' = Work(sub.job)
    <3> SUFFICES ASSUME sub.step # "idle"
                 PROVE  Use[dma'.get] <= Work(sub.job) + 2 /\ sub.job \in Held /\ Work(sub.job)' = Work(sub.job)
      OBVIOUS
    <3>1. PICK i \in Held : i = sub.job
      BY <1>1, HeldFacts
    <3>2. Use[dma'.get] <= Work(i) + 2 /\ Work(i)' = Work(i)
      BY <1>7, <2>4, <2>5, <3>1
    <3>3. Work(sub.job)' = Work(i)'
      BY <1>4, <3>1 DEF Work
    <3> QED BY <3>1, <3>2, <3>3
  <2> QED BY <1>4, <1>7, <2>1, <2>2, <2>3, <2>4, <2>5, <2>6 DEF Engine
<1> QED BY <1>8, <1>10, <1>11, <1>12, <1>13, <1>14, <1>15 DEF Even

-----------------------------------------------------------------------------
(* The invariant, and what follows from it.                                *)

LEMMA InitEven == Init => EInv
<1> SUFFICES ASSUME Init PROVE Even
  BY DEF EInv
<1>1. CInv /\ Types
  BY InitCInv DEF CInv
<1>2. /\ scene.from \in Nat /\ NJobs \in Nat /\ NJobs > 0
      /\ \A j \in Job : j \in Nat /\ j >= 1 /\ j <= NJobs /\ Sp(j) \in Syncpt
  BY <1>1, NumberTypes
<1>3. /\ \A s \in Syncpt : /\ sp[s].value = scene.from /\ sp[s].min = scene.from /\ sp[s].max = scene.from
                           /\ ~sp[s].locked
      /\ \A j \in Job : /\ job[j].step = "new" /\ ~job[j].cancelled /\ ~job[j].failed /\ job[j].ran = {}
                        /\ job[j].timed /\ job[j].fence = "none"
      /\ queue = <<>> /\ Elems(queue) = {} /\ Len(queue) = 0 /\ ~dma.on /\ handler = 0 /\ ~hung
      /\ sub.step = "idle" /\ sub.job = 0 /\ sub.used = 0 /\ timer = [client |-> 0, pending |-> FALSE]
      /\ stop = "no"
  BY EmptyFacts DEF Init
<1>4. \A j \in Job : ~Begun(j) /\ ~Gone(j) /\ j # sub.job
  BY <1>2, <1>3 DEF Begun, Gone
<1>5. Numbers
  <2>1. ASSUME NEW s \in Syncpt PROVE Counted(s)
    <3>1. \A j \in Job : scene.from <= scene.from + 2 * (j - 1)
      BY <1>2
    <3> QED BY <1>2, <1>3, <3>1 DEF Counted
  <2> QED BY <1>4, <2>1 DEF Numbers
<1>6. Turns
  BY <1>3, <1>4 DEF Turns
<1>7. Watched
  BY <1>3 DEF Watched
<1>8. Still
  BY <1>3 DEF Still
<1>9. Held = {}
  BY <1>3 DEF Held
<1>10. Packed
  BY <1>3, <1>9 DEF Packed
<1>11. Owned
  <2>1. pb.pos = scene.at /\ pb.fence = (scene.at - 1) % Ring
    BY DEF Init
  <2>2. Ring \in Nat /\ Ring > 5 /\ Positions = 0..(Ring - 1) /\ pb.pos \in Positions /\ pb.fence \in Positions
    BY <1>1, UseFacts
  <2> DEFINE x == pb.pos
             f == pb.fence
  <2>3. Space = Ring - 1
    <3>1. x \in 0..(Ring - 1) /\ x - 1 \in Int /\ 0 - Ring <= x - 1 /\ x - 1 < Ring /\ f = (x - 1) % Ring
      BY <2>1, <2>2
    <3>2. f = IF x - 1 >= 0 THEN x - 1 ELSE x - 1 + Ring
      <4> HIDE DEF x, f
      <4> QED BY <2>2, <3>1, RingFacts
    <3>3. Space = (f - x) % Ring
      BY DEF Space, Dist
    <3>4. f \in 0..(Ring - 1) /\ Ring > 0
      BY <2>2
    <3> HIDE DEF x, f
    <3>5. (f - x) % Ring = IF f >= x THEN f - x ELSE f - x + Ring
      BY <2>2, <3>1, <3>4, RingMinus
    <3> QED BY <2>2, <3>1, <3>2, <3>3, <3>5
  <2>4. Fill = Ring - 1 - Space
    BY <1>1, UseFill
  <2>5. \A k \in Positions : ~(Use[k] < Fill)
    <3>1. \A k \in Positions : Use[k] \in Nat
      BY <1>1, UseFacts
    <3>2. Fill = 0
      BY <2>2, <2>3, <2>4
    <3> QED BY <3>1, <3>2
  <2> QED BY <2>5 DEF Owned
<1>12. Engine
  BY <1>3 DEF Engine
<1>13. Paced
  BY <1>3, <1>4, <1>9 DEF Paced, WholeJobs
<1> QED BY <1>5, <1>6, <1>7, <1>8, <1>10, <1>11, <1>12, <1>13 DEF Even

\* Every step keeps jobs in their places and the engine with them.
LEMMA StepEven == CInv /\ EInv /\ [Next]_vars => EInv'
<1> SUFFICES ASSUME CInv, EInv, [Next]_vars, Undisturbed', NoWrap' PROVE Even'
  BY DEF EInv
<1>1. EHyp
  BY SameScene DEF EHyp, EInv, NoWrap, Undisturbed, env
<1>2. CASE UNCHANGED vars
  BY <1>1, <1>2, SameEven
<1>3. CASE Next
  <2>1. ASSUME NEW j \in Job, BeginRuns(j) \/ Put(j) \/ FenceGivesUp(j) PROVE Even'
    BY <1>1, <2>1, BeginEven, PutEven, FenceEven
  <2>2. ASSUME NEW s \in Syncpt, Interrupt(s) \/ Look(s) PROVE Even'
    BY <1>1, <2>2, CounterEven
  <2>3. CASE Submit
    BY <1>1, <2>3, PushesEven, WakeEven, EndEven DEF Submit
  <2>4. ~HandlerRuns
    BY <1>1 DEF HandlerRuns, Handler, EHyp, Even, Still
  <2>5. CASE UpdateRuns \/ EngineRuns \/ TimerGoesOff
    BY <1>1, <2>5, UpdateEven, ExecEven, TimerEven
  <2>6. CASE StopRuns \/ StopCheck \/ StopWake
    BY <1>1, <2>6, StopEven
  <2> QED BY <1>3, <2>1, <2>2, <2>3, <2>4, <2>5, <2>6 DEF Next
<1> QED BY <1>2, <1>3

\* They are there throughout.
LEMMA EvenInvariance == Spec => [](CInv /\ EInv)
BY InitEven, StepEven, Invariance, PTL DEF Spec

\* The hardware never takes the second half of a wide command of host1x_cdma_push_wide()
\* for a command, in a ring with room for all jobs whatever fails, nor in one whose slots
\* are used again while nothing fails.
THEOREM WholeInReuse == Spec => [](NoWrap => FetchWhole)
<1>1. CInv /\ EInv /\ (Roomy => FetchWhole) => (NoWrap => FetchWhole)
  <2> SUFFICES ASSUME CInv, EInv, NoWrap, Undisturbed, Busy PROVE At.op # "arg"
    BY DEF FetchWhole, Calm
  <2>1. EHyp
    BY DEF EHyp, EInv
  <2>2. PICK j \in Held, d \in {-1, 0, 2, 3} : Doing(j, d)
    BY <2>1, Fetches
  <2> QED BY <2>2 DEF Doing
<1> QED BY <1>1, WholeCommands, EvenInvariance, PTL

\* A job that host1x_cdma_update() takes from the queue, after which job_free() unpins its
\* memory, has had its work done by the engine, was cancelled or was failed, and no job has
\* its later parts done without its work: in a ring with room for all jobs whatever fails,
\* and in one whose slots are used again while nothing fails, where they have all had it.
THEOREM UnpinnedAfterWork == Spec => [](NoWrap => PinnedWhileUsed)
<1>1. CInv /\ EInv /\ (Roomy /\ NoWrap => PinnedWhileUsed) => (NoWrap => PinnedWhileUsed)
  <2> SUFFICES ASSUME CInv, EInv, NoWrap, Undisturbed
               PROVE  WholeJobs /\ \A j \in Job : Ended(j) => "work" \in job[j].ran
    BY DEF PinnedWhileUsed, Calm
  <2>1. Paced /\ Submission
    BY DEF CInv, EInv, Even
  <2>2. ASSUME NEW j \in Job, Ended(j) PROVE Gone(j)
    BY <2>1, <2>2 DEF Ended, Queued, Begun, Gone, Elems, Submission
  <2> QED BY <2>1, <2>2 DEF Paced
<1> QED BY <1>1, UnpinnedAfterUse, EvenInvariance, PTL

\* "the current sync_queue entry has exceeded its TTL": cdma_timeout_handler() fails no job
\* but one whose own timer has gone off, in a ring with room for all jobs while fences and
\* timers keep their times, and in one of any size while nothing hangs: there it fails none,
\* however long a submission waits for slots.
THEOREM OwnTimerOnly == Spec => [](NoWrap => OwnTimeout)
<1>1. CInv /\ EInv /\ (Roomy /\ NoWrap => OwnTimeout) => (NoWrap => OwnTimeout)
  <2> SUFFICES ASSUME CInv, EInv, NoWrap, Undisturbed PROVE OwnTTL
    BY DEF OwnTimeout, Calm
  <2> QED BY DEF OwnTTL, EInv, Even, Still
<1> QED BY <1>1, FailsByOwnTimer, EvenInvariance, PTL

=============================================================================
