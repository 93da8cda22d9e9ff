-------------------------------- MODULE Cdma --------------------------------
(***************************************************************************)
(* Command DMA of a host1x channel, drivers/gpu/host1x/cdma.c with         *)
(* hw/cdma_hw.c, hw/channel_hw.c and job.c, as built for HOST1X_HW >= 6:   *)
(* jobs are written to a ring of slots that the hardware fetches, queued   *)
(* until their syncpoint says they are over, and failed by a timer if it   *)
(* does not.  A submission holds the lock of the channel and drops it when *)
(* it must wait for slots; update and timeout work take it in between.     *)
(*                                                                         *)
(* A job is three pushes: its work (two slots that must stay together, and *)
(* a padding slot where the ring ends), the increment after it, the        *)
(* release.  The increments before and in the work are counted as one.     *)
(* Fences are those of Timeline, which Fence implements.                   *)
(***************************************************************************)
EXTENDS Integers, Sequences, FiniteSets, FiniteSetsExt

CONSTANTS NJobs,      \* jobs, numbered in the order in which they get submitlock
          Syncpt,     \* syncpoints, each used by this channel only
          CounterMod, \* 2^32 in the code
          Scenarios   \* records: see CdmaAssumption

Job == 1..NJobs
Ops == <<"work", "final", "release">>

\* What the schedule (see below) may do: "slow": let a timer go off while the engine
\* is at work; "long": let a fence time out while its job waits for its turn or runs;
\* "early": let the engine finish a job before its submission is over; "late": let the
\* CPU take jobs from the queue when the engine is done with a job's work and the
\* hardware has yet to fetch the rest of it; "busy_stop": stop the channel during a
\* submission.  "legacy": jobs of drm.c, which ask for syncpt_recovery.
Troubles == {"slow", "long", "legacy", "early", "late", "busy_stop"}

\* env: the troubles; sp: the syncpoints of jobs; hangs: jobs the engine never
\* finishes; slots: of the ring; at: the position, and from: the syncpoints' value,
\* that earlier jobs have left.
ASSUME CdmaAssumption ==
  /\ NJobs \in Nat \ {0} /\ CounterMod \in Nat /\ CounterMod > 4 * NJobs /\ CounterMod % 2 = 0
  /\ \A s \in Scenarios : /\ s.env \subseteq Troubles /\ s.sp \in [Job -> Syncpt]
                          /\ s.hangs \subseteq Job /\ s.slots \in Nat /\ s.slots > 5
                          /\ s.at \in 0..(s.slots - 1) /\ s.from \in 0..(CounterMod - 1)

VARIABLES scene,     \* the scenario of this behaviour
          sp,        \* syncpoints: value, its shadow min, max, locked
          pb,        \* push buffer: pos, fence (equal when it is full)
          mem,       \* what is in the slots
          dma,       \* DMAGET, DMAPUT (and last_pos), running
          job,       \* the jobs
          queue,     \* sync_queue
          sub,       \* the submission that holds submitlock
          event, complete, \* what is waited for, and completions not yet taken
          timer,     \* timeout.client, and is the work pending?
          handler,   \* the job whose timer the running timeout work comes from, or 0
          update,    \* update_work is pending
          stop,      \* cdma_stop()
          hung       \* update_work waits for a callback that never comes, locked

vars == <<scene, sp, pb, mem, dma, job, queue, sub, event, complete, timer, handler, update,
          stop, hung>>

env == scene.env
Ring == scene.slots
Sp(j) == scene.sp[j]
Dist(to, from) == (to - from) % Ring  \* in the ring

Init ==
  /\ scene \in Scenarios
  /\ sp = [s \in Syncpt |-> [value |-> scene.from, min |-> scene.from, max |-> scene.from,
                             locked |-> FALSE]]
  /\ pb = [pos |-> scene.at, fence |-> (scene.at - 1) % Ring]
  /\ mem = [k \in 0..(Ring - 1) |-> [job |-> 0, op |-> "nop"]]
  /\ dma = [get |-> scene.at, put |-> scene.at, on |-> FALSE]
  /\ job = [j \in Job |-> [step |-> "new", first |-> 0, slots |-> 0, end |-> 0, thresh |-> 0,
                           cancelled |-> FALSE, timed |-> TRUE, fence |-> "none", ran |-> {},
                           expired |-> FALSE, failed |-> FALSE]]
  /\ queue = <<>> /\ sub = [step |-> "idle", job |-> 0, i |-> 0, free |-> 0, used |-> 0, first |-> 0]
  /\ event = "none" /\ complete = 0 /\ timer = [client |-> 0, pending |-> FALSE]
  /\ handler = 0 /\ update = FALSE /\ stop = "no" /\ hung = FALSE

-----------------------------------------------------------------------------
\* host1x_syncpt_is_expired()
Expired(v, t) == (v - t) % CounterMod < CounterMod \div 2

Locked == sub.step \in {"push", "end"} \/ hung  \* cdma->lock
Queued(j) == \E i \in 1..Len(queue) : queue[i] = j

\* host1x_pushbuffer_space()
Space == Dist(pb.fence, pb.pos)

\* cdma_flush()
Flush == dma' = [dma EXCEPT !.put = pb.pos]

\* External: what the hardware has at DMAGET.  It waits in a release until the
\* increment before it has arrived.
At == mem[dma.get]
Busy == dma.on /\ dma.get # dma.put
CanRun ==
  /\ Busy
  /\ At.op = "work" => At.job \notin scene.hangs
  /\ At.op = "release" => Expired(sp[Sp(At.job)].value, job[At.job].thresh)

-----------------------------------------------------------------------------
(* Submission: channel_submit()                                            *)

\* host1x_cdma_begin(); the job's values of the syncpoint are reserved here
Begin(j) ==
  LET s == Sp(j)
      end == (sp[s].max + 1) % CounterMod
      thresh == (sp[s].max + 2) % CounterMod
  IN  /\ sub.step = "idle" /\ ~Locked /\ job[j].step = "new" /\ \A i \in 1..(j - 1) : job[i].step # "new"
      /\ IF sp[s].locked
           THEN job' = [job EXCEPT ![j].step = "refused"] /\ UNCHANGED <<sub, sp, dma>>
           ELSE /\ sub' = [step |-> "push", job |-> j, i |-> 1, free |-> 0, used |-> 0, first |-> pb.pos]
                /\ job' = [job EXCEPT ![j].step = "submit", ![j].end = end, ![j].thresh = thresh]
                /\ sp' = [sp EXCEPT ![s].max = thresh]
                /\ dma' = IF dma.on THEN dma ELSE [get |-> pb.pos, put |-> pb.pos, on |-> TRUE]
      /\ UNCHANGED <<scene, pb, mem, queue, event, complete, timer, handler, update, stop, hung>>

\* host1x_pushbuffer_push(), once or more
Write(ops) ==
  /\ mem' = [k \in 0..(Ring - 1) |->
               LET i == Dist(k, pb.pos) + 1
               IN  IF i <= Len(ops) THEN [job |-> sub.job, op |-> ops[i]] ELSE mem[k]]
  /\ pb' = [pb EXCEPT !.pos = (@ + Len(ops)) % Ring]

\* host1x_cdma_wait_locked(), without space: sleeps, or lets others run while
\* somebody else sleeps
WaitForSpace ==
  /\ Flush
  /\ IF event = "none" THEN event' = "space" /\ sub' = [sub EXCEPT !.step = "sleep"]
     ELSE UNCHANGED event /\ sub' = [sub EXCEPT !.step = "yield"]
  /\ UNCHANGED <<pb, mem>>

\* Mutant: padding is not counted.
PushedTwo(free, used) ==
  sub' = [sub EXCEPT !.step = IF sub.i = Len(Ops) THEN "end" ELSE "push",
                     !.i = @ + 1, !.free = free, !.used = @ + Min({used, 2})]

Pushed(free, used) ==
  sub' = [sub EXCEPT !.step = IF sub.i = Len(Ops) THEN "end" ELSE "push",
                     !.i = @ + 1, !.free = free, !.used = @ + used]

\* Mutant: no padding.
PaddingNone == <<>>

Padding == IF pb.pos + 2 > Ring THEN <<"pad">> ELSE <<>>

\* host1x_cdma_push_wide()
PushWide ==
  LET ops == Padding \o <<"work", "arg">>
  IN  /\ sub.step = "push" /\ Ops[sub.i] = "work"
      /\ IF Space < Len(ops) THEN WaitForSpace
         ELSE Write(ops) /\ Pushed(Space - Len(ops), Len(ops)) /\ UNCHANGED <<dma, event>>
      /\ UNCHANGED <<scene, sp, job, queue, complete, timer, handler, update, stop, hung>>

\* host1x_cdma_push()
Push ==
  /\ sub.step = "push" /\ Ops[sub.i] # "work"
  /\ IF sub.free = 0 /\ Space = 0 THEN WaitForSpace
     ELSE /\ Write(<<Ops[sub.i]>>) /\ Pushed((IF sub.free = 0 THEN Space ELSE sub.free) - 1, 1)
          /\ IF sub.free = 0 THEN Flush ELSE UNCHANGED dma
          /\ UNCHANGED event
  /\ UNCHANGED <<scene, sp, job, queue, complete, timer, handler, update, stop, hung>>

\* wait_for_completion(), or schedule(); the lock is taken again
Wake ==
  /\ sub.step = "sleep" /\ complete > 0
  /\ complete' = complete - 1 /\ sub' = [sub EXCEPT !.step = "yield"]
  /\ UNCHANGED <<scene, sp, pb, mem, dma, job, queue, event, timer, handler, update, stop, hung>>

Relock ==
  /\ sub.step = "yield" /\ ~Locked
  /\ sub' = [sub EXCEPT !.step = "push"]
  /\ UNCHANGED <<scene, sp, pb, mem, dma, job, queue, event, complete, timer, handler, update, stop, hung>>

\* The fence of the job, and host1x_cdma_end().  A fence that is reached already
\* takes no callback.
End ==
  LET j == sub.job
      missed == Expired(sp[Sp(j)].min, job[j].thresh)
  IN  /\ sub.step = "end"
      /\ Flush
      /\ job' = [job EXCEPT ![j] = [@ EXCEPT !.step = "held", !.first = sub.first, !.slots = sub.used,
                                             !.fence = IF missed THEN "missed" ELSE "pending"]]
      /\ queue' = Append(queue, j)
      /\ timer' = IF queue = <<>> /\ timer.client = 0 THEN [client |-> j, pending |-> TRUE] ELSE timer
      /\ update' = (update \/ missed)
      /\ sub' = [step |-> "idle", job |-> 0, i |-> 0, free |-> 0, used |-> 0, first |-> 0]
      /\ UNCHANGED <<scene, sp, pb, mem, event, complete, handler, stop, hung>>

\* host1x_job_put() by the submitter; job_free() waits for a callback that was
\* neither removed nor called
Put(j) ==
  /\ job[j].step = "held"
  /\ job' = [job EXCEPT
               ![j].step = IF ~Queued(j) /\ job[j].fence = "missed" THEN "stuck" ELSE "done",
               ![j].fence = IF Queued(j) THEN @ ELSE "gone"]
  /\ UNCHANGED <<scene, sp, pb, mem, dma, queue, sub, event, complete, timer, handler, update, stop, hung>>

-----------------------------------------------------------------------------
(* Completion: update_cdma_locked(), on the jobs jb and syncpoints sy       *)

\* Mutant: off by one.
OverSoon(jb, sy, j) == Expired(sy[Sp(j)].min, jb[j].end - 1) \/ jb[j].cancelled

Over(jb, sy, j) == Expired(sy[Sp(j)].min, jb[j].end) \/ jb[j].cancelled

\* The jobs it takes from the queue: those before the first that is not over,
\* unless it hangs in job_free() before
Hangs(jb, j) == jb[j].fence = "missed" /\ jb[j].step = "done"
Retired(jb, sy) ==
  CHOOSE n \in 0..Len(queue) :
    /\ \A i \in 1..n : Over(jb, sy, queue[i]) /\ (i < n => ~Hangs(jb, queue[i]))
    /\ n < Len(queue) => ~Over(jb, sy, queue[n + 1]) \/ (n > 0 /\ Hangs(jb, queue[n]))

SlotsOf(jb, js) == MapThenSumSet(LAMBDA j : jb[j].slots, js)

\* Mutant: the next job is left without a timer.
TimerAfterNone(jb, rest, n) == IF n = 0 THEN timer ELSE [client |-> 0, pending |-> FALSE]

\* Mutant: the timer goes on.
TimerAfterKeep(jb, rest, n) == timer

\* The timer stops with each job that is over and starts for the next.
TimerAfter(jb, rest, n) ==
  IF n = 0 /\ timer.client # 0 THEN timer
  ELSE IF rest # <<>> /\ jb[Head(rest)].timed THEN [client |-> Head(rest), pending |-> TRUE]
  ELSE [client |-> 0, pending |-> FALSE]

\* Is what is waited for there?
Signals(n, rest) == (event = "space" /\ n > 0) \/ (event = "empty" /\ rest = <<>>)

UpdateLocked(jb, sy) ==
  LET n == Retired(jb, sy)
      out == {queue[i] : i \in 1..n}
      rest == SubSeq(queue, n + 1, Len(queue))
      hangs == n > 0 /\ Hangs(jb, queue[n])
  IN  /\ queue' = rest /\ pb' = [pb EXCEPT !.fence = (@ + SlotsOf(jb, out)) % Ring]
      /\ job' = [j \in Job |-> IF j \in out /\ jb[j].step = "done" THEN [jb[j] EXCEPT !.fence = "gone"]
                               ELSE jb[j]]
      /\ hung' = hangs
      /\ IF hangs THEN timer' = [client |-> 0, pending |-> FALSE] /\ UNCHANGED <<event, complete>>
         ELSE /\ timer' = TimerAfter(jb, rest, n)
              /\ event' = IF Signals(n, rest) THEN "none" ELSE event
              /\ complete' = IF Signals(n, rest) THEN complete + 1 ELSE complete

\* cdma_update_work()
Update ==
  /\ update /\ ~Locked
  /\ update' = FALSE /\ UpdateLocked(job, sp)
  /\ UNCHANGED <<scene, sp, mem, dma, sub, handler, stop>>

-----------------------------------------------------------------------------
(* Timeout: cdma_timeout_handler()                                         *)

\* "has buffer actually completed?"
Completed(c) == Expired(sp[Sp(c)].value, job[c].end)

\* The fences of s that are reached at v
Due(s, v) == {j \in Job : Sp(j) = s /\ job[j].fence = "pending" /\ Expired(v, job[j].thresh)}

\* The delayed work goes off; it does not run beside itself.
TimerFires ==
  /\ timer.pending /\ handler = 0
  /\ timer' = [timer EXCEPT !.pending = FALSE] /\ handler' = timer.client
  /\ job' = [job EXCEPT ![timer.client].expired = TRUE]
  /\ UNCHANGED <<scene, sp, pb, mem, dma, queue, sub, event, complete, update, stop, hung>>

\* Mutant: the last one.
StuckLast(value) ==
  LET S == {i \in 1..Len(queue) : value < job[queue[i]].end} IN IF S = {} THEN 0 ELSE Max(S)

\* The first job in the queue that is not over, by value: 0 if there is none
Stuck(value) ==
  LET S == {i \in 1..Len(queue) : value < job[queue[i]].end} IN IF S = {} THEN 0 ELSE Min(S)

\* Mutant: with the job that has failed.
RestartAtFailed(k) == IF k = 0 THEN dma.put ELSE job[queue[k]].first

\* CDMA goes on with the job after the k-th, or where the CPU has written to.
RestartAt(k) == IF k = 0 \/ k = Len(queue) THEN dma.put ELSE job[queue[k + 1]].first
Restart(k) == dma' = [get |-> RestartAt(k), put |-> pb.pos, on |-> TRUE]

\* host1x_cdma_update_sync_queue(): the CPU increments timeout.syncpt up to the end of
\* the job, whichever syncpoint the job is of
Recover(j, k) ==
  /\ job' = [job EXCEPT ![j] = [@ EXCEPT !.timed = FALSE, !.failed = TRUE]]
  /\ sp' = [sp EXCEPT ![Sp(timer.client)] = [@ EXCEPT !.value = job[j].end, !.min = job[j].end]]
  /\ Restart(k)
  /\ UNCHANGED <<pb, mem, queue, event, complete, timer, hung>>

\* Mutant: the jobs behind it are left alone.
VictimsOne(k) == {queue[k]}

Victims(k) == {queue[i] : i \in {n \in k..Len(queue) : Sp(queue[n]) = Sp(queue[k])}}

\* The slots that are overwritten
Harmless(s, i) == Dist(s, job[i].first) < job[i].slots

\* ... or it and the later jobs of its syncpoint are cancelled, their slots made harmless
CancelFrom(j, k) ==
  LET sy == [s \in Syncpt |-> [sp[s] EXCEPT !.min = IF s = Sp(timer.client) THEN sp[s].value ELSE @,
                                            !.locked = @ \/ s = Sp(j)]]
      jb == [i \in Job |-> [job[i] EXCEPT !.cancelled = @ \/ i \in Victims(k),
                                          !.failed = @ \/ i = j]]
  IN  /\ mem' = [s \in 0..(Ring - 1) |->
                   IF \E i \in Victims(k) \ {j} : Harmless(s, i)
                   THEN [mem[s] EXCEPT !.op = "nop"] ELSE mem[s]]
      /\ sp' = sy /\ UpdateLocked(jb, sy)
      /\ Restart(k)

Load(s) == sp' = [sp EXCEPT ![s].min = sp[s].value]

Handler ==
  LET c == timer.client
      k == Stuck(sp[Sp(c)].value)
  IN  /\ handler # 0 /\ ~Locked
      /\ handler' = 0
      /\ \/ c = 0 /\ UNCHANGED <<sp, pb, mem, dma, job, queue, event, complete, timer, hung>>
         \/ c # 0 /\ Completed(c) /\ Load(Sp(c))
            /\ UNCHANGED <<pb, mem, dma, job, queue, event, complete, timer, hung>>
         \/ c # 0 /\ ~Completed(c) /\ k = 0 /\ Load(Sp(c)) /\ Restart(0)
            /\ UNCHANGED <<pb, mem, job, queue, event, complete, timer, hung>>
         \/ c # 0 /\ ~Completed(c) /\ k # 0 /\ "legacy" \in env /\ Recover(queue[k], k)
         \/ c # 0 /\ ~Completed(c) /\ k # 0 /\ "legacy" \notin env /\ CancelFrom(queue[k], k)
      /\ UNCHANGED <<scene, sub, update, stop>>

-----------------------------------------------------------------------------
(* External: the hardware, fences and those who read the syncpoint.  At the *)
(* end of the ring is a RESTART, which would break a wide command in two.   *)

Exec ==
  LET j == At.job
      bump == At.op \in {"work", "final"}
      next == IF At.op = "pad" \/ dma.get = Ring - 1 THEN 0
              ELSE IF At.op = "work" THEN dma.get + 2 ELSE dma.get + 1
  IN  /\ CanRun
      /\ dma' = [dma EXCEPT !.get = next % Ring]
      /\ sp' = IF bump THEN [sp EXCEPT ![Sp(j)].value = (@ + 1) % CounterMod] ELSE sp
      /\ job' = IF At.op \in {"work", "final", "release"}
                  THEN [job EXCEPT ![j].ran = @ \cup {At.op}] ELSE job
      /\ UNCHANGED <<scene, pb, mem, queue, sub, event, complete, timer, handler, update, stop, hung>>

\* The threshold interrupt; fences call job_complete_callback().
Interrupt(s) ==
  /\ Due(s, sp[s].value) # {}
  /\ Load(s)
  /\ job' = [j \in Job |-> IF j \in Due(s, sp[s].value) THEN [job[j] EXCEPT !.fence = "signalled"] ELSE job[j]]
  /\ update' = TRUE
  /\ UNCHANGED <<scene, pb, mem, dma, queue, sub, event, complete, timer, handler, stop, hung>>

\* After 30 seconds.
FenceTimeout(j) ==
  /\ job[j].fence = "pending" /\ j \notin Due(Sp(j), sp[Sp(j)].value)
  /\ job' = [job EXCEPT ![j].fence = "signalled"] /\ update' = TRUE
  /\ UNCHANGED <<scene, sp, pb, mem, dma, queue, sub, event, complete, timer, handler, stop, hung>>

\* Somebody waits for the syncpoint.
Look(s) ==
  /\ sp[s].min # sp[s].value
  /\ Load(s)
  /\ UNCHANGED <<scene, pb, mem, dma, job, queue, sub, event, complete, timer, handler, update, stop, hung>>

-----------------------------------------------------------------------------
(* cdma_stop()                                                             *)

StopCall ==
  /\ stop = "no" /\ dma.on
  /\ stop' = "check"
  /\ UNCHANGED <<scene, sp, pb, mem, dma, job, queue, sub, event, complete, timer, handler, update, hung>>

StopCheck ==
  /\ stop = "check" /\ ~Locked
  /\ IF queue = <<>> THEN stop' = "done" /\ dma' = [dma EXCEPT !.on = FALSE] /\ UNCHANGED event
     ELSE event = "none" /\ stop' = "sleep" /\ event' = "empty" /\ UNCHANGED dma
  /\ UNCHANGED <<scene, sp, pb, mem, job, queue, sub, complete, timer, handler, update, hung>>

StopWake ==
  /\ stop = "sleep" /\ complete > 0
  /\ complete' = complete - 1 /\ stop' = "check"
  /\ UNCHANGED <<scene, sp, pb, mem, dma, job, queue, sub, event, timer, handler, update, hung>>

-----------------------------------------------------------------------------
(* The schedule: what is assumed of when things happen, beside what the     *)
(* code waits for.  Each trouble takes an assumption back.                  *)

\* A submission is over before the engine is done with its job ...
InTime == "early" \in env \/ ~(Busy /\ At.op = "final" /\ job[At.job].step = "submit")
EngineRuns == InTime /\ Exec
Runs == CanRun /\ InTime

\* ... the hardware fetches the last slots of a job before the CPU hears of its end,
Settled == "late" \in env \/ ~(Runs /\ At.op \in {"final", "release"} /\ Queued(At.job))
UpdateRuns == Settled /\ Update
HandlerRuns == Settled /\ Handler

\* an engine that can work is done with a job in its time, and the CPU with what
\* follows; 30 seconds are three times the timeout of a job,
AtRest == ~Runs /\ ~update /\ \A s \in Syncpt : Due(s, sp[s].value) = {}
TimerGoesOff == ("slow" \in env \/ AtRest) /\ TimerFires
FenceGivesUp(j) == ("long" \in env \/ (AtRest /\ ~timer.pending /\ handler = 0)) /\ FenceTimeout(j)

\* and nobody submits to a channel while it is stopped.
BeginRuns(j) == ("busy_stop" \in env \/ stop \in {"no", "done"}) /\ Begin(j)
StopRuns == ("busy_stop" \in env \/ sub.step = "idle") /\ StopCall

-----------------------------------------------------------------------------
Submit == PushWide \/ Push \/ Wake \/ Relock \/ End

Next == \/ \E j \in Job : BeginRuns(j) \/ Put(j) \/ FenceGivesUp(j)
        \/ \E s \in Syncpt : Interrupt(s) \/ Look(s)
        \/ Submit \/ UpdateRuns \/ TimerGoesOff \/ HandlerRuns \/ EngineRuns
        \/ StopRuns \/ StopCheck \/ StopWake

\* The hardware runs what it can, threads and work that can run do run, timers
\* go off, and a mutex is handed to those who wait for it.  Nobody has to submit,
\* look or stop.
Fairness ==
  /\ WF_vars(EngineRuns) /\ WF_vars(Submit) /\ WF_vars(TimerGoesOff) /\ WF_vars(StopWake)
  /\ SF_vars(UpdateRuns) /\ SF_vars(HandlerRuns) /\ SF_vars(StopCheck)
  /\ \A s \in Syncpt : WF_vars(Interrupt(s))
  /\ \A j \in Job : WF_vars(Put(j)) /\ WF_vars(FenceGivesUp(j))

Spec == Init /\ [][Next]_vars /\ Fairness

-----------------------------------------------------------------------------
Roomy == Ring > 5 * NJobs  \* nobody ever waits for slots
NoWrap == scene.from + 2 * NJobs < CounterMod
Undisturbed == scene.hangs = {} /\ env \subseteq {"legacy"}  \* nothing times out either
Calm == Roomy \/ Undisturbed

\* Positions are positions, every party is at one of its steps, the queue holds a job
\* once, and at most one job is being submitted: the one the submission is for.
TypeOK ==
  /\ pb \in [pos : 0..(Ring - 1), fence : 0..(Ring - 1)]
  /\ dma \in [get : 0..(Ring - 1), put : 0..(Ring - 1), on : BOOLEAN]
  /\ queue \in Seq(Job) /\ Cardinality({queue[i] : i \in 1..Len(queue)}) = Len(queue)
  /\ sub.step \in {"idle", "push", "sleep", "yield", "end"} /\ sub.job \in Job \cup {0}
  /\ \A j \in Job : /\ job[j].step \in {"new", "refused", "submit", "held", "done", "stuck"}
                    /\ job[j].step = "submit" <=> sub.job = j
                    /\ job[j].fence \in {"none", "pending", "signalled", "missed", "gone"}
  /\ event \in {"none", "space", "empty"} /\ complete \in 0..2
  /\ timer.client # 0 => queue # <<>>
  /\ {timer.pending, update, hung} \subseteq BOOLEAN /\ handler \in Job \cup {0}
  /\ stop \in {"no", "check", "sleep", "done"}

\* Every slot that is not free belongs to a queued job or to the submission
\* under way: none is lost, none is freed twice, over padding, failures and stops.
SlotsAccounted ==
  Ring - 1 - Space = sub.used + SlotsOf(job, {queue[i] : i \in 1..Len(queue)})

\* The hardware never fetches the second half of a wide command as a command, in a
\* ring that wraps, after failures or with submissions that wait for slots.  In a ring
\* that fills up this rests on the schedule, too: without "late" no slot is given
\* back, and so none overwritten, before it is fetched (Settled).
FetchWhole == Calm => (Busy => At.op # "arg")

\* What the hardware has yet to fetch: the slots from DMAGET to DMAPUT.
ToFetch == {k \in 0..(Ring - 1) : dma.on /\ Dist(k, dma.get) < Dist(dma.put, dma.get)}

\* The memory of a job is unpinned when it leaves the queue, of a failed or a cancelled
\* one at once: the hardware never comes to the work of such a job.
UnpinnedUnfetched ==
  \A k \in ToFetch : mem[k].op = "work" => Queued(mem[k].job) \/ mem[k].job = sub.job

\* The engine never does the later part of a job whose work it has skipped.
WholeJobs == \A j \in Job : job[j].ran \cap {"final", "release"} # {} => "work" \in job[j].ran

\* "future submits return an error": once a job of a syncpoint has failed, no
\* other is waiting for it in the queue.
NothingAfterFailure ==
  Roomy => \A i \in 1..Len(queue) : sp[Sp(queue[i])].locked => job[queue[i]].cancelled

\* A job leaves the queue, and its memory is unpinned, when the engine has done
\* its work, unless the job has failed; "CDMA will continue execution starting with
\* the next job" after that, not with half of one.
Ended(j) == job[j].step \in {"held", "done", "stuck"} /\ ~Queued(j)
PinnedWhileUsed ==
  Calm => /\ WholeJobs
          /\ NoWrap => \A j \in Job : Ended(j) => \/ "work" \in job[j].ran
                                                \/ job[j].cancelled \/ job[j].failed

\* "the current sync_queue entry has exceeded its TTL": the job that is failed is
\* one whose own timer has gone off, while submissions, interrupts and stops change
\* the queue before the handler gets the lock.  "slow" and "long" are left out: here
\* no timer goes off while the engine is about to finish the job, and with them the
\* handler of one job fails the next.  Not so with "legacy", either: while a recovered
\* job has no timer, fences of those behind it may time out, and nobody sees them end.
\* Nor with "late": where a stop skips the last increment of a job, the engine waits
\* for ever in the next job of its syncpoint, and fences behind it time out.
OwnTTL == \A j \in Job : job[j].failed => job[j].expired
OwnTimeout == Calm /\ env \subseteq {"early", "busy_stop"} => OwnTTL

\* Every job that was submitted leaves the queue and is freed, and cdma_stop()
\* returns, whatever hangs and whoever takes the completion of the other.
JobsEnd ==
  <>[](/\ queue = <<>> /\ sub.step = "idle" /\ stop \in {"no", "done"}
       /\ \A j \in Job : job[j].step \in {"new", "refused", "done"})
JobsEndHere == ~NoWrap \/ env \cap {"long", "early", "legacy"} # {} \/ JobsEnd
=============================================================================
