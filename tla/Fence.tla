------------------------------- MODULE Fence --------------------------------
(***************************************************************************)
(* Syncpoint fences of host1x, drivers/gpu/host1x: a hardware counter with *)
(* one threshold interrupt, a shadow of it in memory, and a sorted list of *)
(* dma_fences waiting for it.  Four parties drop references to a fence and *)
(* three of them signal it: its user, the interrupt handler, the timeout   *)
(* work and the callback.  sp->fences.lock is the dma_fence lock, too;     *)
(* signaling (an atomic_xchg) and the work's state are decided outside it. *)
(***************************************************************************)
EXTENDS Integers, Sequences, FiniteSets, SequencesExt

CONSTANTS Fence, None,  \* memory for fences, and no fence
          CounterMod,   \* a counter is a number modulo CounterMod, 2^32 in the code
          Start,        \* the counter's value at first
          Ahead,        \* how far ahead of the counter a threshold may be
          MaxIncr,      \* bound on increments in a behaviour
          MaxSuspends,  \* bound on system suspends
          Scenarios,    \* what fences are used for: functions from Fence to Kinds
          HotSuspend    \* may the system sleep while fences are listed?

\* host1x_syncpt_wait_ts(); nvhost_intr_register_notifier(), whose callback puts
\* the fence; a sync file, and one that is polled, which asks whether the fence
\* is signalled; a client that registers a callback and may withdraw it; none.
Kinds == {"wait", "notifier", "file", "polled", "client", "unused"}

Half == CounterMod \div 2

\* A threshold is compared with the shadow, which lags behind by up to all
\* increments: both together must stay within half of the range.
ASSUME FenceAssumption ==
  /\ None \notin Fence
  /\ CounterMod \in Nat \ {0} /\ CounterMod = 2 * Half
  /\ Start \in 0..(CounterMod - 1) /\ Ahead \in Nat \ {0} /\ MaxIncr \in Nat
  /\ MaxIncr + Ahead < Half /\ MaxSuspends \in Nat
  /\ Scenarios \subseteq [Fence -> Kinds] /\ HotSuspend \in BOOLEAN

VARIABLES total,      \* increments so far
          hw, min,    \* the counter and sp->min_val
          reg, enabled, \* threshold register, interrupt enable bit
          list,       \* sp->fences.list
          locked,     \* sp->fences.lock is held by the interrupt handler
          isr,        \* the interrupt handler: its step and fence
          load,       \* load[a]: syncpt_load() by the interrupt handler or a waiter
          kind,       \* the scenario of this behaviour
          fence,      \* fence[f]: the struct host1x_syncpt_fence
          work,       \* work[f]: the state of its timeout_work
          user,       \* user[f]: what the user of f is at
          power, suspends

counter == <<total, hw, min>>
intr    == <<reg, enabled>>
pm      == <<power, suspends>>
vars    == <<counter, intr, list, locked, isr, load, kind, fence, work, user, pm>>

-----------------------------------------------------------------------------
(* Numbers.  goal is the threshold, counted from the start without a wrap; *)
(* threshold(f) is the number the code has.                                *)

Diff(a, b) == (a - b) % CounterMod
Counter(n) == (Start + n) % CounterMod
threshold(f) == Counter(fence[f].goal)

\* host1x_syncpt_is_expired(), and the handler: the sign bit of value - thresh
Expired(v, t) == Diff(v, t) < Half

\* (s32)(a - b) <= 0
NotAfter(a, b) == Diff(a, b) = 0 \/ Diff(a, b) >= Half

-----------------------------------------------------------------------------
(* dma_fence, external: references, and signalling under the lock, once,   *)
(* which calls the callback.  The callback of a notifier drops the         *)
(* reference its user left to it.                                          *)

Timed(f) == kind[f] \in {"notifier", "file", "polled"}  \* fence->timeout

Freed == [refs |-> 0, goal |-> 0, cb |-> FALSE, signaling |-> FALSE, signaled |-> FALSE,
          error |-> FALSE, late |-> FALSE]  \* late: error when it was signalled

Less(r) == IF r.refs = 1 THEN Freed ELSE [r EXCEPT !.refs = @ - 1]
Put(f) == fence' = [fence EXCEPT ![f] = Less(@)]

CallsBack(f) == fence[f].cb /\ kind[f] = "notifier"

Signal(f) ==
  LET r == [fence[f] EXCEPT !.signaled = TRUE, !.cb = FALSE,
                            !.late = IF fence[f].signaled THEN @ ELSE fence[f].error]
  IN  /\ fence' = [fence EXCEPT ![f] = IF CallsBack(f) THEN Less(r) ELSE r]
      /\ user' = IF CallsBack(f) THEN [user EXCEPT ![f] = "done"] ELSE user

Init ==
  /\ total = 0 /\ hw = Counter(0) /\ min = Counter(0)
  /\ reg = Counter(0) /\ enabled = FALSE /\ list = <<>> /\ locked = FALSE
  /\ isr = [step |-> "off", fence |-> None]
  /\ load = [a \in Fence \cup {None} |-> [step |-> "off", old |-> 0, live |-> 0]]
  /\ kind \in Scenarios
  /\ fence = [f \in Fence |-> Freed]
  /\ work = [f \in Fence |-> "idle"] /\ user = [f \in Fence |-> "off"]
  /\ power = TRUE /\ suspends = 0

-----------------------------------------------------------------------------
(* The list, always under the lock.                                        *)

\* host1x_intr_add_fence_to_list(): behind the last fence that is not after it
Inserted(f) ==
  LET before == {i \in 1..Len(list) : NotAfter(threshold(list[i]), threshold(f))}
  IN  InsertAt(list, IF before = {} THEN 1 ELSE Max(before) + 1, f)

Without(f) == RemoveAt(list, CHOOSE i \in 1..Len(list) : list[i] = f)
Listed(f) == \E i \in 1..Len(list) : list[i] = f

\* Mutant: the threshold stays what it was while an interrupt is awaited.
UpdateHwOnce(l) ==
  /\ reg' = IF l # <<>> /\ ~enabled THEN threshold(Head(l)) ELSE reg
  /\ enabled' = (l # <<>>)

\* host1x_intr_update_hw_state()
UpdateHw(l) ==
  /\ reg' = IF l # <<>> THEN threshold(Head(l)) ELSE reg
  /\ enabled' = (l # <<>>)

-----------------------------------------------------------------------------
(* syncpt_load(), by a waiter or, as None, by the interrupt handler.       *)

Loading(a, step) == load[a].step = step
StartLoad(a) == load' = [load EXCEPT ![a].step = "min"]
Unloaded(a) == load' = [load EXCEPT ![a] = [step |-> "off", old |-> 0, live |-> 0]]

LoadMin(a) ==
  /\ Loading(a, "min")
  /\ load' = [load EXCEPT ![a] = [step |-> "hw", old |-> min, live |-> 0]]
  /\ UNCHANGED <<counter, intr, list, locked, isr, kind, fence, work, user, pm>>

LoadHw(a) ==
  /\ Loading(a, "hw")
  /\ load' = [load EXCEPT ![a] = [step |-> "swap", old |-> load[a].old, live |-> hw]]
  /\ UNCHANGED <<counter, intr, list, locked, isr, kind, fence, work, user, pm>>

\* Mutant: stores what it has read, whoever has stored since.
LoadSwapStore(a) ==
  /\ Loading(a, "swap")
  /\ min' = load[a].live /\ load' = [load EXCEPT ![a] = [@ EXCEPT !.step = "done", !.old = 0]]
  /\ UNCHANGED <<total, hw, intr, list, locked, isr, kind, fence, work, user, pm>>

\* atomic_cmpxchg(): once more if somebody has stored since
LoadSwap(a) ==
  /\ Loading(a, "swap")
  /\ IF min = load[a].old
       THEN min' = load[a].live /\ load' = [load EXCEPT ![a] = [@ EXCEPT !.step = "done", !.old = 0]]
       ELSE UNCHANGED min /\ StartLoad(a)
  /\ UNCHANGED <<total, hw, intr, list, locked, isr, kind, fence, work, user, pm>>

Load(a) == LoadMin(a) \/ LoadHw(a) \/ LoadSwap(a)

-----------------------------------------------------------------------------
(* The user of a fence.                                                    *)

UserAt(f, step) == user[f] = step /\ power
UserTo(f, step) == user' = [user EXCEPT ![f] = step]

\* host1x_syncpt_wait_ts() looks at the counter for a while first.
BeginWait(f) ==
  /\ UserAt(f, "off") /\ kind[f] = "wait"
  /\ \E n \in 1..Ahead : fence' = [fence EXCEPT ![f].goal = total + n]
  /\ UserTo(f, "look") /\ StartLoad(f)
  /\ UNCHANGED <<counter, intr, list, locked, isr, kind, work, pm>>

Look(f) ==
  /\ UserAt(f, "look") /\ Loading(f, "done")
  /\ Unloaded(f)
  /\ IF Expired(min, threshold(f))
       THEN UserTo(f, "done") /\ fence' = [fence EXCEPT ![f] = Freed]
       ELSE UserTo(f, "created") /\ fence' = [fence EXCEPT ![f].refs = 1]
  /\ UNCHANGED <<counter, intr, list, locked, isr, kind, work, pm>>

\* host1x_fence_create(), in memory that is zeroed
Create(f, goal) ==
  /\ fence[f] = Freed /\ power
  /\ fence' = [fence EXCEPT ![f] = [Freed EXCEPT !.refs = 1, !.goal = goal]]
  /\ UserTo(f, "created")
  /\ UNCHANGED <<counter, intr, list, locked, isr, load, kind, work, pm>>

CreateTimed(f) == user[f] = "off" /\ Timed(f) /\ \E n \in 1..Ahead : Create(f, total + n)

\* Mutant: no reference for the timeout path.
EnableRefOnce(f) ==
  IF Expired(min, threshold(f))
    THEN /\ fence' = [fence EXCEPT ![f].signaled = TRUE]
         /\ UNCHANGED <<intr, list, work>>
    ELSE /\ fence' = [fence EXCEPT ![f] = [fence[f] EXCEPT !.cb = TRUE, !.refs = @ + 1]]
         /\ work' = IF Timed(f) THEN [work EXCEPT ![f] = "pending"] ELSE work
         /\ list' = Inserted(f) /\ UpdateHw(list')

\* host1x_syncpt_fence_enable_signaling(), called by dma_fence under the lock:
\* FALSE makes it signal the fence.
EnableSignaling(f) ==
  IF Expired(min, threshold(f))
    THEN /\ fence' = [fence EXCEPT ![f].signaled = TRUE]
         /\ UNCHANGED <<intr, list, work>>
    ELSE /\ fence' = [fence EXCEPT ![f] = [fence[f] EXCEPT !.cb = TRUE,
                                             !.refs = @ + (IF Timed(f) THEN 2 ELSE 1)]]
         /\ work' = IF Timed(f) THEN [work EXCEPT ![f] = "pending"] ELSE work
         /\ list' = Inserted(f) /\ UpdateHw(list')

\* dma_fence_wait_timeout() or dma_fence_add_callback(), which do not enable what is
\* signalled.  Of a fence that is signalled already or at once, a wait returns, and
\* the user with a callback lets go.
Arm(f) ==
  /\ UserAt(f, "created") /\ ~locked
  /\ IF fence[f].signaled THEN UNCHANGED <<intr, list, fence, work>> ELSE EnableSignaling(f)
  /\ UserTo(f, IF fence'[f].signaled /\ kind[f] \in {"wait", "notifier", "client"}
               THEN "leave" ELSE "armed")
  /\ UNCHANGED <<counter, locked, isr, load, kind, pm>>

\* The wait returns: the fence is signalled, or a signal came.
WaitReturns(f) ==
  /\ UserAt(f, "armed") /\ kind[f] = "wait"
  /\ fence' = [fence EXCEPT ![f].cb = FALSE] /\ UserTo(f, "leave")
  /\ UNCHANGED <<counter, intr, list, locked, isr, load, kind, work, pm>>

Woken(f) == fence[f].signaled /\ WaitReturns(f)
Interrupted(f) == ~fence[f].signaled /\ WaitReturns(f)

\* A client lets go of a fence that has called it back.
LetGo(f) ==
  /\ UserAt(f, "armed") /\ kind[f] = "client" /\ fence[f].signaled
  /\ Put(f) /\ UserTo(f, "done")
  /\ UNCHANGED <<counter, intr, list, locked, isr, load, kind, work, pm>>

\* dma_fence_put() by the user.  A waiter reads the counter again first, which is
\* one step here.
Leave(f) ==
  /\ UserAt(f, "leave")
  /\ fence' = [fence EXCEPT ![f] = Less([@ EXCEPT !.cb = FALSE])] /\ UserTo(f, "done")
  /\ min' = IF kind[f] = "wait" THEN hw ELSE min
  /\ UNCHANGED <<total, hw, intr, list, locked, isr, load, kind, work, pm>>

\* External: a sync file is closed, which may happen at any time or never.
Close(f) ==
  /\ UserAt(f, "created") \/ UserAt(f, "armed")
  /\ kind[f] \in {"file", "polled"}
  /\ fence' = [fence EXCEPT ![f] = Less([@ EXCEPT !.cb = FALSE])] /\ UserTo(f, "done")
  /\ UNCHANGED <<counter, intr, list, locked, isr, load, kind, work, pm>>

\* host1x_fence_cancel(): the wait has timed out, or the callback has been removed.
\* Runs the timeout work now and waits until it is over.
Cancel(f) ==
  /\ UserAt(f, "armed") /\ kind[f] \in {"wait", "client"}
  /\ kind[f] = "client" => fence[f].cb /\ ~locked
  /\ fence' = [fence EXCEPT ![f].cb = FALSE]
  /\ work' = [work EXCEPT ![f] = "pending"] /\ UserTo(f, "cancel")
  /\ UNCHANGED <<counter, intr, list, locked, isr, load, kind, pm>>

Cancelled(f) ==
  /\ UserAt(f, "cancel") /\ work[f] = "idle"
  /\ UserTo(f, "leave")
  /\ UNCHANGED <<counter, intr, list, locked, isr, load, kind, fence, work, pm>>

\* dma_fence_is_signaled(): signals a fence whose threshold the shadow has reached
IsSignaled(f) ==
  /\ UserAt(f, "created") \/ UserAt(f, "armed")
  /\ kind[f] = "polled" /\ ~fence[f].signaled /\ ~locked
  /\ Expired(min, threshold(f)) \/ fence[f].error
  /\ Signal(f)
  /\ UNCHANGED <<counter, intr, list, locked, isr, load, kind, work, pm>>

-----------------------------------------------------------------------------
(* do_fence_timeout()                                                      *)

WorkAt(f, step) == work[f] = step
WorkTo(f, step) == work' = [work EXCEPT ![f] = step]

WorkStarts(f) ==
  /\ WorkAt(f, "pending")
  /\ WorkTo(f, "xchg")
  /\ UNCHANGED <<counter, intr, list, locked, isr, load, kind, fence, user, pm>>

\* Mutant: goes on although the interrupt path was first.
TimeoutXchgBlind(f) ==
  /\ WorkAt(f, "xchg")
  /\ WorkTo(f, "remove") /\ fence' = [fence EXCEPT ![f].signaling = TRUE]
  /\ UNCHANGED <<counter, intr, list, locked, isr, load, kind, user, pm>>

TimeoutXchg(f) ==
  /\ WorkAt(f, "xchg")
  /\ IF fence[f].signaling
       THEN WorkTo(f, "idle") /\ IF Timed(f) THEN Put(f) ELSE UNCHANGED fence
       ELSE WorkTo(f, "remove") /\ fence' = [fence EXCEPT ![f].signaling = TRUE]
  /\ UNCHANGED <<counter, intr, list, locked, isr, load, kind, user, pm>>

\* host1x_intr_remove_fence()
TimeoutRemove(f) ==
  /\ WorkAt(f, "remove") /\ ~locked
  /\ IF Listed(f) THEN Put(f) /\ list' = Without(f) /\ UpdateHw(list')
     ELSE UNCHANGED <<fence, list, intr>>
  /\ WorkTo(f, "error")
  /\ UNCHANGED <<counter, locked, isr, load, kind, user, pm>>

TimeoutError(f) ==
  /\ WorkAt(f, "error")
  /\ fence' = [fence EXCEPT ![f].error = TRUE] /\ WorkTo(f, "signal")
  /\ UNCHANGED <<counter, intr, list, locked, isr, load, kind, user, pm>>

TimeoutSignal(f) ==
  /\ WorkAt(f, "signal") /\ ~locked
  /\ Signal(f) /\ WorkTo(f, IF Timed(f) THEN "put" ELSE "idle")
  /\ UNCHANGED <<counter, intr, list, locked, isr, load, kind, pm>>

TimeoutPut(f) ==
  /\ WorkAt(f, "put")
  /\ Put(f) /\ WorkTo(f, "idle")
  /\ UNCHANGED <<counter, intr, list, locked, isr, load, kind, user, pm>>

Timeout(f) == \/ WorkStarts(f) \/ TimeoutXchg(f) \/ TimeoutRemove(f) \/ TimeoutError(f)
              \/ TimeoutSignal(f) \/ TimeoutPut(f)

-----------------------------------------------------------------------------
(* syncpt_thresh_isr() and host1x_intr_handle_interrupt()                  *)

At(step) == isr.step = step
IsrTo(step) == isr' = [isr EXCEPT !.step = step]

\* External: the counter is compared with the threshold all the time.
IsrStart ==
  /\ At("off") /\ power /\ enabled /\ Expired(hw, reg)
  /\ IsrTo("disable")
  /\ UNCHANGED <<counter, intr, list, locked, load, kind, fence, work, user, pm>>

IsrDisable ==
  /\ At("disable")
  /\ enabled' = FALSE /\ IsrTo("load") /\ StartLoad(None)
  /\ UNCHANGED <<counter, reg, list, locked, kind, fence, work, user, pm>>

IsrLock ==
  /\ At("load") /\ Loading(None, "done") /\ ~locked
  /\ locked' = TRUE /\ IsrTo("walk")
  /\ UNCHANGED <<counter, intr, list, load, kind, fence, work, user, pm>>

\* Mutant: compares the numbers, not their difference.
DueRaw == list # <<>> /\ threshold(Head(list)) <= load[None].live

Due == list # <<>> /\ Expired(load[None].live, threshold(Head(list)))

\* Mutant: without list_del_init().
IsrTakeKeep ==
  /\ At("walk") /\ Due
  /\ isr' = [step |-> "xchg", fence |-> Head(list)]
  /\ UNCHANGED <<counter, intr, list, locked, load, kind, fence, work, user, pm>>

IsrTake ==
  /\ At("walk") /\ Due
  /\ list' = Tail(list) /\ isr' = [step |-> "xchg", fence |-> Head(list)]
  /\ UNCHANGED <<counter, intr, locked, load, kind, fence, work, user, pm>>

\* host1x_fence_signal()
IsrXchg ==
  /\ At("xchg")
  /\ fence' = [fence EXCEPT ![isr.fence].signaling = TRUE]
  /\ IsrTo(IF fence[isr.fence].signaling THEN "put" ELSE "cancel")
  /\ UNCHANGED <<counter, intr, list, locked, load, kind, work, user, pm>>

\* cancel_delayed_work(): the work is still pending
IsrCancel ==
  /\ At("cancel")
  /\ IF Timed(isr.fence) /\ WorkAt(isr.fence, "pending")
       THEN Put(isr.fence) /\ WorkTo(isr.fence, "idle") ELSE UNCHANGED <<fence, work>>
  /\ IsrTo("signal")
  /\ UNCHANGED <<counter, intr, list, locked, load, kind, user, pm>>

IsrSignal ==
  /\ At("signal")
  /\ Signal(isr.fence) /\ IsrTo("put")
  /\ UNCHANGED <<counter, intr, list, locked, load, kind, work, pm>>

IsrPut ==
  /\ At("put")
  /\ Put(isr.fence) /\ isr' = [step |-> "walk", fence |-> None]
  /\ UNCHANGED <<counter, intr, list, locked, load, kind, work, user, pm>>

\* Mutant: leaves the interrupt disabled.
IsrDoneDisabled ==
  /\ At("walk") /\ ~Due
  /\ locked' = FALSE /\ IsrTo("off") /\ Unloaded(None)
  /\ UNCHANGED <<counter, intr, list, kind, fence, work, user, pm>>

IsrDone ==
  /\ At("walk") /\ ~Due
  /\ UpdateHw(list) /\ locked' = FALSE /\ IsrTo("off") /\ Unloaded(None)
  /\ UNCHANGED <<counter, list, kind, fence, work, user, pm>>

Isr == \/ IsrStart \/ IsrDisable \/ Load(None) \/ IsrLock \/ IsrTake \/ IsrXchg \/ IsrCancel
       \/ IsrSignal \/ IsrPut \/ IsrDone

-----------------------------------------------------------------------------
\* External: an engine, or the other end of a link, increments the syncpoint.
Increment ==
  /\ power /\ total < MaxIncr
  /\ total' = total + 1 /\ hw' = (hw + 1) % CounterMod
  /\ UNCHANGED <<min, intr, list, locked, isr, load, kind, fence, work, user, pm>>

\* host1x_syncpt_save(), of a syncpoint managed by its client
Saved == hw

\* host1x_runtime_suspend(): the interrupt is disabled, the counter saved and lost,
\* or, if the reset cannot be asserted, put back.
Suspend ==
  /\ power /\ suspends < MaxSuspends
  /\ suspends' = suspends + 1 /\ enabled' = FALSE /\ min' = Saved
  /\ (power' = FALSE /\ hw' = 0) \/ (power' = power /\ hw' = min')
  /\ UNCHANGED <<total, reg, list, locked, isr, load, kind, fence, work, user>>

\* The system's part, which no code of host1x sees to: it sleeps when its tasks are
\* frozen and no interrupt is left over and, unless HotSuspend, no fence listed.
SystemSleeps ==
  /\ At("off") /\ \A a \in Fence \cup {None} : Loading(a, "off")
  /\ HotSuspend \/ list = <<>>
  /\ Suspend

\* host1x_runtime_resume()
Resume ==
  /\ ~power
  /\ power' = TRUE /\ hw' = min /\ enabled' = FALSE
  /\ UNCHANGED <<total, min, reg, list, locked, isr, load, kind, fence, work, user, suspends>>

-----------------------------------------------------------------------------
(* What a client does with its fences is up to the client's module.        *)
(* Proceed is what drivers do of themselves; the rest is up to processes.  *)

Alone(f) == kind[f] # "client"
Proceed(f) == \/ Look(f) \/ Load(f) \/ Woken(f) \/ Leave(f) \/ Cancelled(f)
              \/ (kind[f] \in {"wait", "notifier"} /\ Arm(f))
User(f) == \/ BeginWait(f) \/ CreateTimed(f) \/ Proceed(f) \/ Interrupted(f) \/ IsSignaled(f)
           \/ Close(f) \/ (Alone(f) /\ (Arm(f) \/ Cancel(f)))

Next == \/ \E f \in Fence : User(f) \/ Timeout(f)
        \/ Isr \/ Increment \/ SystemSleeps \/ Resume

-----------------------------------------------------------------------------
Holding(f) == user[f] \in {"created", "armed", "cancel", "leave"}

\* Counters are counters, and the hardware's is what the increments make it, across
\* suspends; every party is at one of its steps; a fence is in the list at most once.
TypeOK ==
  /\ total \in 0..MaxIncr /\ {hw, min, reg} \subseteq 0..(CounterMod - 1)
  /\ power => hw = Counter(total)
  /\ {enabled, locked, power} \subseteq BOOLEAN
  /\ list \in Seq(Fence) /\ \A i, j \in 1..Len(list) : list[i] = list[j] => i = j
  /\ isr.step \in {"off", "disable", "load", "walk", "xchg", "cancel", "signal", "put"}
  /\ isr.fence \in Fence \cup {None}
  /\ \A a \in Fence \cup {None} : load[a].step \in {"off", "min", "hw", "swap", "done"}
  /\ kind \in [Fence -> Kinds]
  /\ \A f \in Fence : fence[f].refs \in Nat /\ fence[f].goal \in 0..(MaxIncr + Ahead)
  /\ work \in [Fence -> {"idle", "pending", "xchg", "remove", "error", "signal", "put"}]
  /\ user \in [Fence -> {"off", "look", "created", "armed", "cancel", "leave", "done"}]

\* Every reference of a fence belongs to somebody who will drop it: its user,
\* the list or the handler that took it from the list, the timeout work.  So
\* nobody touches a fence that has been freed, and none is lost.
Owners(f) ==
  (IF Holding(f) THEN 1 ELSE 0)
  + (IF Listed(f) \/ isr.fence = f THEN 1 ELSE 0)
  + (IF Timed(f) /\ work[f] # "idle" THEN 1 ELSE 0)
RefsExact ==
  \A f \in Fence : fence[f].refs = Owners(f) /\ (work[f] # "idle" => fence[f].refs > 0)

\* The list is in the order of what the fences wait for, whatever the wrap.
Sorted ==
  \A i, j \in 1..Len(list) : i < j => fence[list[i]].goal <= fence[list[j]].goal

\* Listed fences are waited for: the list is sorted, and the interrupt is enabled at
\* the threshold of its first, unless a handler is on its way to see to that
\* (host1x_intr_add_fence_locked(), host1x_intr_update_hw_state()).
Armed ==
  /\ Sorted
  /\ list # <<>> => ~At("off") \/ (enabled /\ reg = threshold(Head(list)))

\* No syncpt_load() moves the shadow back, however the loads of the handler and of
\* waiters overlap.
ShadowForward == [][Diff(min', min) < Half]_min

\* A fence that timed out says so when it is signalled, and one that did not
\* never does: do_fence_timeout() sets the error first.  dma_fence_is_signaled()
\* gets in between for those who ask.
ErrorInTime ==
  \A f \in Fence : kind[f] # "polled" /\ fence[f].signaled => fence[f].error = fence[f].late

\* The fences of a syncpoint keep what Timeline promises.
Promise == INSTANCE Timeline WITH
  value <- total,
  goal <- [f \in Fence |-> IF fence[f].refs = 0 THEN 0 ELSE fence[f].goal],
  status <- [f \in Fence |-> IF fence[f].refs = 0 THEN "free"
                             ELSE IF ~fence[f].signaled
                               THEN IF user[f] = "created" THEN "new" ELSE "pending"
                             ELSE IF fence[f].late THEN "late" ELSE "reached"]
TimelineSpec == Promise!TimelineSpec

\* In the end no fence whose threshold is reached is still in the list: no
\* wake-up is lost between the stale shadow, the insertion and the handler that
\* disables the interrupt.  And "long-lasting fences will get reaped eventually": of
\* those with a timeout only the reference of a user who never closes it stays.
FencesEnd ==
  <>[](\A f \in Fence : /\ Listed(f) => fence[f].goal > total
                        /\ Timed(f) => fence[f].refs = IF Holding(f) THEN 1 ELSE 0)
=============================================================================
