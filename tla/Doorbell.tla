------------------------------ MODULE Doorbell ------------------------------
(***************************************************************************)
(* A syncpoint that the other end of a PCIe link increments to be heard,   *)
(* as drivers/misc/nvscic2c-pcie uses it (endpoint.c, comm-channel.c): a   *)
(* fence for the next value, whose callback queues a work item that calls  *)
(* the notifier and arms a fence for the value after.  Tearing it down     *)
(* races with that work, with the callback and with the timeout work that  *)
(* cancelling a fence runs.  Composed with the fences of Fence.            *)
(***************************************************************************)
EXTENDS Fence

CONSTANT QuietRelease  \* is the syncpoint freed only while the work is not running?

ASSUME DoorbellAssumption == QuietRelease \in BOOLEAN

VARIABLES step,     \* where fence_do_work() is
          pending,  \* the work is queued
          cur,      \* syncpt->fence
          new,      \* the fence being allocated
          next,     \* syncpt->threshold
          heard,    \* calls of the notifier
          freeing,  \* where free_syncpoint() is
          mutex     \* syncpt->lock is held between steps

bell  == <<step, pending, cur, new, next, heard, freeing, mutex>>
dvars == <<vars, bell>>

Mine == {f \in Fence : kind[f] = "client"}

DoorbellInit ==
  /\ Init
  /\ step = IF Mine # {} THEN "alloc" ELSE "idle"
  /\ pending = FALSE /\ cur = None /\ new = None /\ next = 0 /\ heard = 0
  /\ freeing = "no" /\ mutex = FALSE

\* schedule_work(), which does nothing while cancel_work_sync() waits
Queued == freeing # "flush"

\* The work is not running.  "failed": it could not allocate its last fence.
Idle == step \in {"idle", "failed"}

-----------------------------------------------------------------------------
(* fence_do_work() and allocate_fence()                                    *)

WorkRuns ==
  /\ Idle /\ pending
  /\ pending' = FALSE /\ heard' = heard + 1 /\ step' = "lock"
  /\ UNCHANGED <<vars, cur, new, next, freeing, mutex>>

\* The return for a syncpoint being freed keeps syncpt->lock.
WorkLocked ==
  /\ step = "lock" /\ ~mutex
  /\ IF freeing # "no"
       THEN step' = "idle" /\ mutex' = TRUE /\ UNCHANGED <<vars, cur>>
       ELSE /\ step' = "alloc" /\ cur' = None /\ UNCHANGED mutex
            /\ IF cur # None THEN LetGo(cur) ELSE UNCHANGED vars
  /\ UNCHANGED <<pending, new, next, heard, freeing>>

AllocateFence ==
  /\ step = "alloc"
  /\ \E f \in Mine : Create(f, next + 1) /\ new' = f
  /\ next' = next + 1 /\ step' = "add"
  /\ UNCHANGED <<pending, cur, heard, freeing, mutex>>

\* host1x_fence_create() fails: fence_do_work() unlocks what it has not locked, and
\* nothing listens to the syncpoint any more.
AllocateFails ==
  /\ step = "alloc"
  /\ next' = next + 1 /\ step' = "failed" /\ mutex' = FALSE
  /\ UNCHANGED <<vars, pending, cur, new, heard, freeing>>

\* Mutant: nobody is told of a fence that is signalled already.
AddCallbackOnly ==
  /\ step = "add" /\ ~mutex
  /\ Arm(new)
  /\ cur' = IF fence'[new].signaled THEN cur ELSE new
  /\ step' = "idle" /\ new' = None
  /\ UNCHANGED <<pending, next, heard, freeing, mutex>>

\* A fence that is signalled already is put, and the work queued at once.
AddCallback ==
  /\ step = "add" /\ ~mutex
  /\ Arm(new)
  /\ cur' = IF fence'[new].signaled THEN cur ELSE new
  /\ pending' = (pending \/ (fence'[new].signaled /\ Queued))
  /\ step' = "idle" /\ new' = None
  /\ UNCHANGED <<next, heard, freeing, mutex>>

-----------------------------------------------------------------------------
(* free_syncpoint()                                                        *)

\* If the callback has not come yet, it is removed and the fence cancelled,
\* with syncpt->lock held.
FreeSyncpoint ==
  /\ freeing = "no" /\ Mine # {} /\ ~mutex
  /\ IF cur # None /\ ~fence[cur].signaled
       THEN Cancel(cur) /\ freeing' = "cancel" /\ mutex' = TRUE /\ UNCHANGED <<cur, pending>>
       ELSE /\ IF cur # None THEN LetGo(cur) ELSE UNCHANGED vars
            /\ freeing' = "flush" /\ cur' = None /\ pending' = FALSE /\ UNCHANGED mutex
  /\ UNCHANGED <<step, new, next, heard>>

\* The first fence is allocated by allocate_syncpoint(), before any call of the notifier.
SettingUp == heard = 0 /\ step \in {"alloc", "add"}

\* What decides when a doorbell is released: no code of it, but its owner, when the
\* setup has returned.
Release == ~SettingUp /\ (QuietRelease => Idle) /\ FreeSyncpoint

FenceCancelled ==
  /\ freeing = "cancel" /\ user[cur] = "done"
  /\ freeing' = "flush" /\ cur' = None /\ mutex' = FALSE /\ pending' = FALSE
  /\ UNCHANGED <<vars, step, new, next, heard>>

\* cancel_work_sync() returns; the memory of the callback and the work goes.
Gone ==
  /\ freeing = "flush" /\ Idle
  /\ freeing' = "gone"
  /\ UNCHANGED <<vars, step, pending, cur, new, next, heard, mutex>>

-----------------------------------------------------------------------------
\* host1x_cb_func(): dma_fence calls it when it signals the fence.
Rings == \E f \in Mine : fence[f].cb /\ ~fence'[f].cb
WithCallback ==
  /\ pending' = (pending \/ (Rings /\ Queued))
  /\ UNCHANGED <<step, cur, new, next, heard, freeing, mutex>>

Ringer == WorkRuns \/ WorkLocked \/ AllocateFence \/ AddCallback
Freer == FenceCancelled \/ Gone

DoorbellNext == (Next /\ WithCallback) \/ Ringer \/ AllocateFails \/ Release \/ Freer

\* Interrupts, work and tasks that can run do run, and timers go off.  Nobody
\* has to create, cancel, interrupt or ask, to wait for a sync file or to close it, or
\* to release the doorbell; and memory need not run out.
Fairness ==
  /\ \A f \in Fence : /\ WF_dvars(Proceed(f) /\ WithCallback)
                      /\ WF_dvars(Timeout(f) /\ WithCallback)
  /\ WF_dvars(Isr /\ WithCallback) /\ WF_dvars(Resume /\ WithCallback)
  /\ WF_dvars(Ringer) /\ WF_dvars(Freer)

DoorbellSpec == DoorbellInit /\ [][DoorbellNext]_dvars /\ Fairness

-----------------------------------------------------------------------------
\* Once the syncpoint is freed no fence of it will call back: "If deinit triggered, no
\* need to proceed".  It holds when the work is idle at the release, and not otherwise.
NoneLeft == freeing = "gone" => \A f \in Mine : ~fence[f].cb /\ ~Listed(f)

\* The notifier is called once for every increment, and not more often, unless the
\* syncpoint is freed or a fence cannot be allocated: allocate_fence() queues the work
\* itself for a value that was reached before the callback was in.
AllHeard == <>[](Mine = {} \/ freeing # "no" \/ step = "failed" \/ heard = total)
=============================================================================
