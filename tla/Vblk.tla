-------------------------------- MODULE Vblk --------------------------------
(***************************************************************************)
(* The virtual block driver, drivers/block/tegra_virt_storage: requests of *)
(* the block layer wait on req_list, a work item moves them into request   *)
(* slots and over an IVC channel to the storage server, matches responses  *)
(* to slots by id, and ends them; power management suspends the queue      *)
(* beside it.  The IVC channel is the queue IvcQueue promises, established *)
(* throughout; the work item, the interrupt handler, the submitters, the   *)
(* suspend path and the server interleave.  The device is one that maps    *)
(* requests itself (use_vm_address) and whose ioctls share a mempool.      *)
(***************************************************************************)
EXTENDS Integers, Sequences, FiniteSets, SequencesExt

CONSTANTS Reqs,          \* requests of the block layer
          Ioctls,        \* those that are REQ_OP_DRV_IN
          Bad,           \* those the driver may refuse (or has no memory for)
          None,
          Nframes,       \* frames of the IVC channel
          MaxRequests,   \* vblkdev->max_requests
          MaxIoctl,      \* vblkdev->max_ioctl_requests
          U32Mod,        \* 2^32, scaled
          ServerErrors,  \* may the server answer with a non-zero status?
          StoreBuffer,   \* may the store to inflight_reqs be seen late?
          MaxSuspends    \* bound on suspends in a behaviour

Slots == 0..(MaxRequests - 1)

ASSUME VblkAssumption ==
  /\ Ioctls \subseteq Reqs /\ Bad \subseteq Reqs /\ None \notin Reqs
  /\ Nframes \in Nat \ {0} /\ MaxRequests \in Nat \ {0} /\ MaxIoctl \in Nat \ {0}
  /\ MaxRequests <= Nframes   \* setup_device() panics otherwise
  /\ U32Mod \in Nat /\ U32Mod > MaxIoctl /\ U32Mod > 2
  /\ ServerErrors \in BOOLEAN /\ StoreBuffer \in BOOLEAN /\ MaxSuspends \in Nat

VARIABLES bio,             \* bio[r]: "new", "dispatched", "listed", "taken"
          ends,            \* ends[r]: how often blk_mq_end_request() was called
          ioctl_lock,      \* the ioctl whose caller holds vblkdev->ioctl_lock
          req_list, pending_reqs,
          slot_req,        \* reqs[s].req
          inflight_reqs, inflight_ioctl_reqs,
          inflight_seen,   \* inflight_reqs as other processors read it
          tx, serving, rx, \* slot ids on their way to the server, there, and back
          irq, irq_on, work,
          wpc,             \* the work item: next step, slot, request, outcome
          wslot, wreq, wret, req_completed,
          pm,              \* the suspend/resume path
          queue_state, req_queue_empty, hw_running, suspends

block  == <<bio, ends, ioctl_lock, req_list>>
count  == <<inflight_reqs, inflight_seen>>
slots  == <<pending_reqs, slot_req, count, inflight_ioctl_reqs>>
chan   == <<tx, serving, rx>>
wake   == <<irq, irq_on, work>>
worker == <<wpc, wslot, wreq, wret, req_completed>>
power  == <<pm, queue_state, req_queue_empty, hw_running, suspends>>
vars   == <<block, slots, chan, wake, worker, power>>

Init ==
  /\ bio = [r \in Reqs |-> "new"] /\ ends = [r \in Reqs |-> 0]
  /\ ioctl_lock = None /\ req_list = <<>>
  /\ pending_reqs = {} /\ slot_req = [s \in Slots |-> None]
  /\ inflight_reqs = 0 /\ inflight_seen = 0 /\ inflight_ioctl_reqs = 0
  /\ tx = <<>> /\ serving = {} /\ rx = <<>>
  /\ irq = FALSE /\ irq_on = TRUE /\ work = FALSE
  /\ wpc = "off" /\ wslot = 0 /\ wreq = None /\ wret = "none" /\ req_completed = FALSE
  /\ pm = "run" /\ queue_state = "active" /\ req_queue_empty = 0
  /\ hw_running = TRUE /\ suspends = 0

-----------------------------------------------------------------------------
(* Submitters.  vblk_ioctl() holds ioctl_lock until its request has ended. *)

\* Mutant: vblk_ioctl() without its mutex.
DispatchUnlocked(r) ==
  /\ bio[r] = "new" /\ hw_running
  /\ bio' = [bio EXCEPT ![r] = "dispatched"]
  /\ UNCHANGED <<ends, ioctl_lock, req_list, slots, chan, wake, worker, power>>

Dispatch(r) ==
  /\ bio[r] = "new" /\ hw_running
  /\ bio' = [bio EXCEPT ![r] = "dispatched"]
  /\ IF r \in Ioctls THEN ioctl_lock = None /\ ioctl_lock' = r ELSE UNCHANGED ioctl_lock
  /\ UNCHANGED <<ends, req_list, slots, chan, wake, worker, power>>

vblk_request(r) ==
  /\ bio[r] = "dispatched"
  /\ bio' = [bio EXCEPT ![r] = "listed"]
  /\ req_list' = Append(req_list, r)
  /\ work' = TRUE
  /\ UNCHANGED <<ends, ioctl_lock, slots, chan, irq, irq_on, worker, power>>

\* ... or there is no memory for the list entry, and the block layer ends it.
vblk_request_nomem(r) ==
  /\ bio[r] = "dispatched" /\ r \in Bad
  /\ bio' = [bio EXCEPT ![r] = "taken"]
  /\ ends' = [ends EXCEPT ![r] = @ + 1]
  /\ UNCHANGED <<ioctl_lock, req_list, slots, chan, wake, worker, power>>

\* blk_execute_rq() returns once the request has ended.
IoctlReturns ==
  /\ ioctl_lock # None /\ ends[ioctl_lock] > 0
  /\ ioctl_lock' = None
  /\ UNCHANGED <<bio, ends, req_list, slots, chan, wake, worker, power>>

ivc_irq_handler ==
  /\ irq /\ irq_on
  /\ irq' = FALSE /\ work' = TRUE
  /\ UNCHANGED <<block, slots, chan, irq_on, worker, power>>

-----------------------------------------------------------------------------
(* vblk_request_work(): complete and submit in turn until neither happens. *)

At(p) == wpc = p
Goto(p) == wpc' = p

\* blk_mq_end_request(), n times.
End(r, n) == ends' = [ends EXCEPT ![r] = @ + n]

\* Leave the loop body with req_submitted = FALSE.
NotSubmitted == Goto(IF req_completed THEN "complete" ELSE "off")

StartWork ==
  /\ At("off") /\ work
  /\ work' = FALSE
  /\ Goto("complete")
  /\ UNCHANGED <<block, slots, chan, irq, irq_on, wslot, wreq, wret, req_completed, power>>

NothingToComplete ==
  /\ At("complete") /\ rx = <<>>
  /\ req_completed' = FALSE
  /\ Goto("submit")
  /\ UNCHANGED <<block, slots, chan, wake, wslot, wreq, wret, power>>

\* Mutant: a response that is not an ioctl's also runs into the error branch.
AnsweredFallThrough(r, ok) == IF ok /\ r \in Ioctls THEN 1 ELSE 2

\* How often a response ends its request, and counts an ioctl back: an error
\* status does both in the branch for it and again behind it.
Answered(r, ok) == IF ok THEN 1 ELSE 2

CountedBack(r, n) == IF r \in Ioctls THEN (inflight_ioctl_reqs - n) % U32Mod
                     ELSE inflight_ioctl_reqs

complete_bio_req ==
  /\ At("complete") /\ rx # <<>>
  /\ LET s == Head(rx).slot
         r == slot_req[s]
         n == Answered(r, Head(rx).ok)
     IN  /\ rx' = Tail(rx)
         /\ End(r, n)
         /\ inflight_ioctl_reqs' = CountedBack(r, n)
         /\ wslot' = s
  /\ req_completed' = TRUE
  /\ wret' = "completed"
  /\ Goto("put")
  /\ UNCHANGED <<bio, ioctl_lock, req_list, pending_reqs, slot_req, count,
                 tx, serving, wake, wreq, power>>

\* Store to inflight_reqs, with no barrier behind it.
StoreInflight(n) ==
  /\ inflight_reqs' = n
  /\ inflight_seen' = IF StoreBuffer THEN inflight_seen ELSE n

Drain ==
  /\ inflight_seen # inflight_reqs
  /\ inflight_seen' = inflight_reqs
  /\ UNCHANGED <<block, pending_reqs, slot_req, inflight_reqs, inflight_ioctl_reqs, chan,
                 wake, worker, power>>

FreeTheSlot ==
  /\ pending_reqs' = pending_reqs \ {wslot}
  /\ slot_req' = [slot_req EXCEPT ![wslot] = None]

\* Mutant: frees the slot and leaves inflight_reqs.
vblk_put_req_uncounted ==
  /\ At("put")
  /\ FreeTheSlot
  /\ Goto("put_check")
  /\ UNCHANGED <<block, count, inflight_ioctl_reqs, chan, wake, wslot, wreq, wret,
                 req_completed, power>>

\* vblk_put_req(): free the slot, then look whether a suspend waits for it.
vblk_put_req ==
  /\ At("put")
  /\ FreeTheSlot
  /\ StoreInflight(inflight_reqs - 1)
  /\ Goto("put_check")
  /\ UNCHANGED <<block, inflight_ioctl_reqs, chan, wake, wslot, wreq, wret, req_completed, power>>

\* What follows vblk_put_req() where it was called; a refused request is ended.
AfterPut ==
  /\ CASE wret = "completed" -> Goto("submit") /\ UNCHANGED ends
       [] wret = "none" -> NotSubmitted /\ UNCHANGED ends
       [] wret = "refused" -> Goto("complete") /\ End(wreq, 1)
  /\ UNCHANGED <<bio, ioctl_lock, req_list, slots, chan, wake, wslot, wreq, wret,
                 req_completed, pm, queue_state, hw_running, suspends>>

\* Mutant: never wakes the suspend path.
SuspendWaitsNever == FALSE

SuspendWaits == inflight_reqs = 0 /\ queue_state = "suspended"

PutCheck ==
  /\ At("put_check")
  /\ IF SuspendWaits
       THEN Goto("put_signal") /\ UNCHANGED <<block, slots, chan, wake, wslot, wreq, wret,
                                              req_completed, power>>
       ELSE AfterPut /\ UNCHANGED req_queue_empty

PutSignal ==
  /\ At("put_signal")
  /\ req_queue_empty' = req_queue_empty + 1
  /\ AfterPut

\* Mutant: vblk_get_req() forgets to look at queue_state.
CanSubmitAnyState == Len(tx) < Nframes

\* tegra_hv_ivc_can_write(), and the queue_state test of vblk_get_req().
CanSubmit == Len(tx) < Nframes /\ queue_state = "active"

BeginSubmit ==
  /\ At("submit")
  /\ IF CanSubmit THEN Goto("get") ELSE NotSubmitted
  /\ UNCHANGED <<block, slots, chan, wake, wslot, wreq, wret, req_completed, power>>

\* Mutant: takes the lowest slot whether or not it is free.
FreeSlotAny == {s \in Slots : s = 0}

\* find_first_zero_bit()
FreeSlot == {s \in Slots \ pending_reqs : \A t \in Slots \ pending_reqs : s <= t}

vblk_get_req ==
  /\ At("get")
  /\ IF FreeSlot = {}
       THEN NotSubmitted /\ UNCHANGED <<pending_reqs, count, wslot>>
       ELSE /\ wslot' \in FreeSlot
            /\ pending_reqs' = pending_reqs \cup {wslot'}
            /\ StoreInflight(inflight_reqs + 1)
            /\ Goto("pick")
  /\ UNCHANGED <<block, slot_req, inflight_ioctl_reqs, chan, wake, wreq, wret,
                 req_completed, power>>

\* The head of the list may not be an ioctl beyond the limit.
Pickable == /\ req_list # <<>>
            /\ Head(req_list) \in Ioctls => inflight_ioctl_reqs < MaxIoctl

NothingToPick ==
  /\ At("pick") /\ ~Pickable
  /\ wret' = "none"
  /\ Goto("put")
  /\ UNCHANGED <<block, slots, chan, wake, wslot, wreq, req_completed, power>>

Pick(r) == /\ At("pick") /\ Pickable
           /\ r = Head(req_list)
           /\ req_list' = Tail(req_list)
           /\ bio' = [bio EXCEPT ![r] = "taken"]

RefuseReq(r) ==
  /\ Pick(r) /\ r \in Bad
  /\ wreq' = r /\ wret' = "refused"
  /\ Goto("put")
  /\ UNCHANGED <<ends, ioctl_lock, slots, chan, wake, wslot, req_completed, power>>

submit_bio_req(r) ==
  /\ Pick(r)
  /\ slot_req' = [slot_req EXCEPT ![wslot] = r]
  /\ inflight_ioctl_reqs' = IF r \in Ioctls THEN (inflight_ioctl_reqs + 1) % U32Mod
                            ELSE inflight_ioctl_reqs
  /\ tx' = Append(tx, wslot)
  /\ Goto("complete")
  /\ UNCHANGED <<ends, ioctl_lock, pending_reqs, count, serving, rx, wake,
                 wslot, wreq, wret, req_completed, power>>

-----------------------------------------------------------------------------
(* The storage server, as the driver uses it: it takes requests in order,  *)
(* answers each once, in any order, and rings as tegra-ivc.c rings.        *)

ServerTake ==
  /\ tx # <<>>
  /\ serving' = serving \cup {Head(tx)}
  /\ tx' = Tail(tx)
  /\ irq' = (irq \/ Len(tx) = Nframes)
  /\ UNCHANGED <<block, slots, rx, irq_on, work, worker, power>>

ServerAnswer(s, ok) ==
  /\ s \in serving /\ Len(rx) < Nframes
  /\ ok \/ ServerErrors
  /\ serving' = serving \ {s}
  /\ rx' = Append(rx, [slot |-> s, ok |-> ok])
  /\ irq' = (irq \/ rx = <<>>)
  /\ UNCHANGED <<block, slots, tx, irq_on, work, worker, power>>

-----------------------------------------------------------------------------
(* tegra_hv_vblk_suspend() and tegra_hv_vblk_resume().                     *)

PM(from, to) == pm = from /\ pm' = to

StopQueues ==
  /\ suspends < MaxSuspends
  /\ PM("run", "stopped")
  /\ hw_running' = FALSE /\ suspends' = suspends + 1
  /\ UNCHANGED <<block, slots, chan, wake, worker, queue_state, req_queue_empty>>

MarkSuspended ==
  /\ PM("stopped", "marked")
  /\ queue_state' = "suspended"
  /\ UNCHANGED <<block, slots, chan, wake, worker, req_queue_empty, hw_running, suspends>>

CheckInflight ==
  /\ PM("marked", "wait")
  /\ req_queue_empty' = IF inflight_seen = 0 THEN req_queue_empty + 1 ELSE req_queue_empty
  /\ UNCHANGED <<block, slots, chan, wake, worker, queue_state, hw_running, suspends>>

\* wait_for_completion(), then disable_irq().
QueueEmpty ==
  /\ PM("wait", "flush")
  /\ req_queue_empty > 0
  /\ req_queue_empty' = req_queue_empty - 1
  /\ irq_on' = FALSE
  /\ UNCHANGED <<block, slots, chan, irq, work, worker, queue_state, hw_running, suspends>>

flush_workqueue ==
  /\ PM("flush", "suspended")
  /\ ~work /\ At("off")
  /\ UNCHANGED <<block, slots, chan, wake, worker, queue_state, req_queue_empty, hw_running,
                 suspends>>

\* Mutant: resume leaves the work to the next request or interrupt.
ResumeQuietly ==
  /\ PM("resume", "run")
  /\ irq_on' = TRUE /\ hw_running' = TRUE
  /\ UNCHANGED <<block, slots, chan, irq, work, worker, queue_state, req_queue_empty, suspends>>

MarkActive ==
  /\ PM("suspended", "resume")
  /\ queue_state' = "active" /\ req_queue_empty' = 0
  /\ UNCHANGED <<block, slots, chan, wake, worker, hw_running, suspends>>

\* enable_irq(), blk_mq_start_hw_queues() and queue_work_on().
Resume ==
  /\ PM("resume", "run")
  /\ irq_on' = TRUE /\ hw_running' = TRUE /\ work' = TRUE
  /\ UNCHANGED <<block, slots, chan, irq, worker, queue_state, req_queue_empty, suspends>>

-----------------------------------------------------------------------------
Work == \/ StartWork \/ NothingToComplete \/ complete_bio_req \/ vblk_put_req \/ PutCheck
        \/ PutSignal
        \/ BeginSubmit \/ vblk_get_req \/ NothingToPick
        \/ \E r \in Reqs : RefuseReq(r) \/ submit_bio_req(r)

Server == ServerTake \/ \E s \in Slots : \E ok \in BOOLEAN : ServerAnswer(s, ok)

Power == \/ MarkSuspended \/ CheckInflight \/ QueueEmpty \/ flush_workqueue
         \/ MarkActive \/ Resume

Next == \/ \E r \in Reqs : Dispatch(r) \/ vblk_request(r) \/ vblk_request_nomem(r)
        \/ IoctlReturns \/ ivc_irq_handler \/ Work \/ Drain \/ Server \/ StopQueues \/ Power

\* The scheduler runs the work item and the callers, interrupts are delivered,
\* and the server "cooperates"; nobody has to suspend, but a suspend goes on.
Fairness ==
  /\ WF_vars(Work) /\ WF_vars(Drain) /\ WF_vars(ivc_irq_handler) /\ WF_vars(IoctlReturns)
  /\ WF_vars(ServerTake)
  /\ \A s \in Slots : WF_vars(\E ok \in BOOLEAN : ServerAnswer(s, ok))
  /\ WF_vars(Power)
  /\ \A r \in Reqs : WF_vars(vblk_request(r))

Spec == Init /\ [][Next]_vars /\ Fairness

-----------------------------------------------------------------------------
(* Properties.                                                             *)

\* Every variable keeps its type; counts stay in range.
TypeOK ==
  /\ bio \in [Reqs -> {"new", "dispatched", "listed", "taken"}]
  /\ ends \in [Reqs -> Nat]
  /\ ioctl_lock \in Reqs \cup {None}
  /\ req_list \in Seq(Reqs)
  /\ pending_reqs \subseteq Slots
  /\ slot_req \in [Slots -> Reqs \cup {None}]
  /\ inflight_reqs \in 0..MaxRequests /\ inflight_seen \in 0..MaxRequests
  /\ inflight_ioctl_reqs \in 0..(U32Mod - 1)
  /\ tx \in Seq(Slots) /\ Len(tx) <= Nframes
  /\ serving \subseteq Slots
  /\ rx \in Seq([slot : Slots, ok : BOOLEAN]) /\ Len(rx) <= Nframes
  /\ {irq, irq_on, work, req_completed, hw_running} \subseteq BOOLEAN
  /\ wpc \in {"off", "complete", "put", "put_check", "put_signal", "submit", "get", "pick"}
  /\ wslot \in Slots /\ wreq \in Reqs \cup {None}
  /\ wret \in {"none", "completed", "refused"}
  /\ pm \in {"run", "stopped", "marked", "wait", "flush", "suspended", "resume"}
  /\ queue_state \in {"active", "suspended"}
  /\ req_queue_empty \in Nat /\ suspends \in 0..MaxSuspends

\* Slot ids with the server, on the way there or back.
OnTheWire == Range(tx) \cup serving \cup {m.slot : m \in Range(rx)}

\* A response finds its request: each slot id on the wire is on it once, is
\* pending and holds a request that has not ended (vblk_get_req_by_sr_num).
AnswersMatch ==
  /\ \A s \in OnTheWire : s \in pending_reqs /\ slot_req[s] # None /\ ends[slot_req[s]] = 0
  /\ Cardinality(OnTheWire) = Len(tx) + Cardinality(serving) + Len(rx)

\* "Complete a bio request after server is done processing the request": no
\* request is handed back to the block layer twice.
EndedOnce == \A r \in Reqs : ends[r] <= 1

\* inflight_ioctl_reqs counts the ioctls in slots, which is what the limit in
\* submit_bio_req() relies on.
IoctlCountExact ==
  wpc \notin {"put"} =>
    inflight_ioctl_reqs = Cardinality({s \in Slots : slot_req[s] \in Ioctls})

\* Slots share mempool buffers modulo max_ioctl_requests (setup_device), so two
\* ioctls in flight must never have congruent slots, and their count is exact.
IoctlBuffersDistinct ==
  /\ IoctlCountExact
  /\ \A s, t \in Slots : (s # t /\ slot_req[s] \in Ioctls /\ slot_req[t] \in Ioctls)
                         => s % MaxIoctl # t % MaxIoctl

\* "Mark the queue as empty if inflight requests are 0": when suspend returns,
\* nothing is left with the server.
SuspendedIsQuiet == pm = "suspended" => OnTheWire = {}

\* While suspended the driver sends nothing, even if a late vblk_request()
\* queues the work again.
SuspendedSubmitsNothing == [][pm = "suspended" => Len(tx') <= Len(tx)]_vars

\* Every request handed to the driver ends, through suspends, full rings and
\* exhausted slots.
RequestsEnd == \A r \in Reqs : bio[r] # "new" ~> ends[r] > 0

\* A suspend never waits for ever for req_queue_empty.
SuspendReturns == pm = "stopped" ~> pm = "suspended"

=============================================================================
