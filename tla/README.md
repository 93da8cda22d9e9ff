# Verification of the Tegra out-of-tree drivers

TLA+ models, TLC runs and TLAPS proofs for the concurrent core of NVIDIA's
out-of-tree Tegra kernel modules (`src/`).

## 1. The system

The repository is a collection of Linux kernel modules for Tegra SoCs.  Measured
in lines most of it is vendored Realtek wireless code, sensor tables, codec and
pin tables and register programming.  The logic of its own is in the software
that talks to *other processors and other virtual machines*: shared-memory
channels, request queues and state machines, driven by interrupts, workqueues,
system calls and power management at the same time.

| component | state | operations | how it interacts |
|---|---|---|---|
| IVC channel, `platform/tegra/tegra-ivc.c`, `firmware/tegra/ivc_ext.c` | per direction in shared memory: `w_count`, `r_count`, `state`, frames; locally `w_pos`, `r_pos` | reset, notified, read, write, peek/poke, sync after a reboot | two ends share memory and ring doorbells |
| virtual block driver, `block/tegra_virt_storage` | `req_list`, slots (`pending_reqs`, `reqs`), two in-flight counts, `queue_state` | `vblk_request`, the work item, `vblk_ioctl`, interrupt, suspend, resume | IVC channel to a storage server; block layer above; PM beside it |
| DCE driver, `platform/tegra/dce` | FSM state, boot flags, wait flags, mailbox status, channel flags | post event, boot flow, admin RPC, mailbox interrupt, SC7 entry and exit | firmware behind mailboxes and an IVC channel; debugfs, PM and workers as callers |
| host1x syncpoints and fences, `gpu/host1x/{fence,intr,syncpt}.c` with `hw/`, used by `host1x-fence`, `host1x-nvhost` | counter, its shadow `min_val`, threshold register and enable bit, sorted list of fences, their references and timeout work | load, wait, create, enable signalling, cancel, interrupt, timeout, suspend, resume | engines increment; interrupt handler, timers and users share each fence |
| host1x command DMA, `gpu/host1x/{cdma,job,channel}.c` with `hw/` | ring of slots (`pos`, `fence`, DMAGET, DMAPUT), `sync_queue`, one timer, one event and completion | submit, update, timeout, stop | hardware fetches slots; fences tell of completion; `cdma->lock` is dropped while a submitter waits |
| nvscic2c-pcie doorbells, `misc/nvscic2c-pcie/{endpoint,comm-channel}.c` | the current fence, its threshold, the work item | arm, callback, work, free | peer over PCIe increments a syncpoint; uses fences |
| hypervisor IVC service, `virt/tegra/tegra_hv.c` | reservations, interrupts | reserve, reset, read, write | maps channels, calls the IVC code |
| others (`PROJECT.json`, status `not_modelled`) | | | |

Hard behaviours: counters that wrap, state of the peer that is read once and
acted on later, crossing resets, reboots in mid-call, doorbells that are rung
only on transitions (IVC); locks that suspend takes and the data path does not,
out-of-order answers (block driver); callbacks that run outside the lock that
guards the state, answers that come after their caller gave up, power lost in
the middle of a boot (DCE); references that an interrupt, a timer and a user drop
at once, a counter read before the lock (fences); rings that fill in the middle
of a job, timers that outlive their job, restart after a hang (command DMA);
re-arming against increments that have already come (doorbells).  They are listed at their lines in `PROJECT.json`,
`hazards`.

`tegra-ivc.c` itself is linked into the AON driver.  The hypervisor service and
the DCE driver use the kernel's own IVC code, which has the same rings and the
same handshake and is not in this repository, together with `ivc_ext.c`.

## 2. Modules

| module | models |
|---|---|
| `IvcQueue` | abstract: two bounded FIFO queues, emptied together by a reset |
| `IvcChannel` | both ends of an IVC channel, every call in steps; implements `IvcQueue` |
| `MCIvcChannel` | `IvcChannel` for TLC, with its symmetry |
| `IvcClients` | composes `IvcChannel` with a client at each end that sleeps until its doorbell rings |
| `SequenceFacts` | lemmas about sequences the proofs share |
| `IvcChannelProofs` | theorems about `IvcChannel` |
| `VblkProofs` | theorems about `Vblk` |
| `FenceProofs` | theorems about `Fence` and `Doorbell` |
| `DceProofs` | theorems about `Dce`, its boots and the boot mailbox |
| `CdmaProofs` | theorems about `Cdma`: slots and commands |
| `CdmaOrder` | theorems about `Cdma`: the order of jobs, and whose timer goes off |
| `CdmaReuse` | theorems about `Cdma`: rings whose slots are used again |
| `Vblk` | the virtual block driver, its submitters, the server and power management |
| `Dce` | the DCE state machine, its callers, the interrupt thread and the firmware |
| `Timeline` | abstract: a value that counts up, fences signalled once and freed after |
| `Fence` | syncpoint fences of host1x; implements `Timeline` |
| `Doorbell` | composes `Fence` with the doorbell of nvscic2c-pcie |
| `MCFence` | `Doorbell` for TLC: which fences are used for what |
| `Cdma` | the command DMA of a host1x channel, with the fences `Timeline` promises |
| `MCCdma` | `Cdma` for TLC: jobs, rings and troubles |

Operators named `...Any`, `...Late`, `...Not` and so on, each marked *Mutant*,
are deliberately wrong variants of the definition that follows them; no
specification uses them.  They show that the properties can fail.

### IvcChannel

`w_count[e]`, `state[e]` and `frame[e]` are the transmit header and slots of end
`e`, `r_count[e]` the counter it writes in its receive header.  A step is what
the code does between two accesses to memory that the peer writes; `pc[e]` names
the next step of the call `e` is in.

* `tegra_ivc_channel_reset`: one store of SYNC and a doorbell, at any time between
  two calls.  When a client calls it is not the code's choice: `ClientResets` lets
  the members of `Resetters` do so and, unless `HastyReset`, while no end is in ACK.
* `tegra_ivc_channel_notified`: `ReadPeerState`, then by what was read
  `ClearOnSync` and `MoveToAck`; or `ClearOnAck` and `MoveToEst`; or
  `MoveToEst`; or `NoFurtherAction`.  The peer moves between these steps.
* `tegra_ivc_write`: `BeginWrite` (checks), `Fill`, `ivc_advance_tx`,
  `TxNotify`.  `tegra_ivc_read`: `BeginRead`, `Copy`, `ivc_advance_rx`,
  `RxNotify`.  `Abandon` is a failed user copy, a peek or a poke.
* `Reboot`: `tegra_hv_add_ivc()` recovers positions from the counters.

Barriers and cache maintenance are taken to give sequential consistency between
steps.  One end runs one call at a time: its clients hold a lock.

### Vblk

`bio[r]` follows a request through `vblk_request`; `ends[r]` counts
`blk_mq_end_request`.  The work item is a process with its own program counter,
because what it reads (`queue_state`, the list, `inflight_reqs`) changes beside
it: `StartWork`, `complete_bio_req` or `NothingToComplete`, `BeginSubmit`,
`vblk_get_req`, `submit_bio_req` or `RefuseReq` or `NothingToPick`, and
`vblk_put_req` with its look at `queue_state` (`PutCheck`, `PutSignal`) as
separate steps.  Suspend is `StopQueues`, `MarkSuspended`, `CheckInflight`,
`QueueEmpty`, `flush_workqueue`; resume `MarkActive`, `Resume`.  The channel is
the one `IvcQueue` promises, established.  The server (external) answers each
request once, in any order.  A member of `Bad` may be refused, in
`vblk_request()` for lack of memory or in `submit_bio_req()`.  `StoreBuffer`
lets the store to `inflight_reqs` be seen late, as arm64 permits where the code
has neither lock nor barrier (`Drain`).

### Dce

Each thread (boot work, resume work, suspend path, admin callers) has a list of
calls `todo[t]` and a step `pc[t]` in the first one.  `Post` is the locked part
of `dce_fsm_post_event()`, `Restore` its error path; the steps between are the
event's callback, unlocked.  `WaitReturns`, `Recheck` and `Consume` are the three
accesses of `dce_wait_interruptible()` to the flag that `IsrWake` sets.
`Accepted` and `StateFor` are the two tables of the state machine.
`SleepAndWake` is the power loss between suspend and resume.  The firmware
(`Fw...`) is external and modelled from how the driver uses it.  `env`, fixed
throughout a behaviour, names its troubles: callers that are interrupted
(`signals`) or overlap with a suspend and each other (`overlap`), a
suspend during boot (`early_suspend`), a firmware that refuses and aborts
(`faults`), no memory for ENTER_SC7 (`nomem`).  A property names the ones it
does not hold under.  `CallAdmin` begins with the check that each of the admin calls
begins with, `dce_is_bootstrap_done()`, which reads DCE_FW_BOOT_DONE (not
DCE_FW_BOOTSTRAP_DONE): a client is turned away until the (next) boot is over.

### Fence and Doorbell

`fence[f]` is a `struct host1x_syncpt_fence`, `work[f]` its timeout work,
`user[f]` what its user is at, `kind[f]` who that is: a wait, an nvhost notifier,
a sync file (polled or not), a doorbell.  `syncpt_load()` is three steps
(`LoadMin`, `LoadHw`, `LoadSwap`), the interrupt handler ten (`IsrStart` to
`IsrDone`), the timeout work six; `EnableSignaling` is one, as it runs under
`sp->fences.lock`.  `dma_fence` is external: references (`Put`) and signalling
under the lock (`Signal`).  Goals are integers, thresholds their numbers modulo
`CounterMod`, so that `Timeline` can say when a fence is reached and the code's
comparisons can be wrong about it.  `Suspend` is `host1x_runtime_suspend()` with its
error path; `SystemSleeps` says when the PM core calls it: with user tasks frozen, no
handler running and, unless `HotSuspend`, no fence listed.  A sync file is created and
only then, perhaps, asked about, waited for or closed, in any order (`IsSignaled`,
`Arm`, `Close`), which `Timeline` has as a fence that is `"new"`.

`Doorbell` adds `fence_do_work()` (`WorkRuns`, `WorkLocked`, `AllocateFence` or
`AllocateFails`, `AddCallback`) and `free_syncpoint()` (`FreeSyncpoint`,
`FenceCancelled`, `Gone`); each step of `Fence` may ring (`WithCallback`).
`FreeSyncpoint` itself waits for nothing but the mutex; `Release` says when its owner
calls it: after the setup and, with `QuietRelease`, only while the work is not running.

### Cdma

`pb`, `mem` and `dma` are the ring, what is in it, and the hardware's registers.
A job is three pushes, `work` (wide, two slots), the increment after it and the
release of the MLOCK; `host1x_cdma_push` and `host1x_cdma_push_wide` are one step
each, or one up to the wait for slots and one after it (`Wake`, `Relock`).  While
the lock is dropped `Update` and `Handler` run; they are single steps, as they
hold the lock, and contain `update_cdma_locked()`, the search for the hung job,
both recoveries and the restart.  A scenario fixes syncpoints of the jobs, which
jobs hang, size and position of the ring, the counter and the troubles of the
behaviour (see `Troubles`).  Hardware and fences are external: a fence is
signalled by `Interrupt` or `FenceTimeout`, as `Timeline` allows.

The actions have the guards of the code and no other.  What is assumed of *when*
they happen is apart from them, in the section on the schedule, and is what `Next`
uses: `EngineRuns` (a submission is over before the engine is done with its job, unless
the scenario is `early`), `UpdateRuns` and `HandlerRuns` (the hardware has fetched what
follows the work of a job before the CPU hears of its end, unless `late`),
`TimerGoesOff` and `FenceGivesUp` (an engine that can work does so within 10 seconds,
unless `slow`, and 30 seconds are longer than that, unless `long`), `BeginRuns` and
`StopRuns` (nobody submits to a channel while it is stopped, unless `busy_stop`).  Nothing
in the code enforces these; a property whose premise does not exclude a trouble holds
without the assumption.

## 3. Runs

| run | shows |
|---|---|
| `ivc_channel` | both ends in every interleaving, resets included: no slot written while read, frames copied out in order, counters cleared only when not in use, and refinement of `IvcQueue` |
| `ivc_reboot` | ends that reboot at any step, beside resets at any time, recover positions that agree |
| `ivc_clients` | doorbells alone finish every handshake, deliver every frame, send every request |
| `ivc_wrap` (violation) | a healthy channel reaches the `BUG()` of `safe_subtract_u32()` when a counter wraps |
| `vblk_safety` | answers find their request, requests end once, ioctls are counted exactly and never share a buffer |
| `vblk_suspend` | across suspends every request ends, suspend returns, nothing is sent while suspended |
| `vblk_server_error` (violation) | a failed request is ended twice |
| `vblk_suspend_race` (violation) | suspend returns with a request at the server |
| `dce` | own answers, no stale wake-ups, the machine never waits on behalf of nobody, BOOT_DONE is true, no admin message goes to a firmware without its boot commands, suspend returns and the engine boots again; each under the troubles its statement names, none of them with a suspend before the boot is over |
| `fence` | references exact, list sorted, no listed fence without an interrupt to come, the shadow never goes back, errors set before the signal, the counter survives suspend; refinement of `Timeline`; a reached fence is signalled and a timed one freed; the doorbell hears each increment once and, while memory lasts, goes on doing so.  The system sleeps only with no fence listed and the doorbell is released only while its work is idle |
| `doorbell_release` (violation) | a doorbell released while its work runs leaves a fence behind whose callback is in freed memory |
| `cdma` | slots accounted for, wide commands whole, the hardware never comes to the work of a job that has left the queue, no half jobs, no job behind a failed one, memory pinned while used, a job fails by its own timer; all jobs end, stop returns |

### Bounds

* IVC: two frames (one for `ivc_wrap`), counters modulo 6 (4): more than twice
  the ring, as `ivc_channel_empty()` needs, and small enough that counters wrap
  several times; counter and ring size of `ivc_reboot` are chosen so that one
  divides the other, as 2^32 and any power of two do.  Two payloads tell frames apart.
  Behaviours are not bounded in length; `ivc_clients` bounds resets (two) since
  a channel that is reset for ever need not deliver.
* Block driver: `vblk_safety` has four requests, two of them ioctls, for three
  slots and two ioctl buffers: slots run out, two slots share a buffer.
  `vblk_suspend` has three requests for two slots and one suspend at any step.
* DCE: two boot commands and one or two RPCs stand for the longer sequences (all
  have the same form); two clients, two suspends.
* Fences: three uses of one syncpoint: a wait beside a sync file, one polled
  file, a doorbell's two fences beside a notifier.  Counters modulo 10 from 8:
  two increments pass the wrap, thresholds lie on both sides of it.  One suspend.
* Command DMA: three jobs, so that one can hang, one wait behind it and one be in
  submission; rings of 16 slots (room for all), 8 and 7 (a second job waits, in
  the middle or at its padding); positions chosen so that padding and the end of
  the ring fall in each kind of command; counter modulo 16, starting at 0 or 15.

Deadlock is not checked where requests, resets or suspends are bounded: the
system may have nothing left to do.

### Fairness

Weak fairness of queued work, of interrupts, of runnable kernel threads (Linux
schedules them) and of the external server and firmware, without which no driver
can promise an answer.  A system that suspended resumes.  Nothing is assumed
about who calls, resets, suspends, signals or fails, and a wait that ends by a
signal is not fair.  Nobody has to wait for a sync file, ask about it or close it, nor
to release a doorbell, and a failed allocation is possible but never due.  In `Cdma` the actions that take `cdma->lock` are strongly fair
(a mutex is handed on to those who queue for it); the engine and the command
processor are weakly fair except in a job that hangs; a timer goes off only when
the engine is at rest, unless the scenario is `slow`, since timeouts are seconds
and jobs milliseconds.  The schedule of `Cdma` restricts `Next` and `Fairness` alike.

### What the results depend on

The passing runs state assumptions by constants, or by premises of a property on
the troubles of a behaviour (which other properties of the same run are checked
under).  Each is needed: with the constant changed, or without the premise, TLC
prints the behaviour.

| change | broken | what happens in the code |
|---|---|---|
| `IvcChannel.cfg`, `HastyReset = TRUE` | `CountersNotInUse`, `NoFrameRace`, `CopiedInOrder`, `QueueSpec` | an end resets again while its peer still acknowledges; the comment at `tegra-ivc.c:783` takes that to be impossible |
| `IvcClients.cfg`, `HastyReset = TRUE` | `FramesTaken`, `RequestsSent` | the same; the two ends are established with counters that do not agree.  `HandshakeCompletes` still holds |
| `IvcReboot.cfg`, `Nframes = 3`, `CounterMod = 8` | `PositionsAgree` | positions are recovered modulo the ring size from counters that have wrapped |
| `VblkSuspend.cfg`, `StoreBuffer = TRUE` | `SuspendReturns` | `vblk_put_req()` and suspend miss each other's store: nobody completes `req_queue_empty` |
| `Dce`, `signals` or `overlap` | `OwnResponse` | an interrupted RPC leaves its answer to the next one; a reply sets IDLE before it wakes, and a second caller takes wake-up and answer |
| `Dce`, `early_suspend` | `BootCompletes`, `OwnStatus`, `BootDoneIsTrue`, `NoOrphanState` | a suspend finds the boot unfinished, "nothing to do"; two boot flows run side by side; BOOT_DONE is set after suspend looked and outlives the power |
| `Dce`, `overlap` | `NoOrphanState` | a failed callback restores the state its post found, which another thread has left since |
| `Dce`, `signals` | `NoOrphanState` | the late wake-up of an interrupted call ends the wait of the next one, whose own answer finds nobody |
| `Dce`, `faults` with `nomem` | `OwnResponse` | an abort takes the machine out of the ENTER_SC7 wait it was stranded in, and the next suspend's RPC starts while the resume work boots |
| `Dce`, `nomem` | `NoOrphanState`, `BootDoneIsTrue` | without memory for ENTER_SC7 the post succeeds and the machine waits for an answer to nothing |
| `Fence.cfg`, `HotSuspend = TRUE` | `Armed` | resume does not arm the interrupt for fences still listed |
| `Fence.cfg`, `MaxIncr + Ahead` of half the range | `TimelineSpec` | a fence is compared with a shadow that lags by half the range |
| `Fence.cfg`, `QuietRelease = FALSE` | `NoneLeft` | the doorbell is freed between the work's unlock and its new fence (run `doorbell_release`) |
| `Fence`, polled fences | `ErrorInTime` | the timeout sets its error outside the lock, after somebody's question signalled the fence |
| `Cdma`, small ring and a job that hangs | `WholeJobs`, `PinnedWhileUsed`, `NothingAfterFailure` | the restart goes to `last_pos`, in the middle of a job whose submitter waits for slots; the syncpoint is locked after that submitter looked |
| `Cdma`, small ring: five jobs and `late`, or six and a job that hangs | `FetchWhole` | slots are freed before they are fetched (a cancelled job's while CDMA restarts there) and written over; half of a new command is fetched as a command |
| `Cdma`, `slow` | `OwnTTL` | the handler of a finished job's timer waits for the lock and fails the next job |
| `Cdma`: four jobs and `long`, or five, small ring, `busy_stop` and a job that hangs | `OwnTTL` | as with `slow`: the handler comes after the timer was started for the next job |
| `Cdma`, `legacy`: five jobs, two that hang | `OwnTTL` | a recovered job keeps the timer but stops it, so fences behind it time out and nobody is told when those jobs end; the handler of one of them fails a later job |
| `Cdma`, `late`: seven jobs, four syncpoints, a stop | `OwnTTL` | a job leaves the queue before its last increment, a stop then skips that increment, and the syncpoint stays one short of what its later jobs wait for; their fences time out with the same effect |
| `Cdma`, `long` | `JobsEnd` | a fence times out before its job's turn; the handler later finds the job complete and updates nothing |
| `Cdma`, `early` | `JobsEnd` | the fence is reached before its callback is added: `job_free()` waits for ever, locked |
| `Cdma`, `legacy` | `JobsEnd` | CPU increments stop one short of what the fence and later jobs count from |
| `Cdma`, `busy_stop` | `WholeJobs`, `PinnedWhileUsed` | the DMA is stopped in the middle of a submission that waits for slots |
| `Cdma`, `from = 15` and a job that hangs | `JobsEnd`, `PinnedWhileUsed` | `syncpt_val < job->syncpt_end` compares raw values across the wrap |

## 4. Proofs

Each component's theorems follow from an invariant that is inductive; TLC checked
each of these on the runs' instances before it was proved.

### IVC channel

`IvcChannelProofs` proves, for every ring size, every counter range of more than
twice the ring, and every payload:

* `TypeCorrect`: `Spec => []TypeOK`, unconditionally.
* `NoFrameRaceCorrect`, `CountersNotInUseCorrect`, `CopiedInOrderCorrect`, for
  behaviours that are `Disciplined`: no reboots, and no end resets while either
  end is in the ACK state.
* `ImplementsQueue`: `Disciplined /\ Spec => QueueSpec`, the refinement of `IvcQueue`.
* `PositionsRecovered`: with reboots and resets of any kind, `PositionsAgree`, if the
  ring size divides the counter range (`CounterMod % Nframes = 0`).

The safety properties are not inductive.  A read that was checked stays valid only because
the peer cannot clear its counters meanwhile, which holds because of what each
end may have read of the other's state.  `IndInv` says this in four parts beside
`TypeOK`: `AckIsZero` (an end in ACK has cleared counters and positions),
`Handshake` (which pairs of states and snapshots are possible), `Rings` (outside
the half-cleared middle of a handshake, position and counters of each direction
agree and at most `Nframes` frames are in flight) and `Checked` (a call past its
check still has the room or the frame it saw).  Each part has a lemma for one
step (`HandshakeStep`, `RingsStep`, `CheckedStep`), `IndInvCorrect` combines
them, and `SlotsApart` turns ring arithmetic into distinct slots.  For the
refinement the frames in flight become sequences: `HandshakeSeen` and `DataSeen`
say what each step does to them.  Reboots need another invariant, `Synced`:
positions are the counters modulo the ring size, which an advance over the end of
the counter range keeps only if one divides the other.

### Block driver

`VblkProofs`, for every number of requests, slots, frames and suspends, and with
stores that drain late:

* `TypeCorrect` and `SuspendedIsSilent`, whatever the server answers.
* `RequestsEndOnce`, `ResponsesMatch`, `IoctlBuffersSafe`, if the server reports
  no errors (`~ServerErrors`; `vblk_server_error` shows what happens otherwise).

`Inv` follows a slot id over the wire: it is at one place (`OnWireOnce`), and
exactly the slots there, or the one whose answer the work item has just taken,
hold a request (`SlotsInUse`, `WorkersSlot`, `ListedOnce`).  `Stopped` relates
the suspending thread to the work item, which may have read `queue_state` long
before.  Without server errors `NotEnded` (a request on the wire has not ended)
and `OneIoctl` (`ioctl_lock` lets one ioctl in at a time) are inductive beside it.

### Fences and doorbell

`FenceProofs`, about `DoorbellSpec`, for every number and use of fences, and
every range of counters of which thresholds and values fill less than half:

* `TypeCorrect`, `ReferencesExact`, `ErrorsInTime`, `ShadowMovesForward`.
* `AlwaysArmed` if the system does not sleep with fences listed
  (`~HotSuspend`), and `NoFenceLeft` if the doorbell is freed while its work is
  idle (`QuietRelease`); the table above says what happens otherwise.
* `KeepsTimeline`: `DoorbellSpec => TimelineSpec`, the refinement, every step a
  step of `Timeline` or a stutter.

References are exact because of who can have won the `atomic_xchg()`: `Signalled`
says which of handler and timeout work may be between winning it and signalling,
and `Counted` who holds a reference then.  `Clock` says that each value a load has
read was the counter at an earlier time and that the counter was read after the
shadow, from which `ShadowMovesForward` follows however loads overlap; the lemmas
on numbers turn the code's modular comparisons into comparisons of what is
counted, which the refinement needs for "signalled as reached only at the goal".
`Bell` and `Released` say which fences belong to the doorbell.

### DCE

`DceProofs`, for every number of boot commands, RPCs, clients, frames and
suspends:

* `TypeCorrect`, under all troubles: in particular every thread is at a step that
  the call it is in has, and the admin rings do not overflow.
* `OwnAnswer`: `OwnResponse` in calm behaviours (`Calm`: callers keep out of each
  other's way; the firmware may refuse and abort, or memory be short).
* `NobodyForgotten`: `NoOrphanState`, though commands are refused and the
  firmware aborts.

The interlock is spread over the machine's state, `boot_status`, the work item
and the freezer; the invariant has to say what they add up to.  `CalmInvariance`:
one thread is alone with the machine (`Alone`); a reply is at one place
on its way from request to waiter, and its waiter is that thread (`Replying`);
the machine waits only on behalf of its call (`Owned`); frames in the admin
channel are those of its RPC (`Framed`).  A machine without memory for ENTER_SC7
is the exception, `Stranded`: it waits for ever, and no thread gets past it.

For the same constants, of boots and the boot mailbox:

* `BootedIsTrue`: `BootDoneIsTrue`, and `StatusIsOwn`: `OwnStatus`, though clients
  overlap with suspends and each other, are signalled, and leave late answers behind.
* `AdminServed`: `AdminAfterBootCmds`, also with such clients and with a firmware that
  fails: an admin RPC waits only for a firmware that has had its boot commands since it
  powered up.  The RPC's own check reads DCE_FW_BOOTSTRAP_DONE, which outlives a suspend;
  what keeps it true is the callers' look at DCE_FW_BOOT_DONE and that threads are frozen
  before that flag goes.

Clients spoil the machine's state and its wait flags for each other, so the calm
invariant does not hold here.  What holds (`BootInvariance`) is weaker and enough:
of the two workers and the suspend path one at a time makes calls (`Interlock`,
from the freezer, `boot_status` and the work item); a reply that comes by the boot
mailbox is at one place between request and waiter, and only that thread expects
it (`Correspondence`); in each place it bears the tag of that thread's command
(`Stamped`); and a worker past the channel's reset has a firmware that had every
command (`Booted`).  Clients touch none of it but the state of the machine, which
therefore occurs only where a step of suspend commits (`Committed`), and in
`FaultFree`: without faults it is never ABORT.

### Command DMA

For every number of jobs and syncpoints, ring, counter and set of troubles:

* `TypeCorrect` (`CdmaProofs`): in particular a job is queued once, one job is
  submitted at a time, and there are never more completions than sleepers.
* `NoSlotLost` (`CdmaProofs`): `SlotsAccounted`.
* `WholeCommands` (`CdmaProofs`): `FetchWhole` in a ring with room for all jobs
  (`Roomy`), whatever hangs, is cancelled, recovered, restarted or stopped.
* `FailuresTakeAll` (`CdmaOrder`): `NothingAfterFailure`, while no counter wraps
  (`NoWrap`).
* `UnpinnedAfterUse` (`CdmaOrder`): `PinnedWhileUsed` with `Roomy` and `NoWrap`:
  nothing is done by halves, and what leaves the queue has run or has failed.
* `FailsByOwnTimer` (`CdmaOrder`): `OwnTimeout` with `Roomy` and `NoWrap`: only a
  job whose own timer has gone off is failed.
* `NoWorkUnpinned` (`CdmaOrder`): `UnpinnedUnfetched` with `Roomy` and `NoWrap`: the
  hardware never comes to the work of a job that has left the queue, though others
  hang, are cancelled, recovered and restarted behind.
* `WholeInReuse`, `UnpinnedAfterWork`, `OwnTimerOnly` (`CdmaReuse`): `FetchWhole`,
  `PinnedWhileUsed` and `OwnTimeout` with `NoWrap` alone.  Their premise `Calm` is
  `Roomy`, where they follow from the theorems above, or `Undisturbed`, where jobs
  wait for slots but none hangs; there every job that has left has run, and none
  has failed.

The slots of a set of jobs are a fold, which cannot be reasoned about by induction
here; the lemmas about it (`SlotsOne`, `SlotsAny`, `SlotsBoth`) come from
smallest counterexamples among the subsets of `Job` instead.  `CInv` has, beside
the types, what a submission may be (`Submission`), that sleepers of both kinds
together have one event or completion each (`Wakeups`), and that a submission never
believes more slots free than are (`Slots`): `host1x_cdma_push` keeps a count of
its own, which others may only make too small while the lock is dropped.

`WInv` says why commands stay whole: positions are counted from the first one
written to (`Off`), nothing is written twice since no job needs more than five
slots (`Budget`), a wide command is two neighbours or the padding before it at the
ring's end (`Commands`), and all places from which fetching goes on, DMAGET,
DMAPUT, the ends of every queued job and of the submission under way, are the
beginning of a command (`Marks`), so that a cancelled job is overwritten whole
(`CancelledWhole`).

The theorems of `CdmaOrder` need to know where DMAGET stands relative to the
counters.  A command is pending when its job has yet to write it, or when it lies
between DMAGET and DMAPUT (`Pending`).  `OInv` says that jobs have their values of a
counter one after the other (`Numbers`); that they begin, are queued and retired in
their order (`Turns`); that the ring holds them in that order, each where it says
(`Layout`); that with work pending the counter has not reached the job's end, and
without it has counted it, unless the job has failed (`Progress`); that a cancelled job
takes the later ones of its syncpoint with it (`Locking`); and that the timer is the
first job's (`Switches`).  From `Numbers` and `Turns` follows that the job
`cdma_timeout_handler()` finds by comparing raw counters is the first in the queue
(`StuckFirst`), from `Layout` that the restart passes over all of it and nothing else
(`RestartsNext`, `RestartLeaves`), and so the engine never comes to an increment
before its work.  Both premises are needed, as the table above shows: half a job in a
ring that fills up, and raw comparisons across the wrap, break these properties.

`OwnTimeout` is about the other end: a timer belongs to whichever job is the first when
it is started, its handler runs later, and fails the first job of the queue at that
time.  The handler fails the wrong one if the first job leaves in between.  `TInv` says why it
does not: jobs fill the ring one after the other, and the three commands of a queued
job are its last slots (`Places`); what a job has nothing left to do of is in the counter,
exactly (`Tally`); a fence that has been signalled was reached, the first job has a
pending fence or an update is on its way, and from when its timer has gone off until the
handler runs, the engine waits in that job's work (`Timing`, `Waits`).  It waits there
because a timer goes off when nothing can run (`FiresWaits`): the first job's fence
is pending and not due, so its last increment is, by `Tally`, still ahead of the
engine; what the engine stands at is not of an earlier job, all of which are gone
and have, again by `Tally`, nothing pending; and it is not a later command of the first
job, which could run.  `LeavesDone` is the other half: the CPU takes jobs from the queue
when the counter has reached their end, one increment before their fence, and looks
only when the engine is past the rest (`Settled`), without which (`"late"`) the engine
may wait in a job that is no longer queued.

In a ring that fills up slots are used again, and `Off` no longer orders them.
`CdmaReuse` counts from the first slot in use instead (`Use`), the one behind
`pb.fence`, and all counts move when slots are given back (`UseFreed`).  `EInv`, for
behaviours in which nothing hangs and no counter wraps, says that the jobs in the
queue and the one under submission fill the slots in use one after the other, from
where those before them end (`Packed`, a sum over earlier jobs), and that what is in a
slot follows from its place in its job (`Owned`, `Parts`); that the engine is among
these slots, not inside a command, and not past the first increment of a submission
that still goes on (`Engine`); and that the counter of a job tells on which side of each
of its increments the engine is (`Paced`, `Reaches`).  Then a job whose end is reached
when the CPU looks is fetched whole (`SettledPast`), so what `update_cdma_locked()`
gives back lies behind DMAGET (`LeavesShift`), and what is written lies in front of
it.  That the CPU looks only then is an assumption of the schedule (`Settled`), on which
`WholeInReuse`, `UnpinnedAfterWork` and `OwnTimerOnly` rest in rings that fill up.  The rest is why nobody fails: the first job in the queue has its timer running,
and its fence pending unless an update is on its way (`Watched`).  A timer that could go
off would find that fence not due, hence the engine not yet past the increments of that
job, all of which DMAPUT has passed, hence able to run: but then no timer goes off
(`TimerEven`).  Fences do not time out either (`FenceEven`), and no handler runs
(`Still`).  That `Undisturbed` is needed the hazards show: with a job that hangs, TLC
finds slots freed before they were fetched.

### Only model-checked

`IvcClients`, and liveness, which TLAPS does not handle: `JobsEndHere` of `Cdma` and
the leads-to properties of the clients, the block driver, DCE and the fences.  The
proofs about `Cdma` in `CdmaOrder` and `CdmaReuse` stop where a counter wraps
(`NoWrap`), since the code's raw comparisons go wrong there; TLC checks `FetchWhole`
and `UnpinnedUnfetched` across the wrap too, and the latter also in rings that fill up
while jobs hang.

## 5. Not modelled

Contents of frames, requests and messages; frame addresses and DMA; probe and
remove; allocation failures except in the block driver's submission; error
injection; log and crash events of DCE; channels of DCE clients; in host1x
allocation of syncpoints and channels, gathers, relocations and the firewall,
hardware before Tegra186; messages and streams of nvscic2c-pcie.  Most of the
repository by lines is vendored (Realtek), tables or register programming, with
no protocol to model.  The other
subsystems are listed with reasons in `PROJECT.json`.

Seen while reading, in code that is not part of a model: a failed
`tegra_hv_ivc_write()` is negative and tested for zero (`tegra_hv_vblk.c:663`); a
late answer to an error injection completes the next one (`:957`); a request
refused after its scatter list was mapped leaks the mapping (`:589`); cancelling
a fence that was never enabled follows a null list head (`fence.c:175`, no caller
does); the poll trigger of `host1x-fence/dev.c:396` keeps its reference to the
file; a syncpoint's fields are reset outside `syncpt_mutex` (`syncpt.c:413`); the
save of a syncpoint that its client does not manage writes back the shadow
without reading the counter (`syncpt.c:191`).

## 6. Plan

Done: IVC channel, its abstraction, clients and proofs; block driver; DCE;
host1x fences, their abstraction, and the doorbells on them; command DMA.
Proofs of the IVC channel and its refinement, the block driver, the fences and the
doorbell, of DCE and its boots, and of the slots, commands, jobs and timers of the
command DMA, in rings with room for all jobs and in rings that fill up.
Next, in this order:

1. DCE client IPC (handles, callbacks, async work) beside `Dce`, with log events.
2. Camera RTCPU: `capture-ivc.c` (registration against delivery) and `ivc-bus.c`.
3. host1x syncpoint allocation and reference counts; nvscic2c-pcie link states.

## 7. Running

    tlc -workers 2 -config IvcChannel.cfg MCIvcChannel
    tlc -workers 2 -config VblkSafety.cfg Vblk
    tlc -workers 2 -config Dce.cfg Dce
    tlc -workers 2 -config Fence.cfg MCFence
    tlc -workers 2 -config Cdma.cfg MCCdma
    tlapm IvcChannelProofs.tla
    tlapm VblkProofs.tla
    tlapm FenceProofs.tla
    tlapm DceProofs.tla
    tlapm CdmaProofs.tla
    tlapm CdmaOrder.tla
    tlapm CdmaReuse.tla

`PROJECT.json` pairs every run with its module and configuration.
