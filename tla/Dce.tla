-------------------------------- MODULE Dce ---------------------------------
(***************************************************************************)
(* The display controller engine driver, drivers/platform/tegra/dce: an    *)
(* event-driven state machine that the boot worker, the resume worker, the *)
(* system-suspend path, callers of the admin RPC and the mailbox interrupt *)
(* thread drive together, and the firmware behind two mailboxes and one    *)
(* IVC channel.  fsm->lock is held while an event is validated and the     *)
(* state set, and not while the event's callback runs.                     *)
(***************************************************************************)
EXTENDS Integers, Sequences, FiniteSets

CONSTANTS Clients,       \* tasks that issue admin RPCs (debugfs)
          NCmds,         \* boot commands of dce_start_bootstrap_flow()
          NAdmin,        \* RPCs of dce_start_admin_seq()
          NRpc,          \* RPCs of a client
          Frames,        \* frames of the admin channel
          MaxSuspends,   \* bound on system suspends in a behaviour
          Environments   \* the sets of troubles a behaviour may be exposed to

\* What may go wrong around the driver: a client is interrupted while it waits;
\* clients call while another client does; the system suspends before
\* DCE_FW_BOOT_DONE; the firmware refuses a command or aborts; no memory for the
\* ENTER_SC7 message.
Troubles == {"signals", "overlap", "early_suspend", "faults", "nomem"}

ASSUME DceAssumption ==
  /\ NCmds \in Nat \ {0} /\ NAdmin \in Nat /\ NRpc \in Nat \ {0} /\ Frames \in Nat \ {0}
  /\ MaxSuspends \in Nat
  /\ Environments \subseteq SUBSET Troubles
  /\ Clients \cap {"boot", "resume", "pm"} = {}

Workers == {"boot", "resume"}
Threads == Workers \cup {"pm"} \cup Clients

VARIABLES env,           \* the troubles of this behaviour, the same throughout
          c_state,       \* fsm->c_state
          prev,          \* prev[t]: prev_state of the post t is in
          todo,          \* todo[t]: the calls t has still to make
          pc,            \* pc[t]: t's step within the first of them
          pm,            \* the system's suspend cycle
          callers,       \* clients that have not called yet
          suspends,
          boot_status,   \* the flags others read
          complete,      \* complete[w]: ipc_waits[w].complete
          ack,           \* the boot mailbox's stored status
          mb_locked,     \* d_mb->lock left locked
          synced,        \* DCE_IPC_CHANNEL_SYNCED of the admin channel
          resume_work,   \* dce_resume_work is queued
          isr,           \* the event the interrupt thread is posting
          smb, rmb,      \* mailbox registers to and from the firmware
          boot_req,      \* DCE_BOOT_INIT bit: interrupt wanted on boot
          atx, arx, admirq, \* the admin channel and its interrupt
          fw, fwcmds     \* firmware: running, boot commands taken

caller == <<pm, callers, suspends>>
driver == <<boot_status, ack, mb_locked, synced, resume_work>>
chan   == <<atx, arx, admirq>>
mbox   == <<smb, rmb, boot_req>>
system == <<c_state, prev, todo, pc, caller, driver, complete, isr, chan, mbox, fw, fwcmds>>
vars   == <<env, system>>

-----------------------------------------------------------------------------
(* The state machine.                                                      *)

Requests == {"BOOT_COMPLETE_REQUESTED", "BOOT_CMD_MSG_REQUESTED",
             "ADMIN_IPC_MSG_REQUESTED", "SC7_ENTER_REQUESTED"}
Replies  == {"BOOT_COMPLETE_RECEIVED", "BOOT_CMD_MSG_RECEIVED",
             "ADMIN_IPC_MSG_RECEIVED", "SC7_ENTERED_RECEIVED"}
Events   == Requests \cup Replies \cup {"FSM_START", "SC7_EXIT_RECEIVED", "ABORT_RECEIVED"}
Waiting  == {"BOOT_WAIT", "BOOTCMD_WFI", "ADMIN_WFI", "SC7_ENTER_WFI"}
States   == Waiting \cup {"INVALID", "IDLE", "SC7_ENTERED", "ABORT"}

\* The reply a waiting state is waiting for.
AwaitedIn(s) ==
  CASE s = "BOOT_WAIT" -> "BOOT_COMPLETE_RECEIVED"
    [] s = "BOOTCMD_WFI" -> "BOOT_CMD_MSG_RECEIVED"
    [] s = "ADMIN_WFI" -> "ADMIN_IPC_MSG_RECEIVED"
    [] s = "SC7_ENTER_WFI" -> "SC7_ENTERED_RECEIVED"

\* Mutant: no SC7 entry reply is expected while one is awaited.
AcceptedNoSc7(s, e) ==
  \/ s = "INVALID" /\ e = "FSM_START"
  \/ s = "IDLE" /\ e \notin Replies \cup {"FSM_START"}
  \/ s \in Waiting /\ e = "ABORT_RECEIVED"
  \/ s \in Waiting \ {"SC7_ENTER_WFI"} /\ e \in {AwaitedIn(s), "SC7_ENTER_REQUESTED"}
  \/ s = "SC7_ENTERED" /\ e = "SC7_EXIT_RECEIVED"
  \/ s = "ABORT"

\* dce_fsm_validate_event().  In the abort state it only logs.
Accepted(s, e) ==
  \/ s = "INVALID" /\ e = "FSM_START"
  \/ s = "IDLE" /\ e \notin Replies \cup {"FSM_START"}
  \/ s \in Waiting /\ e \in {AwaitedIn(s), "ABORT_RECEIVED"}
  \/ s \in Waiting \ {"SC7_ENTER_WFI"} /\ e = "SC7_ENTER_REQUESTED"
  \/ s = "SC7_ENTERED" /\ e = "SC7_EXIT_RECEIVED"
  \/ s = "ABORT"

\* dce_fsm_set_state()
StateFor(e) ==
  CASE e = "BOOT_COMPLETE_REQUESTED" -> "BOOT_WAIT"
    [] e = "BOOT_CMD_MSG_REQUESTED" -> "BOOTCMD_WFI"
    [] e = "ADMIN_IPC_MSG_REQUESTED" -> "ADMIN_WFI"
    [] e = "SC7_ENTER_REQUESTED" -> "SC7_ENTER_WFI"
    [] e = "SC7_ENTERED_RECEIVED" -> "SC7_ENTERED"
    [] e = "ABORT_RECEIVED" -> "ABORT"
    [] OTHER -> "IDLE"

-----------------------------------------------------------------------------
(* Calls.  Each call that posts an event names the event; the wait of its  *)
(* callback is the reply that ends it.                                     *)

EventOf(call) ==
  CASE call = "start" -> "FSM_START"
    [] call = "boot" -> "BOOT_COMPLETE_REQUESTED"
    [] call = "cmd" -> "BOOT_CMD_MSG_REQUESTED"
    [] call = "admin" -> "ADMIN_IPC_MSG_REQUESTED"
    [] call = "sc7" -> "SC7_ENTER_REQUESTED"
    [] call = "exit" -> "SC7_EXIT_RECEIVED"

Calls(call, n) == [i \in 1..n |-> call]

\* dce_start_boot_flow(), behind the post that waits for the firmware
BootFlow == <<"boot">> \o Calls("cmd", NCmds) \o <<"cmdsdone", "reset">>
              \o Calls("admin", NAdmin) \o <<"bootdone">>

Running(t) == todo[t] # <<>>
In(t, call, step) == Running(t) /\ Head(todo[t]) = call /\ pc[t] = step
WaitOf(t) == AwaitedIn(StateFor(EventOf(Head(todo[t]))))
Tag(t) == <<t, Len(todo[t])>>
NoMsg == [kind |-> "none", tag |-> <<>>]
Msg(kind, tag) == [kind |-> kind, tag |-> tag]
IrqMsg(kind) == Msg(kind, <<>>)

Init ==
  /\ env \in Environments
  /\ c_state = "INVALID" /\ prev = [t \in Threads |-> "INVALID"]
  /\ todo = [t \in Threads |-> IF t = "boot" THEN <<"start">> \o BootFlow ELSE <<>>]
  /\ pc = [t \in Threads |-> "post"]
  /\ pm = "awake" /\ callers = Clients /\ suspends = 0
  /\ boot_status = {} /\ ack = NoMsg /\ mb_locked = FALSE /\ synced = FALSE /\ resume_work = FALSE
  /\ complete = [w \in Replies |-> FALSE] /\ isr = [step |-> "off", event |-> "none"]
  /\ smb = NoMsg /\ rmb = NoMsg /\ boot_req = FALSE
  /\ atx = <<>> /\ arx = <<>> /\ admirq = FALSE
  /\ fw \in {"off", "up"} /\ fwcmds = 0

Start(t, calls) ==
  todo' = [todo EXCEPT ![t] = calls] /\ pc' = [pc EXCEPT ![t] = "post"]

Goto(t, step) == pc' = [pc EXCEPT ![t] = step] /\ UNCHANGED todo

\* The call returned 0 ...
Done(t) == todo' = [todo EXCEPT ![t] = Tail(@)] /\ pc' = [pc EXCEPT ![t] = "post"]
\* ... or an error, which every caller passes up.
Fail(t) == todo' = [todo EXCEPT ![t] = <<>>] /\ pc' = [pc EXCEPT ![t] = "failed"]

-----------------------------------------------------------------------------
(* dce_fsm_post_event()                                                    *)

\* Validate and set, under the lock.
Post(t) ==
  /\ Running(t) /\ pc[t] = "post"
  /\ Head(todo[t]) \in {"start", "boot", "cmd", "admin", "sc7", "exit"}
  /\ LET e == EventOf(Head(todo[t])) IN
       IF Accepted(c_state, e)
       THEN /\ prev' = [prev EXCEPT ![t] = c_state]
            /\ c_state' = StateFor(e)
            /\ IF e = "FSM_START" THEN Done(t) ELSE Goto(t, "callback")
       ELSE Fail(t) /\ UNCHANGED <<c_state, prev>>
  /\ UNCHANGED <<caller, driver, complete, isr, chan, mbox, fw, fwcmds>>

\* The callback failed: the state goes back to what the post found.
Restore(t) ==
  /\ Running(t) /\ pc[t] = "restore"
  /\ c_state' = prev[t] /\ Fail(t)
  /\ UNCHANGED <<prev, caller, driver, complete, isr, chan, mbox, fw, fwcmds>>

-----------------------------------------------------------------------------
(* Callbacks.                                                              *)

\* Mutant: waits for the boot interrupt without asking for it.
BootCheckUnasked(t) ==
  /\ In(t, "boot", "callback")
  /\ Goto(t, IF fw = "up" THEN "nested" ELSE "wait")
  /\ UNCHANGED <<c_state, prev, caller, driver, complete, isr, chan, mbox, fw, fwcmds>>

\* dce_handle_boot_complete_requested_event(): is the firmware up already?
BootCheck(t) ==
  /\ In(t, "boot", "callback")
  /\ Goto(t, IF fw = "up" THEN "nested" ELSE "wait")
  /\ boot_req' = (boot_req \/ fw # "up")
  /\ UNCHANGED <<c_state, prev, caller, driver, complete, isr, chan, smb, rmb, fw, fwcmds>>

\* It is: the callback posts BOOT_COMPLETE_RECEIVED itself ...
NestedPost(t) ==
  /\ In(t, "boot", "nested")
  /\ IF Accepted(c_state, "BOOT_COMPLETE_RECEIVED")
     THEN c_state' = StateFor("BOOT_COMPLETE_RECEIVED") /\ Goto(t, "nestedwake")
     ELSE UNCHANGED c_state /\ Goto(t, "nestedreset_failed")
  /\ UNCHANGED <<prev, caller, driver, complete, isr, chan, mbox, fw, fwcmds>>

NestedWake(t) ==
  /\ In(t, "boot", "nestedwake")
  /\ complete' = [complete EXCEPT !["BOOT_COMPLETE_RECEIVED"] = TRUE]
  /\ Goto(t, "nestedreset")
  /\ UNCHANGED <<c_state, prev, caller, driver, isr, chan, mbox, fw, fwcmds>>

\* ... and takes back the wake-up nobody will consume.
NestedReset(t) ==
  /\ Running(t) /\ pc[t] \in {"nestedreset", "nestedreset_failed"}
  /\ complete' = [complete EXCEPT !["BOOT_COMPLETE_RECEIVED"] = FALSE]
  /\ IF pc[t] = "nestedreset" THEN Done(t) ELSE Goto(t, "restore")
  /\ UNCHANGED <<c_state, prev, caller, driver, isr, chan, mbox, fw, fwcmds>>

\* dce_handle_mailbox_send_cmd_sync(): the return for a command the firmware
\* has not taken yet keeps d_mb->lock.
MailboxSend(t) ==
  /\ In(t, "cmd", "callback") /\ ~mb_locked
  /\ IF smb = NoMsg
     THEN /\ smb' = Msg("cmd", Tag(t)) /\ ack' = NoMsg /\ UNCHANGED mb_locked
          /\ Goto(t, "wait")
     ELSE mb_locked' = TRUE /\ Goto(t, "restore") /\ UNCHANGED <<smb, ack>>
  /\ UNCHANGED <<c_state, prev, caller, boot_status, synced, resume_work, complete, isr,
                 chan, rmb, boot_req, fw, fwcmds>>

\* Mutant: writes without looking for a free frame.
AdminSendUnchecked(t) ==
  /\ In(t, "admin", "callback")
  /\ IF "BOOTSTRAP_DONE" \in boot_status
     THEN atx' = Append(atx, Msg("admin", Tag(t))) /\ Goto(t, "wait")
     ELSE UNCHANGED atx /\ Goto(t, "restore")
  /\ UNCHANGED <<c_state, prev, caller, driver, complete, isr, arx, admirq, mbox, fw, fwcmds>>

\* dce_admin_handle_ipc_requested_event() up to its wait
AdminSend(t) ==
  /\ In(t, "admin", "callback")
  /\ IF "BOOTSTRAP_DONE" \in boot_status /\ Len(atx) < Frames
     THEN atx' = Append(atx, Msg("admin", Tag(t))) /\ Goto(t, "wait")
     ELSE UNCHANGED atx /\ Goto(t, "restore")
  /\ UNCHANGED <<c_state, prev, caller, driver, complete, isr, arx, admirq, mbox, fw, fwcmds>>

\* dce_pm_handle_sc7_enter_requested_event(): no RPC, the answer is a mailbox
\* interrupt.  The failed allocation returns the 0 that ret started with.
Sc7NoMemory(t) ==
  /\ In(t, "sc7", "callback") /\ "nomem" \in env
  /\ Done(t)
  /\ UNCHANGED <<c_state, prev, caller, driver, complete, isr, chan, mbox, fw, fwcmds>>

Sc7Send(t) ==
  /\ In(t, "sc7", "callback")
  /\ IF Len(atx) < Frames
     THEN atx' = Append(atx, Msg("sc7", Tag(t))) /\ Goto(t, "wait")
     ELSE UNCHANGED atx /\ Goto(t, "restore")
  /\ UNCHANGED <<c_state, prev, caller, driver, complete, isr, arx, admirq, mbox, fw, fwcmds>>

\* dce_pm_handle_sc7_exit_received_event()
ScheduleResume(t) ==
  /\ In(t, "exit", "callback")
  /\ resume_work' = TRUE /\ Done(t)
  /\ UNCHANGED <<c_state, prev, caller, boot_status, ack, mb_locked, synced, complete, isr, chan, mbox,
                 fw, fwcmds>>

-----------------------------------------------------------------------------
(* dce_wait_interruptible(): three accesses to wait->complete.             *)

\* wait_event_interruptible() returns: the flag is set, or a signal came.
WaitReturns(t) ==
  /\ Running(t) /\ pc[t] = "wait"
  /\ complete[WaitOf(t)] \/ ("signals" \in env /\ t \in Clients)
  /\ Goto(t, "woken")
  /\ UNCHANGED <<c_state, prev, caller, driver, complete, isr, chan, mbox, fw, fwcmds>>

\* -EINTR unless the flag is set now; the boot mailbox's wait ignores it.
Recheck(t) ==
  /\ Running(t) /\ pc[t] = "woken"
  /\ Goto(t, IF complete[WaitOf(t)] THEN "consume"
             ELSE IF Head(todo[t]) = "cmd" THEN "answered" ELSE "restore")
  /\ UNCHANGED <<c_state, prev, caller, driver, complete, isr, chan, mbox, fw, fwcmds>>

\* Mutant: the flag stays set.
ConsumeNot(t) ==
  /\ Running(t) /\ pc[t] = "consume"
  /\ Goto(t, "answered")
  /\ UNCHANGED <<c_state, prev, caller, driver, complete, isr, chan, mbox, fw, fwcmds>>

Consume(t) ==
  /\ Running(t) /\ pc[t] = "consume"
  /\ complete' = [complete EXCEPT ![WaitOf(t)] = FALSE]
  /\ Goto(t, "answered")
  /\ UNCHANGED <<c_state, prev, caller, driver, isr, chan, mbox, fw, fwcmds>>

-----------------------------------------------------------------------------
(* Behind the wait.                                                        *)

BootAnswered(t) ==
  /\ In(t, "boot", "answered") /\ Done(t)
  /\ UNCHANGED <<c_state, prev, caller, driver, complete, isr, chan, mbox, fw, fwcmds>>

\* An invalidated status reads as 0xffffffff, which has the error bit set.
CmdAnswered(t) ==
  /\ In(t, "cmd", "answered")
  /\ IF ack.kind \in {"none", "err"} THEN Goto(t, "restore") ELSE Done(t)
  /\ UNCHANGED <<c_state, prev, caller, driver, complete, isr, chan, mbox, fw, fwcmds>>

\* Mutant: the frame is read and not taken out of the ring.
AdminAnsweredPeek(t) ==
  /\ In(t, "admin", "answered")
  /\ IF arx # <<>> THEN Done(t) ELSE Goto(t, "restore")
  /\ UNCHANGED <<c_state, prev, caller, driver, complete, isr, chan, mbox, fw, fwcmds>>

\* dce_ipc_read_message()
AdminAnswered(t) ==
  /\ In(t, "admin", "answered")
  /\ IF arx # <<>>
     THEN arx' = Tail(arx) /\ Done(t)
     ELSE UNCHANGED arx /\ Goto(t, "restore")
  /\ UNCHANGED <<c_state, prev, caller, driver, complete, isr, atx, admirq, mbox, fw, fwcmds>>

\* Mutant: BOOT_DONE survives the entry into SC7.
Sc7AnsweredKeep(t) ==
  /\ In(t, "sc7", "answered") /\ Done(t)
  /\ UNCHANGED <<c_state, prev, caller, driver, complete, isr, chan, mbox, fw, fwcmds>>

\* dce_set_boot_complete(d, false)
Sc7Answered(t) ==
  /\ In(t, "sc7", "answered") /\ Done(t)
  /\ boot_status' = boot_status \ {"BOOT_DONE"}
  /\ UNCHANGED <<c_state, prev, caller, ack, mb_locked, synced, resume_work, complete, isr, chan, mbox,
                 fw, fwcmds>>

-----------------------------------------------------------------------------
(* The rest of the boot flow.                                              *)

CmdsDone(t) ==
  /\ In(t, "cmdsdone", "post") /\ Done(t)
  /\ boot_status' = boot_status \cup {"BOOTSTRAP_DONE"}
  /\ UNCHANGED <<c_state, prev, caller, ack, mb_locked, synced, resume_work, complete, isr, chan, mbox,
                 fw, fwcmds>>

\* dce_ipc_channel_reset(): not synced ...
ChannelReset(t) ==
  /\ In(t, "reset", "post") /\ Goto(t, "handshake")
  /\ synced' = FALSE
  /\ UNCHANGED <<c_state, prev, caller, boot_status, ack, mb_locked, resume_work, complete, isr, chan,
                 mbox, fw, fwcmds>>

\* ... until the IVC handshake, with a firmware that knows the channel, is over.
ChannelReady(t) ==
  /\ In(t, "reset", "handshake") /\ fw = "up" /\ fwcmds = NCmds
  /\ synced' = TRUE /\ atx' = <<>> /\ arx' = <<>> /\ Done(t)
  /\ UNCHANGED <<c_state, prev, caller, boot_status, ack, mb_locked, resume_work, complete, isr, admirq,
                 mbox, fw, fwcmds>>

BootDone(t) ==
  /\ In(t, "bootdone", "post") /\ Done(t)
  /\ boot_status' = boot_status \cup {"BOOT_DONE"}
  /\ UNCHANGED <<c_state, prev, caller, ack, mb_locked, synced, resume_work, complete, isr, chan, mbox,
                 fw, fwcmds>>

\* dce_resume_work_fn() starts; a work item never runs beside itself.
StartResume ==
  /\ resume_work /\ ~Running("resume")
  /\ resume_work' = FALSE
  /\ Start("resume", BootFlow)
  /\ UNCHANGED <<c_state, prev, caller, boot_status, ack, mb_locked, synced, complete, isr, chan, mbox,
                 fw, fwcmds>>

-----------------------------------------------------------------------------
(* Clients and system suspend.  The freezer has every client out of its    *)
(* call before a device is suspended, and thaws them after the resume.     *)

Quiet == \A t \in Threads : ~Running(t)

\* Mutant: the caller does not look whether the engine is booted.
CallAdminUnchecked(c) ==
  /\ c \in callers /\ pm = "awake"
  /\ callers' = callers \ {c}
  /\ Start(c, Calls("admin", NRpc))
  /\ UNCHANGED <<c_state, prev, pm, suspends, driver, complete, isr, chan, mbox, fw, fwcmds>>

\* dce_admin_send_cmd_*(): each returns at once, with nothing done, unless
\* dce_is_bootstrap_done().  (Only a suspend takes the flag back, and not in a
\* call: one look at it stands for the look of each RPC.)
CallAdmin(c) ==
  /\ c \in callers /\ pm = "awake"
  /\ "BOOT_DONE" \in boot_status
  /\ callers' = callers \ {c}
  /\ Start(c, Calls("admin", NRpc))
  /\ UNCHANGED <<c_state, prev, pm, suspends, driver, complete, isr, chan, mbox, fw, fwcmds>>

\* Without "overlap" a client calls when no other call is made or due.
ClientCalls(c) == ("overlap" \in env \/ (Quiet /\ ~resume_work)) /\ CallAdmin(c)

\* dce_pm_enter_sc7(): nothing to do unless booted
EnterSc7 ==
  /\ pm = "awake" /\ suspends < MaxSuspends
  /\ \A c \in Clients : ~Running(c)
  /\ "early_suspend" \in env \/ "BOOT_DONE" \in boot_status
  /\ pm' = "entering" /\ suspends' = suspends + 1
  /\ Start("pm", IF "BOOT_DONE" \in boot_status THEN <<"admin", "sc7">> ELSE <<>>)
  /\ UNCHANGED <<c_state, prev, callers, driver, complete, isr, chan, mbox, fw, fwcmds>>

\* It returned: an error ends the system's suspend.
Sc7Entered ==
  /\ pm = "entering" /\ ~Running("pm")
  /\ pm' = IF pc["pm"] = "failed" THEN "awake" ELSE "entered"
  /\ UNCHANGED <<c_state, prev, todo, pc, callers, suspends, driver, complete, isr, chan, mbox,
                 fw, fwcmds>>

\* Everything stops, the engine and its mailboxes lose power, and the system
\* wakes up in dce_pm_exit_sc7().
SleepAndWake ==
  /\ pm = "entered" /\ isr.step = "off"
  /\ pm' = "exiting" /\ Start("pm", <<"exit">>)
  /\ fw' = "off" /\ fwcmds' = 0
  /\ smb' = NoMsg /\ rmb' = NoMsg /\ boot_req' = FALSE /\ admirq' = FALSE
  /\ UNCHANGED <<c_state, prev, callers, suspends, driver, complete, isr, atx, arx>>

Resumed ==
  /\ pm = "exiting" /\ ~Running("pm")
  /\ pm' = "awake"
  /\ UNCHANGED <<c_state, prev, todo, pc, callers, suspends, driver, complete, isr, chan, mbox,
                 fw, fwcmds>>

-----------------------------------------------------------------------------
(* The interrupt thread, dce_mailbox_isr().                                *)

EventFor(kind) ==
  CASE kind = "ready" -> "BOOT_COMPLETE_RECEIVED"
    [] kind = "sc7" -> "SC7_ENTERED_RECEIVED"
    [] kind = "abort" -> "ABORT_RECEIVED"
    [] kind \in {"ack", "err"} -> "BOOT_CMD_MSG_RECEIVED"

\* The boot interface: take the register, store the status, tell by its kind.
IsrMailbox ==
  /\ isr.step = "off" /\ rmb # NoMsg /\ ~mb_locked
  /\ rmb' = NoMsg /\ ack' = rmb
  /\ isr' = [step |-> "post", event |-> EventFor(rmb.kind)]
  /\ UNCHANGED <<c_state, prev, todo, pc, caller, boot_status, mb_locked, synced, resume_work, complete,
                 chan, smb, boot_req, fw, fwcmds>>

\* dce_admin_ipc_handle_signal(): spurious unless synced and a frame is there
IsrAdmin ==
  /\ isr.step = "off" /\ admirq
  /\ admirq' = FALSE
  /\ isr' = IF synced /\ arx # <<>>
            THEN [step |-> "post", event |-> "ADMIN_IPC_MSG_RECEIVED"] ELSE isr
  /\ UNCHANGED <<c_state, prev, todo, pc, caller, driver, complete, atx, arx, mbox, fw, fwcmds>>

\* Mutant: the callback runs, the state is not set.
IsrPostNoState ==
  /\ isr.step = "post"
  /\ isr' = IF Accepted(c_state, isr.event) /\ isr.event # "ABORT_RECEIVED"
            THEN [isr EXCEPT !.step = "wake"] ELSE [step |-> "off", event |-> "none"]
  /\ UNCHANGED <<c_state, prev, todo, pc, caller, driver, complete, chan, mbox, fw, fwcmds>>

\* dce_fsm_post_event() for a reply or an abort
IsrPost ==
  /\ isr.step = "post"
  /\ IF Accepted(c_state, isr.event)
     THEN /\ c_state' = StateFor(isr.event)
          /\ isr' = IF isr.event = "ABORT_RECEIVED" THEN [step |-> "off", event |-> "none"]
                    ELSE [isr EXCEPT !.step = "wake"]
     ELSE isr' = [step |-> "off", event |-> "none"] /\ UNCHANGED c_state
  /\ UNCHANGED <<prev, todo, pc, caller, driver, complete, chan, mbox, fw, fwcmds>>

\* dce_wakeup_interruptible() in the reply's callback
IsrWake ==
  /\ isr.step = "wake"
  /\ complete' = [complete EXCEPT ![isr.event] = TRUE]
  /\ isr' = [step |-> "off", event |-> "none"]
  /\ UNCHANGED <<c_state, prev, todo, pc, caller, driver, chan, mbox, fw, fwcmds>>

-----------------------------------------------------------------------------
(* External: the firmware, as the driver uses it.                          *)

FwBoot ==
  /\ fw = "off"
  /\ fw' = "up"
  /\ UNCHANGED <<c_state, prev, todo, pc, caller, driver, complete, isr, chan, mbox, fwcmds>>

FwReady ==
  /\ fw = "up" /\ boot_req /\ rmb = NoMsg
  /\ rmb' = IrqMsg("ready") /\ boot_req' = FALSE
  /\ UNCHANGED <<c_state, prev, todo, pc, caller, driver, complete, isr, chan, smb, fw, fwcmds>>

FwCommand(kind) ==
  /\ fw = "up" /\ smb # NoMsg /\ rmb = NoMsg
  /\ rmb' = Msg(kind, smb.tag) /\ smb' = NoMsg
  /\ fwcmds' = IF kind = "ack" /\ fwcmds < NCmds THEN fwcmds + 1 ELSE fwcmds
  /\ UNCHANGED <<c_state, prev, todo, pc, caller, driver, complete, isr, chan, boot_req, fw>>

FwRefuse == "faults" \in env /\ FwCommand("err")

FwAdmin ==
  /\ fw = "up" /\ fwcmds = NCmds /\ atx # <<>> /\ Head(atx).kind = "admin"
  /\ Len(arx) < Frames
  /\ atx' = Tail(atx) /\ arx' = Append(arx, Head(atx)) /\ admirq' = TRUE
  /\ UNCHANGED <<c_state, prev, todo, pc, caller, driver, complete, isr, mbox, fw, fwcmds>>

FwSc7 ==
  /\ fw = "up" /\ fwcmds = NCmds /\ atx # <<>> /\ Head(atx).kind = "sc7" /\ rmb = NoMsg
  /\ atx' = Tail(atx) /\ rmb' = IrqMsg("sc7") /\ fw' = "sc7"
  /\ UNCHANGED <<c_state, prev, todo, pc, caller, driver, complete, isr, arx, admirq, smb,
                 boot_req, fwcmds>>

FwAbort ==
  /\ "faults" \in env /\ fw = "up" /\ rmb = NoMsg
  /\ rmb' = IrqMsg("abort") /\ fw' = "dead"
  /\ UNCHANGED <<c_state, prev, todo, pc, caller, driver, complete, isr, chan, smb, boot_req,
                 fwcmds>>

-----------------------------------------------------------------------------
Callback(t) ==
  \/ BootCheck(t) \/ NestedPost(t) \/ NestedWake(t) \/ NestedReset(t)
  \/ MailboxSend(t) \/ AdminSend(t) \/ Sc7Send(t) \/ Sc7NoMemory(t) \/ ScheduleResume(t)
  \/ Recheck(t) \/ Consume(t)
  \/ BootAnswered(t) \/ CmdAnswered(t) \/ AdminAnswered(t) \/ Sc7Answered(t)
Flow(t) == CmdsDone(t) \/ ChannelReset(t) \/ ChannelReady(t) \/ BootDone(t)
Thread(t) == Post(t) \/ Restore(t) \/ Callback(t) \/ Flow(t) \/ WaitReturns(t)
Isr == IsrMailbox \/ IsrAdmin \/ IsrPost \/ IsrWake
Firmware == FwBoot \/ FwReady \/ FwCommand("ack") \/ FwAdmin \/ FwSc7
Power == Sc7Entered \/ SleepAndWake \/ Resumed

\* WaitReturns for its own reason
Woken(t) == Running(t) /\ pc[t] = "wait" /\ complete[WaitOf(t)] /\ WaitReturns(t)

Step ==
  \/ \E t \in Threads : Thread(t)
  \/ StartResume \/ Power \/ Isr \/ Firmware
  \/ EnterSc7 \/ FwRefuse \/ FwAbort
  \/ \E c \in Clients : ClientCalls(c)

Next == Step /\ UNCHANGED env

\* Kernel threads and the interrupt run, the firmware answers, a system that
\* has gone to sleep wakes up.  Nobody has to call, suspend, signal or fail.
Fairness ==
  /\ \A t \in Threads :
       WF_system(Post(t) \/ Restore(t) \/ Callback(t) \/ Flow(t) \/ Woken(t))
  /\ WF_system(StartResume) /\ WF_system(Power) /\ WF_system(Isr)
  /\ WF_system(FwBoot) /\ WF_system(FwReady) /\ WF_system(FwCommand("ack"))
  /\ WF_system(FwAdmin) /\ WF_system(FwSc7)

Spec == Init /\ [][Next]_vars /\ Fairness

-----------------------------------------------------------------------------
Steps == {"post", "failed", "callback", "nested", "nestedwake", "nestedreset",
          "nestedreset_failed", "wait", "woken", "consume", "answered", "restore", "handshake"}

\* Every thread is at a step of a call it is making, the state machine in one
\* of its states, and the admin rings never hold more frames than they have.
TypeOK ==
  /\ c_state \in States /\ prev \in [Threads -> States]
  /\ \A t \in Threads : pc[t] \in Steps /\ (~Running(t) => pc[t] \in {"post", "failed"})
  /\ pm \in {"awake", "entering", "entered", "exiting"}
  /\ callers \subseteq Clients /\ suspends \in 0..MaxSuspends
  /\ boot_status \subseteq {"BOOTSTRAP_DONE", "BOOT_DONE"}
  /\ complete \in [Replies -> BOOLEAN] /\ mb_locked \in BOOLEAN
  /\ synced \in BOOLEAN /\ resume_work \in BOOLEAN /\ boot_req \in BOOLEAN /\ admirq \in BOOLEAN
  /\ isr.step \in {"off", "post", "wake"} /\ isr.event \in Events \cup {"none"}
  /\ Len(atx) <= Frames /\ Len(arx) <= Frames
  /\ fw \in {"off", "up", "sc7", "dead"} /\ fwcmds \in 0..NCmds

\* The status a woken boot command reads is the answer to that command: "no
\* other command is sent in between".  Not so under a suspend that cuts a boot
\* short, or an abort, which is stored in the same place.
OwnStatus ==
  env \cap {"early_suspend", "faults"} = {} =>
    \A t \in Threads : In(t, "cmd", "answered") => ack.tag = Tag(t)

\* Callers keep out of each other's way and stay until they are answered.  (An abort
\* takes the machine out of an SC7 entry that had no memory: the system can then
\* suspend in a boot.)
Calm == env \cap {"signals", "overlap", "early_suspend"} = {} /\ ~({"faults", "nomem"} \subseteq env)

\* A woken admin RPC finds the answer to its own request at the head of the
\* ring: dce_admin_send_msg() "waits for an ack" of its message.  Nor does any
\* call start to wait with its wake-up flag left set by an earlier one, which
\* dce_wait_interruptible() clears the flag to avoid.
OwnResponse ==
  Calm =>
    \A t \in Threads :
      /\ In(t, "admin", "answered") => arx # <<>> /\ Head(arx) = Msg("admin", Tag(t))
      /\ Running(t) /\ pc[t] = "callback" /\ Head(todo[t]) # "exit" => ~complete[WaitOf(t)]

\* A state that waits for a reply has a call in progress whose reply that is:
\* the state machine is never left refusing requests on behalf of nobody, by
\* refused commands, aborts or suspends.  (The late answer of an interrupted call
\* can end the next one's wait, whose own answer then finds nobody.)
NoOrphanState ==
  env \subseteq {"faults"} /\ c_state \in Waiting =>
    \E t \in Threads :
      /\ Running(t) /\ pc[t] # "post"
      /\ Head(todo[t]) \in {"boot", "cmd", "admin", "sc7"}
      /\ StateFor(EventOf(Head(todo[t]))) = c_state

\* DCE_FW_BOOT_DONE is set only while the firmware has had, since it last
\* powered up, all boot commands, and the admin channel is established.
BootDoneIsTrue ==
  env \cap {"early_suspend", "nomem"} = {} /\ "BOOT_DONE" \in boot_status =>
    fw # "off" /\ fwcmds = NCmds /\ synced

\* An admin RPC waits only for a firmware that has had, since it powered up, its boot
\* commands, over an established channel: "do not handle admin IPC if boot commands
\* are not completed".  DCE_FW_BOOTSTRAP_DONE, which that comment's check reads, stays
\* set over a suspend; a client thawed before the resume work is kept out by the
\* look of dce_admin_send_cmd_*() at DCE_FW_BOOT_DONE alone.
AdminAfterBootCmds ==
  env \cap {"early_suspend", "nomem"} = {} =>
    \A t \in Threads : In(t, "admin", "wait") => fw # "off" /\ fwcmds = NCmds /\ synced

\* The engine is booted again and again: after every resume, too.
BootCompletes == []<>(env = {} => "BOOT_DONE" \in boot_status)

\* A system suspend runs its course and the system is back, though without its
\* display engine if there was no memory.
SuspendReturns == (pm # "awake" /\ env \subseteq {"nomem"}) ~> pm = "awake"
=============================================================================
