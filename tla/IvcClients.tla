----------------------------- MODULE IvcClients -----------------------------
(***************************************************************************)
(* An IVC channel with a client at each end that sleeps until its doorbell *)
(* rings, as the virtual block driver does: the interrupt handler queues   *)
(* vblk_request_work(), which finishes the handshake, then takes frames and*)
(* submits requests in turn until it can do neither.  Nobody polls, so a   *)
(* doorbell the protocol forgets to ring is a client that sleeps for ever. *)
(***************************************************************************)
EXTENDS IvcChannel

CONSTANTS Senders,   \* ends whose users issue requests
          MaxTodo,   \* requests waiting for a free frame
          MaxResets  \* resets in a behaviour: they must end for anything to get done

ASSUME ClientAssumption ==
  Senders \subseteq Endpoint /\ MaxTodo \in Nat /\ MaxResets \in Nat

VARIABLES work,       \* work[e]: the work item is queued
          phase,      \* phase[e]: where vblk_request_work() is
          completed,  \* completed[e]: req_completed of the current round
          todo,       \* todo[e]: requests on req_list
          resets

client == <<work, phase, completed, todo, resets>>
cvars  == <<vars, client>>

ClientInit ==
  /\ Init
  /\ work = [e \in Endpoint |-> FALSE]
  /\ phase = [e \in Endpoint |-> "off"]
  /\ completed = [e \in Endpoint |-> FALSE]
  /\ todo = [e \in Endpoint |-> 0]
  /\ resets = 0

At(e, p) == pc[e] = "idle" /\ phase[e] = p
Enter(e, p) == phase' = [phase EXCEPT ![e] = p]

-----------------------------------------------------------------------------
\* vblk_request(): a request is listed and the work queued.
vblk_request(e) ==
  /\ e \in Senders
  /\ todo[e] < MaxTodo
  /\ todo' = [todo EXCEPT ![e] = @ + 1]
  /\ work' = [work EXCEPT ![e] = TRUE]
  /\ UNCHANGED <<vars, phase, completed, resets>>

\* The driver's probe function resets the channel.
ProbeReset(e) ==
  /\ At(e, "off")
  /\ resets < MaxResets
  /\ tegra_ivc_channel_reset(e)
  /\ resets' = resets + 1
  /\ UNCHANGED <<work, phase, completed, todo>>

\* The work runs, because of the interrupt or of a new request.
StartWork(e) ==
  /\ At(e, "off")
  /\ irq[e] \/ work[e]
  /\ ReadPeerState(e)
  /\ work' = [work EXCEPT ![e] = FALSE]
  /\ Enter(e, "notified")
  /\ UNCHANGED <<completed, todo, resets>>

\* tegra_hv_ivc_channel_notified() has returned: 0 only when established.
Notified(e) ==
  /\ At(e, "notified")
  /\ Enter(e, IF state[e] = EST THEN "complete" ELSE "off")
  /\ UNCHANGED <<vars, work, completed, todo, resets>>

complete_bio_req(e) ==
  /\ At(e, "complete")
  /\ Enter(e, "submit")
  /\ completed' = [completed EXCEPT ![e] = ivc_check_read(e)]
  /\ IF ivc_check_read(e) THEN BeginRead(e) ELSE UNCHANGED vars
  /\ UNCHANGED <<work, todo, resets>>

submit_bio_req(e) ==
  /\ At(e, "submit")
  /\ IF ivc_check_write(e) /\ todo[e] > 0
       THEN /\ BeginWrite(e)
            /\ todo' = [todo EXCEPT ![e] = @ - 1]
            /\ Enter(e, "complete")
       ELSE /\ Enter(e, IF completed[e] THEN "complete" ELSE "off")
            /\ UNCHANGED <<vars, todo>>
  /\ UNCHANGED <<work, completed, resets>>

\* The rest of the channel call in progress.
Continue(e) ==
  /\ \/ ClearOnSync(e) \/ ClearOnAck(e) \/ MoveToAck(e) \/ MoveToEst(e) \/ NoFurtherAction(e)
     \/ (\E v \in Payload : Fill(e, v)) \/ ivc_advance_tx(e) \/ TxNotify(e)
     \/ Copy(e) \/ ivc_advance_rx(e) \/ RxNotify(e)
  /\ UNCHANGED client

Run(e) == \/ StartWork(e) \/ Notified(e) \/ complete_bio_req(e) \/ submit_bio_req(e)
          \/ Continue(e)

ClientNext == \E e \in Endpoint : vblk_request(e) \/ (MayReset(e) /\ ProbeReset(e)) \/ Run(e)

\* The workqueue runs queued work and lets it finish; requests and resets are
\* up to the outside.
ClientSpec == ClientInit /\ [][ClientNext]_cvars /\ \A e \in Endpoint : WF_cvars(Run(e))

-----------------------------------------------------------------------------
\* Once resets stop, the handshake of tegra_ivc_channel_notified() leaves both
\* ends established for good, driven by doorbells alone.
HandshakeCompletes == <>[](state[A] = EST /\ state[B] = EST)

\* A frame the writer has advanced past is taken by the sleeping reader or
\* discarded by a reset: ivc_write_frame() rings whenever it must.
FramesTaken ==
  \A e \in Endpoint : (ivc_channel_avail_count(e) > 0 /\ ~HalfCleared)
                      ~> (pc[Peer(e)] = "rx_notify" \/ HalfCleared)

\* A request that found the ring full is sent once there is room:
\* ivc_read_frame() rings the writer that may be waiting.
RequestsSent == \A e \in Endpoint : todo[e] = MaxTodo ~> todo[e] < MaxTodo

=============================================================================
