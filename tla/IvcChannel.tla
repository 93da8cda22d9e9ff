----------------------------- MODULE IvcChannel -----------------------------
(***************************************************************************)
(* The Inter-VM Communication channel of drivers/platform/tegra/           *)
(* tegra-ivc.c: two endpoints, two single-producer single-consumer rings   *)
(* in shared memory, a doorbell each way, and the SYNC/ACK/ESTABLISHED     *)
(* handshake that resets the rings.                                        *)
(*                                                                         *)
(* An endpoint runs one call at a time (its clients hold a lock around     *)
(* every tegra_ivc_ call, e.g. ch->lock in dce-ipc.c), but a call is       *)
(* several steps and the peer's steps come in between.  A step is what the *)
(* code does between two accesses to memory the peer writes; pc[e] names   *)
(* the next step of the call endpoint e is in.                             *)
(***************************************************************************)
EXTENDS Integers, Sequences

CONSTANTS A, B,        \* the two endpoints
          Nframes,     \* ivc->nframes
          CounterMod,  \* 2^32: the counters are uint32_t
          Payload,     \* what a frame may hold
          NoPayload,   \* no frame copied out
          Resetters,   \* endpoints whose client calls tegra_ivc_channel_reset()
          Rebooters,   \* endpoints that may be rebooted (tegra_hv_add_ivc())
          HastyReset   \* may a client reset while its peer is in the ACK state?

Endpoint == {A, B}

ASSUME EndpointAssumption == A # B /\ Resetters \subseteq Endpoint
                                   /\ Rebooters \subseteq Endpoint
ASSUME SizeAssumption == /\ Nframes \in Nat \ {0}
                         /\ CounterMod \in Nat
                         /\ CounterMod > 2 * Nframes
ASSUME PayloadAssumption == NoPayload \notin Payload /\ Payload # {}
ASSUME HastyAssumption == HastyReset \in BOOLEAN

VARIABLES w_count,  \* w_count[e]: of e's transmit channel, written by e
          r_count,  \* r_count[e]: of e's receive channel, written by e
          state,    \* state[e]: of e's transmit channel, written by e
          frame,    \* frame[e]: the slots of e's transmit channel
          w_pos, r_pos,  \* local to each endpoint
          pc,       \* next step of the call in progress
          buf,      \* the frame copied out by the read in progress
          irq       \* irq[e]: e has been notified and has not looked yet

shm   == <<w_count, r_count, state, frame>>
local == <<w_pos, r_pos, pc, buf>>
vars  == <<shm, local, irq>>

Peer(e) == IF e = A THEN B ELSE A

EST  == "established"
SYNC == "sync"
ACK  == "ack"

\* Snapshots of the peer's state, and the steps of the calls.
Saw(s) == CASE s = EST -> "saw_est" [] s = SYNC -> "saw_sync" [] s = ACK -> "saw_ack"
Steps == {"idle", "saw_est", "saw_sync", "saw_ack", "to_ack", "to_est",
          "fill", "advance_tx", "tx_notify", "copy", "advance_rx", "rx_notify"}

-----------------------------------------------------------------------------
(* uint32_t arithmetic, and the ring positions.                            *)

U32Sub(x, y) == IF x >= y THEN x - y ELSE x - y + CounterMod
U32Inc(x)    == IF x = CounterMod - 1 THEN 0 ELSE x + 1
PosIncLate(p) == IF p = Nframes THEN 0 ELSE p + 1  \* mutant: wraps one slot late
PosInc(p)    == IF p = Nframes - 1 THEN 0 ELSE p + 1

\* Frames in flight from e to its peer, as the counters tell it.
ivc_channel_avail_count(e) == U32Sub(w_count[e], r_count[Peer(e)])

ivc_channel_empty(e) == \/ ivc_channel_avail_count(e) > Nframes
                        \/ ivc_channel_avail_count(e) = 0

\* Mutant: accepts one frame more than there are slots.
ivc_channel_full_late(e) == ivc_channel_avail_count(e) > Nframes

ivc_channel_full(e) == ivc_channel_avail_count(e) >= Nframes

\* Mutant: reads whatever the local state.
ivc_check_read_any(e) == ~ivc_channel_empty(Peer(e))

\* Both return 0 only in the established state.
ivc_check_read(e)  == state[e] = EST /\ ~ivc_channel_empty(Peer(e))
ivc_check_write(e) == state[e] = EST /\ ~ivc_channel_full(e)

Goto(e, from, to) == pc[e] = from /\ pc' = [pc EXCEPT ![e] = to]

\* ivc->notify(): the peer's interrupt becomes pending.
notify(e) == irq' = [irq EXCEPT ![Peer(e)] = TRUE]

-----------------------------------------------------------------------------
(* tegra_ivc_channel_reset(): one store, then the doorbell.                *)

tegra_ivc_channel_reset(e) ==
  /\ pc[e] = "idle"
  /\ state' = [state EXCEPT ![e] = SYNC]
  /\ notify(e)
  /\ UNCHANGED <<w_count, r_count, frame, local>>

-----------------------------------------------------------------------------
(* tegra_ivc_channel_notified().  Callers run it on an interrupt and poll  *)
(* with it, so it may start whenever the endpoint is idle.                 *)

ReadPeerState(e) ==
  /\ Goto(e, "idle", Saw(state[Peer(e)]))
  /\ irq' = [irq EXCEPT ![e] = FALSE]
  /\ UNCHANGED <<shm, w_pos, r_pos, buf>>

\* Mutant: forgets the local read position.
ClearCountersKeepPos(e) ==
  /\ w_count' = [w_count EXCEPT ![e] = 0]
  /\ r_count' = [r_count EXCEPT ![e] = 0]
  /\ w_pos' = [w_pos EXCEPT ![e] = 0]
  /\ UNCHANGED <<r_pos, state, frame, buf, irq>>

ClearCounters(e) ==
  /\ w_count' = [w_count EXCEPT ![e] = 0]
  /\ r_count' = [r_count EXCEPT ![e] = 0]
  /\ w_pos' = [w_pos EXCEPT ![e] = 0]
  /\ r_pos' = [r_pos EXCEPT ![e] = 0]
  /\ UNCHANGED <<state, frame, buf, irq>>

ClearOnSync(e) == Goto(e, "saw_sync", "to_ack") /\ ClearCounters(e)

ClearOnAck(e) == /\ state[e] = SYNC
                 /\ Goto(e, "saw_ack", "to_est")
                 /\ ClearCounters(e)

StoreState(e, s) ==
  /\ state' = [state EXCEPT ![e] = s]
  /\ notify(e)
  /\ UNCHANGED <<w_count, r_count, frame, w_pos, r_pos, buf>>

\* Mutant: acknowledges without ringing the peer.
MoveToAckSilent(e) ==
  /\ Goto(e, "to_ack", "idle")
  /\ state' = [state EXCEPT ![e] = ACK]
  /\ UNCHANGED <<w_count, r_count, frame, w_pos, r_pos, buf, irq>>

MoveToAck(e) == Goto(e, "to_ack", "idle") /\ StoreState(e, ACK)

\* Mutant: the SYNC/EST row of the transition table establishes the channel.
MoveToEstEarly(e) ==
  /\ \/ Goto(e, "to_est", "idle")
     \/ state[e] = ACK /\ Goto(e, "saw_ack", "idle")
     \/ state[e] # EST /\ Goto(e, "saw_est", "idle")
  /\ StoreState(e, EST)

MoveToEst(e) ==
  /\ \/ Goto(e, "to_est", "idle")
     \/ state[e] = ACK /\ (Goto(e, "saw_ack", "idle") \/ Goto(e, "saw_est", "idle"))
  /\ StoreState(e, EST)

NoFurtherAction(e) ==
  /\ \/ state[e] = EST /\ Goto(e, "saw_ack", "idle")
     \/ state[e] # ACK /\ Goto(e, "saw_est", "idle")
  /\ UNCHANGED <<shm, w_pos, r_pos, buf, irq>>

tegra_ivc_channel_notified(e) ==
  \/ ReadPeerState(e) \/ ClearOnSync(e) \/ ClearOnAck(e)
  \/ MoveToAck(e) \/ MoveToEst(e) \/ NoFurtherAction(e)

-----------------------------------------------------------------------------
(* tegra_ivc_write(), or write_get_next_frame() then write_advance().      *)

BeginWrite(e) ==
  /\ ivc_check_write(e)
  /\ Goto(e, "idle", "fill")
  /\ UNCHANGED <<shm, w_pos, r_pos, buf, irq>>

Fill(e, v) ==
  /\ Goto(e, "fill", "advance_tx")
  /\ frame' = [frame EXCEPT ![e][w_pos[e]] = v]
  /\ UNCHANGED <<w_count, r_count, state, w_pos, r_pos, buf, irq>>

ivc_advance_tx(e) ==
  /\ Goto(e, "advance_tx", "tx_notify")
  /\ w_count' = [w_count EXCEPT ![e] = U32Inc(@)]
  /\ w_pos' = [w_pos EXCEPT ![e] = PosInc(@)]
  /\ UNCHANGED <<r_count, state, frame, r_pos, buf, irq>>

\* Mutant: compares with the count from before the advance.
TxNotifyStale(e) ==
  /\ Goto(e, "tx_notify", "idle")
  /\ IF ivc_channel_avail_count(e) = 0 THEN notify(e) ELSE UNCHANGED irq
  /\ UNCHANGED <<shm, w_pos, r_pos, buf>>

\* Notify only on the transition from empty to non-empty.
TxNotify(e) ==
  /\ Goto(e, "tx_notify", "idle")
  /\ IF ivc_channel_avail_count(e) = 1 THEN notify(e) ELSE UNCHANGED irq
  /\ UNCHANGED <<shm, w_pos, r_pos, buf>>

tegra_ivc_write(e) ==
  \/ BeginWrite(e) \/ ivc_advance_tx(e) \/ TxNotify(e)
  \/ \E v \in Payload : Fill(e, v)

-----------------------------------------------------------------------------
(* tegra_ivc_read(), or read_get_next_frame() then read_advance().         *)

BeginRead(e) ==
  /\ ivc_check_read(e)
  /\ Goto(e, "idle", "copy")
  /\ UNCHANGED <<shm, w_pos, r_pos, buf, irq>>

Copy(e) ==
  /\ Goto(e, "copy", "advance_rx")
  /\ buf' = [buf EXCEPT ![e] = frame[Peer(e)][r_pos[e]]]
  /\ UNCHANGED <<shm, w_pos, r_pos, irq>>

ivc_advance_rx(e) ==
  /\ Goto(e, "advance_rx", "rx_notify")
  /\ r_count' = [r_count EXCEPT ![e] = U32Inc(@)]
  /\ r_pos' = [r_pos EXCEPT ![e] = PosInc(@)]
  /\ buf' = [buf EXCEPT ![e] = NoPayload]
  /\ UNCHANGED <<w_count, state, frame, w_pos, irq>>

\* Mutant: compares with the count from before the advance.
RxNotifyStale(e) ==
  /\ Goto(e, "rx_notify", "idle")
  /\ IF ivc_channel_avail_count(Peer(e)) = Nframes THEN notify(e) ELSE UNCHANGED irq
  /\ UNCHANGED <<shm, w_pos, r_pos, buf>>

\* Notify only on the transition from full to non-full.
RxNotify(e) ==
  /\ Goto(e, "rx_notify", "idle")
  /\ IF ivc_channel_avail_count(Peer(e)) = Nframes - 1 THEN notify(e) ELSE UNCHANGED irq
  /\ UNCHANGED <<shm, w_pos, r_pos, buf>>

tegra_ivc_read(e) ==
  \/ BeginRead(e) \/ Copy(e) \/ ivc_advance_rx(e) \/ RxNotify(e)

-----------------------------------------------------------------------------
(* A call that advances nothing: -EFAULT from the user copy, or            *)
(* tegra_ivc_read_peek() and tegra_ivc_write_poke().                       *)

Abandon(e) ==
  /\ \E step \in {"fill", "advance_tx", "copy", "advance_rx"} : Goto(e, step, "idle")
  /\ buf' = [buf EXCEPT ![e] = NoPayload]
  /\ UNCHANGED <<shm, w_pos, r_pos, irq>>

(* The guest reboots: tegra_hv_add_ivc() runs tegra_ivc_init() and then    *)
(* tegra_ivc_channel_sync(), which recovers the positions from the counters*)
(* left in shared memory.                                                  *)

\* Mutant: tegra_ivc_init() alone, positions back at zero.
NoChannelSync(e) ==
  /\ w_pos' = [w_pos EXCEPT ![e] = 0]
  /\ r_pos' = [r_pos EXCEPT ![e] = 0]

tegra_ivc_channel_sync(e) ==
  /\ w_pos' = [w_pos EXCEPT ![e] = w_count[e] % Nframes]
  /\ r_pos' = [r_pos EXCEPT ![e] = r_count[e] % Nframes]

Reboot(e) ==
  /\ e \in Rebooters
  /\ tegra_ivc_channel_sync(e)
  /\ pc' = [pc EXCEPT ![e] = "idle"]
  /\ buf' = [buf EXCEPT ![e] = NoPayload]
  /\ UNCHANGED <<shm, irq>>

-----------------------------------------------------------------------------
\* Shared memory starts zeroed, which is the established state.
Init ==
  /\ w_count = [e \in Endpoint |-> 0]
  /\ r_count = [e \in Endpoint |-> 0]
  /\ state = [e \in Endpoint |-> EST]
  /\ frame \in [Endpoint -> {[i \in 0..(Nframes - 1) |-> v] : v \in Payload}]
  /\ w_pos = [e \in Endpoint |-> 0]
  /\ r_pos = [e \in Endpoint |-> 0]
  /\ pc = [e \in Endpoint |-> "idle"]
  /\ buf = [e \in Endpoint |-> NoPayload]
  /\ irq = [e \in Endpoint |-> FALSE]

\* When clients reset a channel is up to them: no code of the channel asks.
MayReset(e) == e \in Resetters /\ (HastyReset \/ ACK \notin {state[A], state[B]})
ClientResets(e) == MayReset(e) /\ tegra_ivc_channel_reset(e)

Step(e) == ClientResets(e) \/ tegra_ivc_channel_notified(e)
           \/ tegra_ivc_write(e) \/ tegra_ivc_read(e) \/ Abandon(e) \/ Reboot(e)

Next == \E e \in Endpoint : Step(e)

Spec == Init /\ [][Next]_vars

-----------------------------------------------------------------------------
(* Properties.                                                             *)

\* Every variable keeps its type: counters stay 32-bit and positions stay
\* inside the ring, whatever ivc_advance_tx/rx and the resets do.
TypeOK ==
  /\ w_count \in [Endpoint -> 0..(CounterMod - 1)]
  /\ r_count \in [Endpoint -> 0..(CounterMod - 1)]
  /\ state \in [Endpoint -> {EST, SYNC, ACK}]
  /\ frame \in [Endpoint -> [0..(Nframes - 1) -> Payload]]
  /\ w_pos \in [Endpoint -> 0..(Nframes - 1)]
  /\ r_pos \in [Endpoint -> 0..(Nframes - 1)]
  /\ pc \in [Endpoint -> Steps]
  /\ buf \in [Endpoint -> Payload \cup {NoPayload}]
  /\ irq \in [Endpoint -> BOOLEAN]

\* The writer of a frame (ivc_write_frame) and the reader of a frame
\* (ivc_read_frame) never work on the same slot at the same time.
NoFrameRace ==
  \A e \in Endpoint : (pc[e] \in {"fill", "advance_tx"}
                         /\ pc[Peer(e)] \in {"copy", "advance_rx"})
                      => w_pos[e] # r_pos[Peer(e)]

\* The frames sent by e that its peer has not taken, oldest first, as the
\* peer's own position and the two counters locate them.
InFlight(e) ==
  [i \in 1..ivc_channel_avail_count(e) |-> frame[e][(r_pos[Peer(e)] + i - 1) % Nframes]]

\* The frame copied out is the oldest one in flight when the read advances
\* past it (ivc_read_frame): nothing was reset or overwritten under the copy.
CopiedInOrder ==
  \A e \in Endpoint :
    pc[e] = "advance_rx" => /\ ivc_channel_avail_count(Peer(e)) \in 1..Nframes
                            /\ buf[e] = InFlight(Peer(e))[1]

\* About to clear its counters because of the peer state it has read.
Clearing(e) == pc[e] = "saw_sync" \/ (pc[e] = "saw_ack" /\ state[e] = SYNC)

\* tegra_ivc_channel_notified clears counters only when "the counters are not
\* in use": the peer is not established, or there is nothing left to clear.
CountersNotInUse ==
  \A e \in Endpoint :
    Clearing(e) => \/ state[Peer(e)] # EST
                   \/ w_count[e] = 0 /\ r_count[e] = 0

\* Between one end's clear and the other's, the counters of the two ends do
\* not belong to the same session.
HalfCleared ==
  \E e \in Endpoint : /\ state[e] = ACK \/ pc[e] = "to_ack"
                      /\ state[Peer(e)] = SYNC /\ pc[Peer(e)] # "to_est"

Queue == INSTANCE IvcQueue
  WITH queue <- [e \in Endpoint |-> IF HalfCleared THEN <<>> ELSE InFlight(e)]

\* The two rings implement two bounded FIFO queues that only a reset handshake
\* empties, both at once.
QueueSpec == Queue!Spec

\* While both ends are established every frame counter is at least its reader's:
\* what safe_subtract_u32() demands when tegra_ivc_tx_frames_available() is called.
SubtractionSafe ==
  \A e \in Endpoint : (state[A] = EST /\ state[B] = EST)
                      => w_count[e] >= r_count[Peer(e)]

\* Across reboots, the two ends of an established channel agree where the
\* unread frames are: the writer is exactly the frames in flight ahead.
PositionsAgree ==
  (state[A] = EST /\ state[B] = EST /\ ~\E e \in Endpoint : pc[e] \in {"saw_sync", "to_ack"})
    => \A e \in Endpoint :
         w_pos[e] = (r_pos[Peer(e)] + ivc_channel_avail_count(e)) % Nframes

=============================================================================
