-------------------------- MODULE IvcChannelProofs --------------------------
(***************************************************************************)
(* Theorems about the IVC channel, for every ring size, every counter      *)
(* range and every choice of resetting and rebooting ends.                 *)
(***************************************************************************)
EXTENDS IvcChannel, SequenceTheorems, TLAPS

\* A peer is the other endpoint.
LEMMA PeerFacts ==
  \A e \in Endpoint : Peer(e) \in Endpoint /\ Peer(e) # e /\ Peer(Peer(e)) = e
BY EndpointAssumption DEF Endpoint, Peer

\* The counters and positions stay in range when they are advanced.
LEMMA IncInRange ==
  /\ \A x \in 0..(CounterMod - 1) : U32Inc(x) \in 0..(CounterMod - 1)
  /\ \A p \in 0..(Nframes - 1) : PosInc(p) \in 0..(Nframes - 1)
BY SizeAssumption DEF U32Inc, PosInc

\* The position tegra_ivc_channel_sync() recovers lies inside the ring.
LEMMA SyncInRange ==
  \A x \in 0..(CounterMod - 1) : x % Nframes \in 0..(Nframes - 1)
BY SizeAssumption

\* Every variable keeps its type under the whole protocol: counters stay in
\* uint32_t, ring positions inside the ring, across resets and reboots.
THEOREM TypeCorrect == Spec => []TypeOK
<1>1. Init => TypeOK
  BY SizeAssumption DEF Init, TypeOK, Steps, EST
<1>2. TypeOK /\ [Next]_vars => TypeOK'
  <2> SUFFICES ASSUME TypeOK, [Next]_vars PROVE TypeOK'
    OBVIOUS
  <2> USE PeerFacts, SizeAssumption DEF TypeOK, Steps, shm, local
  <2>1. CASE UNCHANGED vars
    BY <2>1 DEF vars
  <2>2. ASSUME NEW e \in Endpoint, Step(e) PROVE TypeOK'
    <3>1. CASE ClientResets(e)
      BY <3>1 DEF ClientResets, tegra_ivc_channel_reset, notify
    <3>2. CASE ReadPeerState(e)
      <4>1. Saw(state[Peer(e)]) \in {"saw_est", "saw_sync", "saw_ack"}
        BY DEF Saw, EST, SYNC, ACK
      <4> QED BY <3>2, <4>1 DEF ReadPeerState, Goto
    <3>3. CASE ClearOnSync(e) \/ ClearOnAck(e)
      <4>1. ClearCounters(e) /\ \E s \in Steps : pc' = [pc EXCEPT ![e] = s]
        BY <3>3 DEF ClearOnSync, ClearOnAck, Goto
      <4>2. 0 \in 0..(CounterMod - 1) /\ 0 \in 0..(Nframes - 1)
        OBVIOUS
      <4> QED BY <4>1, <4>2 DEF ClearCounters
    <3>4. CASE MoveToAck(e) \/ MoveToEst(e)
      BY <3>4 DEF MoveToAck, MoveToEst, StoreState, Goto, notify
    <3>5. CASE NoFurtherAction(e)
      BY <3>5 DEF NoFurtherAction, Goto
    <3>6. CASE BeginWrite(e) \/ BeginRead(e)
      BY <3>6 DEF BeginWrite, BeginRead, Goto
    <3>7. ASSUME NEW v \in Payload, Fill(e, v) PROVE TypeOK'
      BY <3>7 DEF Fill, Goto
    <3>8. CASE ivc_advance_tx(e)
      BY <3>8, IncInRange DEF ivc_advance_tx, Goto
    <3>9. CASE TxNotify(e) \/ RxNotify(e)
      BY <3>9, ZenonT(40) DEF TxNotify, RxNotify, Goto, notify
    <3>10. CASE Copy(e)
      BY <3>10 DEF Copy, Goto
    <3>11. CASE ivc_advance_rx(e)
      BY <3>11, IncInRange DEF ivc_advance_rx, Goto
    <3>12. CASE Abandon(e)
      BY <3>12 DEF Abandon, Goto
    <3>13. CASE Reboot(e)
      <4>1. w_count[e] % Nframes \in 0..(Nframes - 1)
            /\ r_count[e] % Nframes \in 0..(Nframes - 1)
        BY SyncInRange
      <4> QED BY <3>13, <4>1 DEF Reboot, tegra_ivc_channel_sync
    <3> QED BY <2>2, <3>1, <3>2, <3>3, <3>4, <3>5, <3>6, <3>7, <3>8, <3>9, <3>10,
               <3>11, <3>12, <3>13
            DEF Step, tegra_ivc_channel_notified, tegra_ivc_write, tegra_ivc_read
  <2> QED BY <2>1, <2>2 DEF Next
<1> QED BY <1>1, <1>2, PTL DEF Spec

-----------------------------------------------------------------------------
(***************************************************************************)
(* Safety of the rings under the reset handshake.  The client discipline:  *)
(* no reset while an end is in ACK, and no reboot.                         *)
(***************************************************************************)
Disciplined == ~HastyReset /\ Rebooters = {}

DataSteps == {"fill", "advance_tx", "tx_notify", "copy", "advance_rx", "rx_notify"}

Zero(e) == w_count[e] = 0 /\ r_count[e] = 0 /\ w_pos[e] = 0 /\ r_pos[e] = 0

\* An end that acknowledges, or that is about to, has cleared what it owns.
AckIsZero == \A e \in Endpoint :
  state[e] = ACK \/ pc[e] \in {"to_ack", "to_est"} => Zero(e)

\* Where the peer can be, given what this end has read of it.
Handshake == \A e \in Endpoint :
  /\ pc[e] \in DataSteps => state[e] = EST
  /\ pc[e] = "to_est" => state[e] = SYNC
  /\ Clearing(e) \/ pc[e] \in {"to_ack", "to_est"}
       => state[Peer(e)] # EST \/ state[e] = ACK
  /\ pc[e] \in {"saw_ack", "to_est"} /\ state[e] = SYNC => state[Peer(e)] = ACK
  /\ state[e] = ACK /\ pc[e] \in {"saw_est", "saw_ack"} => state[Peer(e)] # SYNC
  /\ pc[e] \in {"saw_sync", "to_ack"} /\ state[e] = EST => state[Peer(e)] = SYNC
  /\ state[e] = SYNC /\ state[Peer(e)] = EST => pc[e] \in {"idle", "saw_est"}

\* The writer is the frames in flight ahead of the reader, modulo the ring.
Ring(e) ==
  /\ ivc_channel_avail_count(e) <= Nframes
  /\ \/ w_pos[e] = r_pos[Peer(e)] + ivc_channel_avail_count(e)
     \/ w_pos[e] = r_pos[Peer(e)] + ivc_channel_avail_count(e) - Nframes

Rings == ~HalfCleared => \A e \in Endpoint : Ring(e)

\* What ivc_check_write and ivc_check_read found still holds when it is used.
Checked == \A e \in Endpoint :
  /\ pc[e] \in {"fill", "advance_tx"} => ivc_channel_avail_count(e) < Nframes
  /\ pc[e] \in {"copy", "advance_rx"} => ivc_channel_avail_count(Peer(e)) >= 1
  /\ pc[e] = "advance_rx" => buf[e] = frame[Peer(e)][r_pos[e]]

IndInv == TypeOK /\ AckIsZero /\ Handshake /\ Rings /\ Checked

-----------------------------------------------------------------------------
\* There are two endpoints.
LEMMA OneOrOther ==
  \A e \in Endpoint : \A x \in Endpoint : x = e \/ x = Peer(e)
BY DEF Endpoint, Peer

\* Modular subtraction counts exactly across one increment on either side,
\* as long as fewer than CounterMod frames are in flight.
LEMMA AvailSteps ==
  ASSUME NEW w \in 0..(CounterMod - 1), NEW r \in 0..(CounterMod - 1)
  PROVE  /\ U32Sub(w, r) \in 0..(CounterMod - 1)
         /\ U32Sub(w, r) < Nframes => U32Sub(U32Inc(w), r) = U32Sub(w, r) + 1
         /\ U32Sub(w, r) >= 1 => U32Sub(w, U32Inc(r)) = U32Sub(w, r) - 1
         /\ w = 0 /\ r = 0 => U32Sub(w, r) = 0
BY SizeAssumption DEF U32Sub, U32Inc

\* A step of end e keeps the handshake facts.
LEMMA HandshakeStep ==
  ASSUME IndInv, Disciplined, NEW e \in Endpoint, Step(e)
  PROVE  AckIsZero' /\ Handshake'
<1> USE PeerFacts, OneOrOther DEF IndInv, TypeOK, Steps, shm, local, AckIsZero,
      Handshake, Clearing, DataSteps, Zero, EST, SYNC, ACK
<1>1. CASE ClientResets(e)
  BY <1>1 DEF ClientResets, MayReset, tegra_ivc_channel_reset, Disciplined, Endpoint
<1>2. CASE ReadPeerState(e)
  BY <1>2 DEF ReadPeerState, Goto, Saw
<1>3. CASE ClearOnSync(e)
  BY <1>3 DEF ClearOnSync, ClearCounters, Goto
<1>4. CASE ClearOnAck(e)
  BY <1>4 DEF ClearOnAck, ClearCounters, Goto
<1>5. CASE MoveToAck(e)
  BY <1>5 DEF MoveToAck, StoreState, Goto
<1>6. CASE MoveToEst(e)
  BY <1>6 DEF MoveToEst, StoreState, Goto
<1>7. CASE NoFurtherAction(e)
  <2>1. pc' = [pc EXCEPT ![e] = "idle"] /\ UNCHANGED <<shm, w_pos, r_pos>>
    BY <1>7 DEF NoFurtherAction, Goto
  <2> QED BY <2>1
<1>8. CASE BeginWrite(e) \/ BeginRead(e)
  <2>1. /\ state[e] = EST /\ UNCHANGED <<shm, w_pos, r_pos>>
        /\ \E step \in {"fill", "copy"} : pc' = [pc EXCEPT ![e] = step]
    BY <1>8 DEF BeginWrite, BeginRead, ivc_check_write, ivc_check_read, Goto
  <2> QED BY <2>1
<1>9. CASE \E v \in Payload : Fill(e, v)
  BY <1>9 DEF Fill, Goto
<1>10. CASE ivc_advance_tx(e)
  BY <1>10 DEF ivc_advance_tx, Goto
<1>11. CASE TxNotify(e) \/ RxNotify(e)
  <2>1. pc' = [pc EXCEPT ![e] = "idle"] /\ UNCHANGED <<shm, w_pos, r_pos>>
    BY <1>11 DEF TxNotify, RxNotify, Goto
  <2> QED BY <2>1
<1>12. CASE Copy(e)
  BY <1>12 DEF Copy, Goto
<1>13. CASE ivc_advance_rx(e)
  BY <1>13 DEF ivc_advance_rx, Goto
<1>14. CASE Abandon(e)
  BY <1>14 DEF Abandon, Goto
<1>15. ~Reboot(e)
  BY DEF Reboot, Disciplined
<1> QED BY <1>1, <1>2, <1>3, <1>4, <1>5, <1>6, <1>7, <1>8, <1>9, <1>10, <1>11,
           <1>12, <1>13, <1>14, <1>15
        DEF Step, tegra_ivc_channel_notified, tegra_ivc_write, tegra_ivc_read

\* An established end that is not acknowledging shares a session with its peer.
LEMMA EstIsCoherent ==
  ASSUME TypeOK, NEW e \in Endpoint, state[e] = EST, pc[e] # "to_ack"
  PROVE  ~HalfCleared
BY PeerFacts, OneOrOther DEF HalfCleared, EST, SYNC, ACK, TypeOK

\* A step of end e keeps the rings consistent outside the clearing window.
LEMMA RingsStep ==
  ASSUME IndInv, Disciplined, NEW e \in Endpoint, Step(e)
  PROVE  Rings'
<1> DEFINE Same == UNCHANGED <<w_count, r_count, w_pos, r_pos>>
<1> USE PeerFacts, OneOrOther, SizeAssumption DEF shm, local
<1>1. ASSUME Same, ~HalfCleared' => ~HalfCleared PROVE Rings'
  BY <1>1 DEF IndInv, Rings, Ring, ivc_channel_avail_count
<1>2. ASSUME AckIsZero', state'[e] = ACK \/ pc'[e] \in {"to_ack", "to_est"},
             state'[Peer(e)] = ACK
      PROVE  Rings'
  <2>1. \A x \in Endpoint : Zero(x)' /\ Zero(Peer(x))'
    BY <1>2 DEF AckIsZero
  <2>2. U32Sub(0, 0) = 0
    BY DEF U32Sub
  <2> QED BY <2>1, <2>2 DEF Rings, Zero, Ring, ivc_channel_avail_count
<1> USE DEF HalfCleared, EST, SYNC, ACK
<1>3. CASE ClientResets(e)
  <2>1. ~HalfCleared' => ~HalfCleared
    BY <1>3 DEF ClientResets, MayReset, tegra_ivc_channel_reset, IndInv, TypeOK, Handshake,
       Disciplined, Endpoint
  <2> QED BY <1>3, <1>1, <2>1 DEF ClientResets, tegra_ivc_channel_reset
<1>4. CASE ReadPeerState(e)
  <2>1. ~HalfCleared' => ~HalfCleared
    <3>1. Saw(state[Peer(e)]) \in {"saw_est", "saw_sync", "saw_ack"}
      BY DEF Saw, IndInv, TypeOK
    <3>2. /\ state' = state /\ pc'[Peer(e)] = pc[Peer(e)]
          /\ pc[e] = "idle" /\ pc'[e] \in {"saw_est", "saw_sync", "saw_ack"}
      BY <1>4, <3>1 DEF ReadPeerState, Goto, IndInv, TypeOK
    <3> QED BY <3>2
  <2> QED BY <1>4, <1>1, <2>1 DEF ReadPeerState
<1>5. CASE ClearOnSync(e)
  <2>1. CASE state[e] = ACK
    <3>1. Same
      BY <1>5, <2>1 DEF ClearOnSync, ClearCounters, IndInv, AckIsZero, Zero, TypeOK
    <3>2. ~HalfCleared' => ~HalfCleared
      BY <1>5, <2>1 DEF ClearOnSync, ClearCounters, Goto, IndInv, TypeOK
    <3> QED BY <3>1, <3>2, <1>1
  <2>2. CASE state[e] # ACK
    <3>1. /\ pc'[e] = "to_ack" /\ state' = state
          /\ pc'[Peer(e)] = pc[Peer(e)]
      BY <1>5 DEF ClearOnSync, ClearCounters, Goto, IndInv, TypeOK
    <3>2. /\ state[e] \in {EST, SYNC}
          /\ state[Peer(e)] = SYNC \/ (state[e] = SYNC /\ state[Peer(e)] = ACK)
          /\ pc[Peer(e)] # "to_est" \/ state[Peer(e)] # SYNC
      BY <1>5, <2>2 DEF ClearOnSync, Goto, IndInv, TypeOK, Handshake, Clearing
    <3>3. HalfCleared'
      BY <3>1, <3>2
    <3> QED BY <3>3 DEF Rings
  <2> QED BY <2>1, <2>2
<1>6. CASE ClearOnAck(e)
  <2>1. state'[Peer(e)] = ACK /\ pc'[e] = "to_est"
    BY <1>6 DEF ClearOnAck, ClearCounters, Goto, IndInv, TypeOK, Handshake
  <2> QED BY <2>1, <1>2, HandshakeStep
<1>7. CASE MoveToAck(e)
  <2>1. state'[e] = ACK /\ Same
    BY <1>7 DEF MoveToAck, StoreState, Goto, IndInv, TypeOK
  <2>2. CASE state[Peer(e)] = ACK
    <3>1. state'[Peer(e)] = ACK
      BY <1>7, <2>2 DEF MoveToAck, StoreState, IndInv, TypeOK
    <3> QED BY <2>1, <3>1, <1>2, HandshakeStep
  <2>3. CASE state[Peer(e)] # ACK
    <3>1. ~HalfCleared' => ~HalfCleared
      <4>1. /\ pc[e] = "to_ack" /\ pc'[e] = "idle" /\ state'[e] = ACK
            /\ state'[Peer(e)] = state[Peer(e)] /\ pc'[Peer(e)] = pc[Peer(e)]
        BY <1>7 DEF MoveToAck, StoreState, Goto, IndInv, TypeOK
      <4>2. state[Peer(e)] \in {EST, SYNC, ACK} /\ state[e] \in {EST, SYNC, ACK}
        BY DEF IndInv, TypeOK
      <4>3. state[Peer(e)] = EST => state[e] = ACK
        BY <4>1 DEF IndInv, Handshake
      <4> QED BY <2>3, <4>1, <4>2, <4>3
    <3> QED BY <2>1, <3>1, <1>1
  <2> QED BY <2>2, <2>3
<1>8. CASE MoveToEst(e)
  <2>1. ~HalfCleared
    <3>1. \/ pc[e] = "to_est"
          \/ state[e] = ACK /\ pc[e] \in {"saw_ack", "saw_est"}
      BY <1>8 DEF MoveToEst, Goto
    <3>2. \/ pc[e] = "to_est" /\ state[e] = SYNC
          \/ state[e] = ACK /\ state[Peer(e)] # SYNC
      BY <3>1 DEF IndInv, Handshake
    <3> QED BY <3>2
  <2> QED BY <1>8, <2>1, <1>1 DEF MoveToEst, StoreState
<1>9. CASE NoFurtherAction(e) \/ TxNotify(e) \/ RxNotify(e) \/ Abandon(e)
           \/ Copy(e) \/ (\E v \in Payload : Fill(e, v))
  <2>1. Same /\ state' = state /\ pc[e] # "to_ack"
        /\ \E step \in {"idle", "advance_tx", "advance_rx"} : pc' = [pc EXCEPT ![e] = step]
    BY <1>9 DEF NoFurtherAction, TxNotify, RxNotify, Abandon, Copy, Fill, Goto
  <2>2. ~HalfCleared' => ~HalfCleared
    BY <2>1 DEF IndInv, TypeOK
  <2> QED BY <2>1, <2>2, <1>1
<1>10. CASE BeginWrite(e) \/ BeginRead(e)
  <2>1. Same /\ state[e] = EST /\ pc[e] = "idle"
    BY <1>10 DEF BeginWrite, BeginRead, ivc_check_write, ivc_check_read, Goto
  <2> QED BY <2>1, <1>1, EstIsCoherent DEF IndInv
<1>11. CASE ivc_advance_tx(e)
  <2>1. ~HalfCleared /\ ivc_channel_avail_count(e) < Nframes
    BY <1>11, EstIsCoherent DEF ivc_advance_tx, Goto, IndInv, Handshake, Checked, DataSteps
  <2>2. Ring(e) /\ Ring(Peer(e))
    BY <2>1 DEF IndInv, Rings
  <2>3. /\ w_count'[e] = U32Inc(w_count[e]) /\ w_pos'[e] = PosInc(w_pos[e])
        /\ w_count'[Peer(e)] = w_count[Peer(e)] /\ w_pos'[Peer(e)] = w_pos[Peer(e)]
        /\ r_count' = r_count /\ r_pos' = r_pos
    BY <1>11 DEF ivc_advance_tx, IndInv, TypeOK
  <2>4. Ring(Peer(e))'
    BY <2>2, <2>3 DEF Ring, ivc_channel_avail_count
  <2>5. ivc_channel_avail_count(e)' = ivc_channel_avail_count(e) + 1
    BY <2>1, <2>3, AvailSteps DEF ivc_channel_avail_count, IndInv, TypeOK
  <2>6. Ring(e)'
    <3>1. /\ w_pos[e] \in 0..(Nframes - 1) /\ r_pos[Peer(e)] \in 0..(Nframes - 1)
          /\ ivc_channel_avail_count(e) \in 0..(CounterMod - 1)
      BY AvailSteps DEF IndInv, TypeOK, ivc_channel_avail_count
    <3>2. \/ w_pos'[e] = w_pos[e] + 1
          \/ w_pos'[e] = 0 /\ w_pos[e] = Nframes - 1
      BY <2>3 DEF PosInc
    <3> QED BY <2>1, <2>2, <2>3, <2>5, <3>1, <3>2 DEF Ring
  <2> QED BY <2>4, <2>6 DEF Rings
<1>12. CASE ivc_advance_rx(e)
  <2>1. ~HalfCleared /\ ivc_channel_avail_count(Peer(e)) >= 1
    BY <1>12, EstIsCoherent DEF ivc_advance_rx, Goto, IndInv, Handshake, Checked, DataSteps
  <2>2. Ring(e) /\ Ring(Peer(e))
    BY <2>1 DEF IndInv, Rings
  <2>3. /\ r_count'[e] = U32Inc(r_count[e]) /\ r_pos'[e] = PosInc(r_pos[e])
        /\ r_count'[Peer(e)] = r_count[Peer(e)] /\ r_pos'[Peer(e)] = r_pos[Peer(e)]
        /\ w_count' = w_count /\ w_pos' = w_pos
    BY <1>12 DEF ivc_advance_rx, IndInv, TypeOK
  <2>4. Ring(e)'
    BY <2>2, <2>3 DEF Ring, ivc_channel_avail_count
  <2>5. ivc_channel_avail_count(Peer(e))' = ivc_channel_avail_count(Peer(e)) - 1
    <3>1. w_count[Peer(e)] \in 0..(CounterMod - 1) /\ r_count[e] \in 0..(CounterMod - 1)
      BY DEF IndInv, TypeOK
    <3>2. /\ ivc_channel_avail_count(Peer(e)) = U32Sub(w_count[Peer(e)], r_count[e])
          /\ ivc_channel_avail_count(Peer(e))' = U32Sub(w_count[Peer(e)], U32Inc(r_count[e]))
      BY <2>3 DEF ivc_channel_avail_count
    <3>3. U32Sub(w_count[Peer(e)], r_count[e]) >= 1
          => U32Sub(w_count[Peer(e)], U32Inc(r_count[e])) = U32Sub(w_count[Peer(e)], r_count[e]) - 1
      BY <3>1, AvailSteps
    <3> QED BY <2>1, <3>2, <3>3
  <2>6. Ring(Peer(e))'
    <3>1. /\ w_pos[Peer(e)] \in 0..(Nframes - 1) /\ r_pos[e] \in 0..(Nframes - 1)
          /\ ivc_channel_avail_count(Peer(e)) \in 0..(CounterMod - 1)
      BY AvailSteps DEF IndInv, TypeOK, ivc_channel_avail_count
    <3>2. \/ r_pos'[e] = r_pos[e] + 1
          \/ r_pos'[e] = 0 /\ r_pos[e] = Nframes - 1
      BY <2>3 DEF PosInc
    <3> QED BY <2>1, <2>2, <2>3, <2>5, <3>1, <3>2 DEF Ring
  <2> QED BY <2>4, <2>6 DEF Rings
<1>13. ~Reboot(e)
  BY DEF Reboot, Disciplined
<1> QED BY <1>3, <1>4, <1>5, <1>6, <1>7, <1>8, <1>9, <1>10, <1>11, <1>12, <1>13
        DEF Step, tegra_ivc_channel_notified, tegra_ivc_write, tegra_ivc_read

\* A writer filling a slot and a reader copying one are at different slots.
LEMMA SlotsApart ==
  ASSUME IndInv, NEW e \in Endpoint,
         pc[e] \in {"fill", "advance_tx"}, pc[Peer(e)] \in {"copy", "advance_rx"}
  PROVE  w_pos[e] # r_pos[Peer(e)]
<1>1. state[e] = EST
  BY DEF IndInv, Handshake, DataSteps
<1>2. Ring(e)
  BY <1>1, EstIsCoherent DEF IndInv, Rings
<1>3. ivc_channel_avail_count(e) < Nframes /\ ivc_channel_avail_count(e) >= 1
  BY PeerFacts DEF IndInv, Checked
<1>4. /\ w_pos[e] \in 0..(Nframes - 1) /\ r_pos[Peer(e)] \in 0..(Nframes - 1)
      /\ ivc_channel_avail_count(e) \in 0..(CounterMod - 1)
  BY AvailSteps, PeerFacts DEF IndInv, TypeOK, ivc_channel_avail_count
<1> QED BY <1>2, <1>3, <1>4, SizeAssumption DEF Ring

\* A step of end e invalidates neither its own check nor its peer's.
LEMMA CheckedStep ==
  ASSUME IndInv, Disciplined, NEW e \in Endpoint, Step(e)
  PROVE  Checked'
<1> DEFINE Same == UNCHANGED <<w_count, r_count, w_pos, r_pos>>
<1> USE PeerFacts, OneOrOther, SizeAssumption DEF shm, local
<1>0. \A x \in Endpoint : ivc_channel_avail_count(x) \in 0..(CounterMod - 1)
  BY AvailSteps DEF IndInv, TypeOK, ivc_channel_avail_count
<1>1. ASSUME Same, UNCHANGED <<frame, buf>>, pc'[Peer(e)] = pc[Peer(e)],
             pc'[e] \notin {"fill", "advance_tx", "copy", "advance_rx"}
      PROVE  Checked'
  BY <1>1 DEF IndInv, Checked, ivc_channel_avail_count
<1>2. CASE ClientResets(e) \/ ReadPeerState(e) \/ MoveToAck(e) \/ MoveToEst(e)
           \/ NoFurtherAction(e) \/ TxNotify(e) \/ RxNotify(e)
  <2>1. \E step \in {"idle", "saw_est", "saw_sync", "saw_ack"} : pc' = [pc EXCEPT ![e] = step]
    <3>1. Saw(state[Peer(e)]) \in {"saw_est", "saw_sync", "saw_ack"}
      BY DEF Saw, EST, SYNC, ACK, IndInv, TypeOK
    <3>2. CASE ClientResets(e)
      BY <3>2 DEF ClientResets, tegra_ivc_channel_reset, IndInv, TypeOK
    <3> QED BY <1>2, <3>1, <3>2 DEF ReadPeerState, MoveToAck, MoveToEst, NoFurtherAction,
                                    TxNotify, RxNotify, Goto
  <2>2. Same /\ UNCHANGED <<frame, buf>>
    BY <1>2 DEF ClientResets, tegra_ivc_channel_reset, ReadPeerState, MoveToAck, MoveToEst, StoreState,
                NoFurtherAction, TxNotify, RxNotify
  <2>3. /\ pc'[Peer(e)] = pc[Peer(e)]
        /\ pc'[e] \notin {"fill", "advance_tx", "copy", "advance_rx"}
    BY <2>1 DEF IndInv, TypeOK
  <2> QED BY <1>1, <2>2, <2>3
<1>3. CASE ClearOnSync(e) \/ ClearOnAck(e)
  <2>1. /\ pc'[Peer(e)] = pc[Peer(e)] /\ pc'[e] \in {"to_ack", "to_est"}
        /\ UNCHANGED <<frame, buf>> /\ Clearing(e)
    BY <1>3 DEF ClearOnSync, ClearOnAck, ClearCounters, Goto, IndInv, TypeOK, Clearing
  <2>2. CASE state[Peer(e)] # EST
    BY <2>1, <2>2 DEF IndInv, Handshake, DataSteps, Checked
  <2>3. CASE state[Peer(e)] = EST
    <3>1. Zero(e)
      BY <2>1, <2>3 DEF IndInv, Handshake, AckIsZero
    <3>2. Same
      BY <1>3, <3>1 DEF ClearOnSync, ClearOnAck, ClearCounters, Zero, IndInv, TypeOK
    <3> QED BY <1>1, <2>1, <3>2
  <2> QED BY <2>2, <2>3
<1>4. CASE BeginWrite(e) \/ BeginRead(e)
  <2>1. /\ Same /\ UNCHANGED <<frame, buf>> /\ pc'[Peer(e)] = pc[Peer(e)]
        /\ \/ pc'[e] = "fill" /\ ivc_channel_avail_count(e) < Nframes
           \/ pc'[e] = "copy" /\ ivc_channel_avail_count(Peer(e)) >= 1
    BY <1>0, <1>4 DEF BeginWrite, BeginRead, ivc_check_write, ivc_check_read,
                ivc_channel_full, ivc_channel_empty, Goto, IndInv, TypeOK
  <2> QED BY <2>1 DEF IndInv, Checked, ivc_channel_avail_count
<1>5. ASSUME NEW v \in Payload, Fill(e, v) PROVE Checked'
  <2>1. /\ Same /\ buf' = buf /\ pc'[Peer(e)] = pc[Peer(e)] /\ pc'[e] = "advance_tx"
        /\ pc[e] = "fill" /\ frame'[Peer(e)] = frame[Peer(e)]
    BY <1>5 DEF Fill, Goto, IndInv, TypeOK
  <2>2. pc[Peer(e)] = "advance_rx" => frame'[e][r_pos[Peer(e)]] = frame[e][r_pos[Peer(e)]]
    BY <1>5, <2>1, SlotsApart DEF Fill, IndInv, TypeOK
  <2> QED BY <2>1, <2>2 DEF IndInv, Checked, ivc_channel_avail_count
<1>6. CASE Copy(e)
  <2>1. /\ Same /\ frame' = frame /\ pc'[Peer(e)] = pc[Peer(e)] /\ pc'[e] = "advance_rx"
        /\ pc[e] = "copy" /\ buf'[Peer(e)] = buf[Peer(e)]
        /\ buf'[e] = frame[Peer(e)][r_pos[e]]
    BY <1>6 DEF Copy, Goto, IndInv, TypeOK
  <2> QED BY <2>1 DEF IndInv, Checked, ivc_channel_avail_count
<1>7. CASE ivc_advance_tx(e)
  <2>1. /\ UNCHANGED <<r_count, r_pos, frame, buf>> /\ pc[e] = "advance_tx"
        /\ pc'[Peer(e)] = pc[Peer(e)] /\ pc'[e] = "tx_notify"
        /\ w_count'[e] = U32Inc(w_count[e]) /\ w_count'[Peer(e)] = w_count[Peer(e)]
    BY <1>7 DEF ivc_advance_tx, Goto, IndInv, TypeOK
  <2>2. ivc_channel_avail_count(e)' = ivc_channel_avail_count(e) + 1
    <3>1. w_count[e] \in 0..(CounterMod - 1) /\ r_count[Peer(e)] \in 0..(CounterMod - 1)
      BY DEF IndInv, TypeOK
    <3>2. U32Sub(w_count[e], r_count[Peer(e)]) < Nframes
      BY <2>1 DEF IndInv, Checked, ivc_channel_avail_count
    <3>3. U32Sub(U32Inc(w_count[e]), r_count[Peer(e)]) = U32Sub(w_count[e], r_count[Peer(e)]) + 1
      BY <3>1, <3>2, AvailSteps
    <3> QED BY <2>1, <3>3 DEF ivc_channel_avail_count
  <2>3. ivc_channel_avail_count(Peer(e))' = ivc_channel_avail_count(Peer(e))
    BY <2>1 DEF ivc_channel_avail_count
  <2> QED BY <1>0, <2>1, <2>2, <2>3 DEF IndInv, Checked
<1>8. CASE ivc_advance_rx(e)
  <2>1. /\ UNCHANGED <<w_count, w_pos, frame>> /\ pc[e] = "advance_rx"
        /\ pc'[Peer(e)] = pc[Peer(e)] /\ pc'[e] = "rx_notify"
        /\ r_count'[e] = U32Inc(r_count[e]) /\ r_count'[Peer(e)] = r_count[Peer(e)]
        /\ r_pos'[Peer(e)] = r_pos[Peer(e)] /\ buf'[Peer(e)] = buf[Peer(e)]
    BY <1>8 DEF ivc_advance_rx, Goto, IndInv, TypeOK
  <2>2. ivc_channel_avail_count(Peer(e))' = ivc_channel_avail_count(Peer(e)) - 1
    <3>1. w_count[Peer(e)] \in 0..(CounterMod - 1) /\ r_count[e] \in 0..(CounterMod - 1)
      BY DEF IndInv, TypeOK
    <3>2. U32Sub(w_count[Peer(e)], r_count[e]) >= 1
      BY <2>1 DEF IndInv, Checked, ivc_channel_avail_count
    <3>3. U32Sub(w_count[Peer(e)], U32Inc(r_count[e])) = U32Sub(w_count[Peer(e)], r_count[e]) - 1
      BY <3>1, <3>2, AvailSteps
    <3> QED BY <2>1, <3>3 DEF ivc_channel_avail_count
  <2>3. ivc_channel_avail_count(e)' = ivc_channel_avail_count(e)
    BY <2>1 DEF ivc_channel_avail_count
  <2> QED BY <1>0, <2>1, <2>2, <2>3 DEF IndInv, Checked
<1>9. CASE Abandon(e)
  <2>1. /\ Same /\ frame' = frame /\ pc'[Peer(e)] = pc[Peer(e)] /\ pc'[e] = "idle"
        /\ buf'[Peer(e)] = buf[Peer(e)]
    BY <1>9 DEF Abandon, Goto, IndInv, TypeOK
  <2> QED BY <2>1 DEF IndInv, Checked, ivc_channel_avail_count
<1>10. ~Reboot(e)
  BY DEF Reboot, Disciplined
<1> QED BY <1>2, <1>3, <1>4, <1>5, <1>6, <1>7, <1>8, <1>9, <1>10
        DEF Step, tegra_ivc_channel_notified, tegra_ivc_write, tegra_ivc_read

\* The conjunction of the parts is an invariant of a disciplined channel.
THEOREM IndInvCorrect == Disciplined /\ Spec => []IndInv
<1>1. Init => IndInv
  <2>1. Init => TypeOK
    BY SizeAssumption DEF Init, TypeOK, Steps, EST
  <2>2. U32Sub(0, 0) = 0
    BY DEF U32Sub
  <2> QED BY <2>1, <2>2, PeerFacts, SizeAssumption
          DEF Init, IndInv, AckIsZero, Handshake, Rings, Ring, Checked, DataSteps, Clearing,
              ivc_channel_avail_count, EST, SYNC, ACK
<1>2. Disciplined /\ IndInv /\ TypeOK' /\ [Next]_vars => IndInv'
  <2> SUFFICES ASSUME Disciplined, IndInv, TypeOK', [Next]_vars PROVE IndInv'
    OBVIOUS
  <2>1. CASE UNCHANGED vars
    BY <2>1 DEF vars, shm, local, IndInv, TypeOK, AckIsZero, Zero, Handshake, Clearing, Rings,
                HalfCleared, Ring, Checked, ivc_channel_avail_count
  <2>2. CASE Next
    BY <2>2, HandshakeStep, RingsStep, CheckedStep DEF Next, IndInv
  <2> QED BY <2>1, <2>2
<1>3. Disciplined => Disciplined'
  BY DEF Disciplined
<1> QED BY <1>1, <1>2, <1>3, TypeCorrect, PTL DEF Spec

\* No slot is ever filled by one end while the other copies it out, whatever
\* the interleaving of writes, reads and resets.
THEOREM NoFrameRaceCorrect == Disciplined /\ Spec => []NoFrameRace
<1>1. IndInv => NoFrameRace
  BY SlotsApart DEF NoFrameRace
<1> QED BY <1>1, IndInvCorrect, PTL

\* tegra_ivc_channel_notified() never clears a counter an established peer
\* may be using.
THEOREM CountersNotInUseCorrect == Disciplined /\ Spec => []CountersNotInUse
<1>1. IndInv => CountersNotInUse
  BY DEF IndInv, Handshake, AckIsZero, Zero, CountersNotInUse
<1> QED BY <1>1, IndInvCorrect, PTL

\* A read hands out the oldest frame in flight, even when resets and writes of
\* the peer come between the copy and the advance.
THEOREM CopiedInOrderCorrect == Disciplined /\ Spec => []CopiedInOrder
<1>1. IndInv => CopiedInOrder
  <2> SUFFICES ASSUME IndInv, NEW e \in Endpoint, pc[e] = "advance_rx"
               PROVE  /\ ivc_channel_avail_count(Peer(e)) \in 1..Nframes
                      /\ buf[e] = InFlight(Peer(e))[1]
    BY DEF CopiedInOrder
  <2>1. Ring(Peer(e))
    <3>1. state[e] = EST
      BY DEF IndInv, Handshake, DataSteps
    <3> QED BY <3>1, EstIsCoherent, PeerFacts DEF IndInv, Rings
  <2>2. ivc_channel_avail_count(Peer(e)) \in 1..Nframes
    <3>1. ivc_channel_avail_count(Peer(e)) \in 0..(CounterMod - 1)
      BY AvailSteps, PeerFacts DEF IndInv, TypeOK, ivc_channel_avail_count
    <3> QED BY <2>1, <3>1, SizeAssumption DEF IndInv, Checked, Ring
  <2>3. (r_pos[e] + 1 - 1) % Nframes = r_pos[e]
    <3>1. r_pos[e] \in 0..(Nframes - 1)
      BY DEF IndInv, TypeOK
    <3> QED BY <3>1, SizeAssumption
  <2>4. InFlight(Peer(e))[1] = frame[Peer(e)][r_pos[e]]
    BY <2>2, <2>3, PeerFacts, SizeAssumption DEF InFlight
  <2> QED BY <2>2, <2>4 DEF IndInv, Checked
<1> QED BY <1>1, IndInvCorrect, PTL
-----------------------------------------------------------------------------
(***************************************************************************)
(* Reboots: tegra_ivc_channel_sync() recovers a position from a counter    *)
(* that has wrapped, which works if the ring divides the counter's range.  *)
(***************************************************************************)

\* What tegra_ivc_channel_sync() computes is what the position was.
Synced == \A e \in Endpoint : /\ w_pos[e] = w_count[e] % Nframes
                              /\ r_pos[e] = r_count[e] % Nframes

\* Division with remainder, and its remainder is the only one.
LEMMA Division ==
  ASSUME NEW N \in Nat \ {0}, NEW x \in Int
  PROVE  x \div N \in Int /\ x % N \in 0..(N - 1) /\ x = N * (x \div N) + (x % N)
OBVIOUS

\* The only remainder: whatever is a multiple of N and less than N more leaves the rest.
LEMMA Remainder ==
  ASSUME NEW N \in Nat \ {0}, NEW q \in Int, NEW r \in 0..(N - 1)
  PROVE  (N * q + r) % N = r
<1> DEFINE x == N * q + r
           p == x \div N
           s == x % N
<1>1. x \in Int /\ p \in Int /\ s \in 0..(N - 1) /\ x = N * p + s
  BY Division
<1>2. N * (q - p) = s - r
  <2>1. N * (q - p) = N * q - N * p
    BY <1>1
  <2> QED BY <2>1, <1>1
<1>3. s - r = 0
  <2> HIDE DEF p, s, x
  <2> DEFINE k == q - p
  <2>1. k \in Int /\ s - r \in Int /\ s - r < N /\ s - r > 0 - N /\ N * k = s - r
    BY <1>1, <1>2
  <2> HIDE DEF k
  <2>2. (k >= 1 => N * k >= N) /\ (k <= -1 => N * k <= 0 - N) /\ (k = 0 => N * k = 0)
    BY <2>1
  <2> QED BY <2>1, <2>2
<1> QED BY <1>1, <1>3

\* Counting up by one moves the position by one, at both wraps.
LEMMA CountsAlong ==
  ASSUME CounterMod % Nframes = 0, NEW x \in 0..(CounterMod - 1)
  PROVE  U32Inc(x) % Nframes = PosInc(x % Nframes)
<1> DEFINE q == x \div Nframes
           r == x % Nframes
           k == CounterMod \div Nframes
<1>1. /\ q \in Int /\ r \in 0..(Nframes - 1) /\ x = Nframes * q + r
      /\ k \in Int /\ CounterMod = Nframes * k
  BY Division, SizeAssumption
<1> HIDE DEF q, r, k
<1>2. CASE x # CounterMod - 1 /\ r # Nframes - 1
  <2>1. x + 1 = Nframes * q + (r + 1) /\ r + 1 \in 0..(Nframes - 1)
    BY <1>1, <1>2, SizeAssumption
  <2>2. (x + 1) % Nframes = r + 1
    BY <1>1, <2>1, Remainder, SizeAssumption
  <2> QED BY <1>2, <2>2 DEF U32Inc, PosInc, r
<1>3. CASE r = Nframes - 1
  <2>1. x + 1 = Nframes * (q + 1) + 0 /\ q + 1 \in Int /\ 0 \in 0..(Nframes - 1)
    BY <1>1, <1>3, SizeAssumption
  <2>2. (x + 1) % Nframes = 0
    BY <2>1, Remainder, SizeAssumption
  <2>3. 0 % Nframes = 0
    BY SizeAssumption
  <2> QED BY <1>3, <2>2, <2>3 DEF U32Inc, PosInc, r
<1>4. CASE x = CounterMod - 1 /\ r # Nframes - 1
  <2>1. CounterMod = Nframes * q + (r + 1) /\ r + 1 \in 0..(Nframes - 1)
    BY <1>1, <1>4, SizeAssumption
  <2>2. CounterMod % Nframes = r + 1
    BY <1>1, <2>1, Remainder, SizeAssumption
  <2> QED BY <1>1, <2>2
<1> QED BY <1>2, <1>3, <1>4

\* The frames in flight, counted modulo the counter's range, lie between the
\* positions of the reader and of the writer.
LEMMA AvailAlong ==
  ASSUME CounterMod % Nframes = 0, NEW w \in 0..(CounterMod - 1), NEW r \in 0..(CounterMod - 1)
  PROVE  ((r % Nframes) + U32Sub(w, r)) % Nframes = w % Nframes
<1> DEFINE a == w \div Nframes
           b == w % Nframes
           c == r \div Nframes
           d == r % Nframes
           k == CounterMod \div Nframes
<1>1. /\ a \in Int /\ b \in 0..(Nframes - 1) /\ w = Nframes * a + b
      /\ c \in Int /\ d \in 0..(Nframes - 1) /\ r = Nframes * c + d
      /\ k \in Int /\ CounterMod = Nframes * k
  BY Division, SizeAssumption
<1> HIDE DEF a, b, c, d, k
<1>2. PICK m \in Int : d + U32Sub(w, r) = Nframes * m + b
  <2>1. CASE w >= r
    <3>1. d + (w - r) = Nframes * (a - c) + b
      BY <1>1, SizeAssumption
    <3> QED BY <1>1, <2>1, <3>1 DEF U32Sub
  <2>2. CASE ~(w >= r)
    <3>1. d + (w - r + CounterMod) = Nframes * (a - c + k) + b
      BY <1>1, SizeAssumption
    <3> QED BY <1>1, <2>2, <3>1 DEF U32Sub
  <2> QED BY <2>1, <2>2
<1>3. (Nframes * m + b) % Nframes = b
  BY <1>1, Remainder, SizeAssumption
<1> QED BY <1>2, <1>3 DEF b, d

\* An end that reboots at any step recovers the positions its peer expects, if
\* the size of the ring divides 2^32: tegra_ivc_channel_sync().
THEOREM PositionsRecovered ==
  ASSUME CounterMod % Nframes = 0
  PROVE  Spec => []PositionsAgree
<1>1. Init => Synced
  <2>1. 0 % Nframes = 0
    BY SizeAssumption
  <2> QED BY <2>1 DEF Init, Synced
<1>2. TypeOK /\ Synced /\ [Next]_vars => Synced'
  <2> SUFFICES ASSUME TypeOK, Synced, [Next]_vars PROVE Synced'
    OBVIOUS
  <2> USE DEF TypeOK, Synced, shm, local
  <2>1. CASE UNCHANGED vars
    BY <2>1 DEF vars
  <2>2. ASSUME NEW e \in Endpoint, ClearOnSync(e) \/ ClearOnAck(e) PROVE Synced'
    <3>1. 0 % Nframes = 0
      BY SizeAssumption
    <3> QED BY <2>2, <3>1 DEF ClearOnSync, ClearOnAck, ClearCounters
  <2>3. ASSUME NEW e \in Endpoint, ivc_advance_tx(e) PROVE Synced'
    <3>1. U32Inc(w_count[e]) % Nframes = PosInc(w_count[e] % Nframes)
      BY CountsAlong
    <3> QED BY <2>3, <3>1 DEF ivc_advance_tx
  <2>4. ASSUME NEW e \in Endpoint, ivc_advance_rx(e) PROVE Synced'
    <3>1. U32Inc(r_count[e]) % Nframes = PosInc(r_count[e] % Nframes)
      BY CountsAlong
    <3> QED BY <2>4, <3>1 DEF ivc_advance_rx
  <2>5. ASSUME NEW e \in Endpoint, Reboot(e) PROVE Synced'
    BY <2>5 DEF Reboot, tegra_ivc_channel_sync
  <2>6. ASSUME NEW e \in Endpoint, Step(e),
               ~(ClearOnSync(e) \/ ClearOnAck(e) \/ ivc_advance_tx(e) \/ ivc_advance_rx(e) \/ Reboot(e))
        PROVE  UNCHANGED <<w_count, r_count, w_pos, r_pos>>
    BY <2>6 DEF Step, ClientResets, tegra_ivc_channel_reset, tegra_ivc_channel_notified, tegra_ivc_write,
                tegra_ivc_read, ReadPeerState, MoveToAck, MoveToEst, StoreState, NoFurtherAction,
                BeginWrite, Fill, TxNotify, BeginRead, Copy, RxNotify, Abandon
  <2> QED BY <2>1, <2>2, <2>3, <2>4, <2>5, <2>6 DEF Next
<1>3. TypeOK /\ Synced => PositionsAgree
  BY AvailAlong, PeerFacts DEF TypeOK, Synced, PositionsAgree, ivc_channel_avail_count
<1> QED BY <1>1, <1>2, <1>3, TypeCorrect, PTL DEF Spec
-----------------------------------------------------------------------------
(***************************************************************************)
(* The rings implement IvcQueue: ivc_advance_tx() sends, ivc_advance_rx()  *)
(* receives, and the handshake empties both queues at once.                *)
(***************************************************************************)
Frames == [e \in Endpoint |-> IF HalfCleared THEN <<>> ELSE InFlight(e)]
NoFrames == [e \in Endpoint |-> <<>>]

\* The frames in flight are a sequence of payloads, now and after a step.
Queued == \A e \in Endpoint :
  /\ ivc_channel_avail_count(e) \in Nat
  /\ InFlight(e) \in Seq(Payload) /\ Len(InFlight(e)) = ivc_channel_avail_count(e)
  /\ \A i \in 1..ivc_channel_avail_count(e) :
       InFlight(e)[i] = frame[e][(r_pos[Peer(e)] + i - 1) % Nframes]
\* InFlight() is well defined: as many payloads as the counters say are available, each from
\* its place in the ring.
LEMMA InFlightFacts == (TypeOK => Queued) /\ (TypeOK' => Queued')
<1>1. TypeOK => Queued
  <2> SUFFICES ASSUME TypeOK, NEW e \in Endpoint
               PROVE  /\ ivc_channel_avail_count(e) \in Nat
                      /\ InFlight(e) \in Seq(Payload) /\ Len(InFlight(e)) = ivc_channel_avail_count(e)
                      /\ \A i \in 1..ivc_channel_avail_count(e) :
                           InFlight(e)[i] = frame[e][(r_pos[Peer(e)] + i - 1) % Nframes]
    BY DEF Queued
  <2> DEFINE n == ivc_channel_avail_count(e)
  <2>1. n \in Nat
    <3>1. w_count[e] \in 0..(CounterMod - 1) /\ r_count[Peer(e)] \in 0..(CounterMod - 1)
      BY PeerFacts DEF TypeOK
    <3>2. U32Sub(w_count[e], r_count[Peer(e)]) \in 0..(CounterMod - 1)
      BY <3>1, AvailSteps
    <3> QED BY <3>2, SizeAssumption DEF ivc_channel_avail_count
  <2>2. \A i \in 1..n : frame[e][(r_pos[Peer(e)] + i - 1) % Nframes] \in Payload
    <3> TAKE i \in 1..n
    <3>1. r_pos[Peer(e)] + i - 1 \in Int
      BY <2>1, PeerFacts, SizeAssumption DEF TypeOK
    <3>2. (r_pos[Peer(e)] + i - 1) % Nframes \in 0..(Nframes - 1)
      BY <3>1, Division, SizeAssumption
    <3>3. frame[e] \in [0..(Nframes - 1) -> Payload]
      BY DEF TypeOK
    <3> QED BY <3>2, <3>3
  <2>3. InFlight(e) \in [1..n -> Payload]
    BY <2>2 DEF InFlight
  <2> HIDE DEF n
  <2>4. InFlight(e) \in Seq(Payload) /\ Len(InFlight(e)) = n
    BY <2>1, <2>3
  <2> QED BY <2>1, <2>4 DEF InFlight, n
<1>2. TypeOK' => Queued'
  BY <1>1, PTL
<1> QED BY <1>1, <1>2

\* Slots are counted round the ring.
LEMMA Around ==
  ASSUME NEW p \in 0..(Nframes - 1), NEW i \in 0..Nframes
  PROVE  (p + i) % Nframes = IF p + i < Nframes THEN p + i ELSE p + i - Nframes
<1>1. CASE p + i < Nframes
  <2>1. p + i = Nframes * 0 + (p + i) /\ p + i \in 0..(Nframes - 1)
    BY <1>1, SizeAssumption
  <2> QED BY <1>1, <2>1, Remainder, SizeAssumption
<1>2. CASE ~(p + i < Nframes)
  <2>1. p + i = Nframes * 1 + (p + i - Nframes) /\ p + i - Nframes \in 0..(Nframes - 1)
    BY <1>2, SizeAssumption
  <2>2. (Nframes * 1 + (p + i - Nframes)) % Nframes = p + i - Nframes
    BY <2>1, Remainder, SizeAssumption
  <2> QED BY <1>2, <2>1, <2>2
<1> QED BY <1>1, <1>2

\* With cleared counters nothing is in flight, now or after a step.
LEMMA ZeroIsEmpty ==
  /\ (\A e \in Endpoint : Zero(e)) => Frames = NoFrames
  /\ (\A e \in Endpoint : Zero(e)') => Frames' = NoFrames
<1>1. ASSUME NEW f, f = [i \in 1..0 |-> f[i]] PROVE f = <<>>
  <2>1. f \in Seq({}) /\ Len(f) = 0
    BY <1>1
  <2> QED BY <2>1
<1>2. U32Sub(0, 0) = 0
  BY DEF U32Sub
<1>3. ASSUME \A e \in Endpoint : Zero(e) PROVE Frames = NoFrames
  <2>1. \A e \in Endpoint : InFlight(e) = [i \in 1..0 |-> InFlight(e)[i]]
    BY <1>2, <1>3, PeerFacts DEF Zero, InFlight, ivc_channel_avail_count
  <2> QED BY <1>1, <2>1 DEF Frames, NoFrames
<1>4. ASSUME \A e \in Endpoint : Zero(e)' PROVE Frames' = NoFrames
  <2>1. \A e \in Endpoint : InFlight(e)' = [i \in 1..0 |-> InFlight(e)'[i]]
    BY <1>2, <1>4, PeerFacts DEF Zero, InFlight, ivc_channel_avail_count
  <2> QED BY <1>1, <2>1 DEF Frames, NoFrames
<1> QED BY <1>3, <1>4

\* A step that moves neither counters nor filled slots, and no end into or out of
\* the window between two clears, leaves the queues alone.
LEMMA SameFrames ==
  ASSUME HalfCleared' = HalfCleared, UNCHANGED <<w_count, r_count, frame, r_pos>>
  PROVE  Frames' = Frames
BY DEF Frames, InFlight, ivc_channel_avail_count

\* A step of the handshake empties both queues or leaves them alone.
LEMMA HandshakeSeen ==
  ASSUME IndInv, IndInv', Disciplined, NEW e \in Endpoint,
         ClientResets(e) \/ tegra_ivc_channel_notified(e)
  PROVE  Frames' \in {Frames, NoFrames}
<1> USE PeerFacts, OneOrOther DEF shm, local
<1>1. (\A x \in Endpoint : Zero(x)') => Frames' = NoFrames
  BY ZeroIsEmpty
<1>2. HalfCleared' => Frames' = NoFrames
  BY DEF Frames, NoFrames
<1> USE DEF HalfCleared, Handshake, Clearing, EST, SYNC, ACK
<1>3. CASE ClientResets(e)
  <2>1. HalfCleared' = HalfCleared
    BY <1>3 DEF ClientResets, MayReset, tegra_ivc_channel_reset, IndInv, TypeOK, Disciplined, Endpoint
  <2> QED BY <1>3, <2>1, SameFrames DEF ClientResets, tegra_ivc_channel_reset
<1>4. CASE ReadPeerState(e) \/ NoFurtherAction(e)
  <2>1. Saw(state[Peer(e)]) \in {"saw_est", "saw_sync", "saw_ack"}
    BY DEF Saw, IndInv, TypeOK
  <2>2. /\ UNCHANGED <<w_count, r_count, frame, r_pos, state>> /\ pc'[Peer(e)] = pc[Peer(e)]
        /\ pc[e] \in {"idle", "saw_est", "saw_ack"}
        /\ pc'[e] \in {"idle", "saw_est", "saw_sync", "saw_ack"}
    BY <1>4, <2>1 DEF ReadPeerState, NoFurtherAction, Goto, IndInv, TypeOK
  <2>3. HalfCleared' = HalfCleared
    BY <2>2
  <2> QED BY <2>2, <2>3, SameFrames
<1>5. CASE ClearOnSync(e)
  <2>1. /\ pc[e] = "saw_sync" /\ pc' = [pc EXCEPT ![e] = "to_ack"] /\ ClearCounters(e)
        /\ UNCHANGED <<state, frame>> /\ Zero(e)' /\ (Zero(Peer(e)) => Zero(Peer(e))')
    BY <1>5 DEF ClearOnSync, ClearCounters, Goto, Zero, IndInv, TypeOK
  <2>2. CASE Zero(Peer(e))
    BY <1>1, <2>1, <2>2
  <2>3. CASE state[Peer(e)] = SYNC /\ pc[Peer(e)] # "to_est"
    BY <1>2, <2>1, <2>3 DEF IndInv, TypeOK
  <2>4. CASE state[Peer(e)] = EST /\ state[e] = ACK
    <3>1. HalfCleared' = HalfCleared
      BY <2>1, <2>4, ZenonT(40) DEF IndInv, TypeOK
    <3>2. UNCHANGED <<w_count, r_count, r_pos>>
      BY <2>1, <2>4 DEF ClearCounters, IndInv, AckIsZero, Zero, TypeOK
    <3> QED BY <2>1, <3>1, <3>2, SameFrames
  <2>5. state[Peer(e)] = ACK \/ pc[Peer(e)] = "to_est" => Zero(Peer(e))
    BY DEF IndInv, AckIsZero
  <2> QED BY <2>1, <2>2, <2>3, <2>4, <2>5 DEF IndInv, TypeOK
<1>6. CASE ClearOnAck(e)
  <2>1. state[Peer(e)] = ACK
    BY <1>6 DEF ClearOnAck, Goto, IndInv
  <2> QED BY <1>1, <1>6, <2>1 DEF ClearOnAck, ClearCounters, Goto, Zero, IndInv, TypeOK, AckIsZero
<1>7. CASE MoveToAck(e) \/ MoveToEst(e)
  <2>1. /\ UNCHANGED <<w_count, r_count, w_pos, r_pos, frame>>
        /\ pc' = [pc EXCEPT ![e] = "idle"]
        /\ \/ pc[e] = "to_ack" /\ state' = [state EXCEPT ![e] = ACK]
           \/ /\ pc[e] = "to_est" \/ (state[e] = ACK /\ pc[e] \in {"saw_ack", "saw_est"})
              /\ state' = [state EXCEPT ![e] = EST]
    BY <1>7 DEF MoveToAck, MoveToEst, StoreState, Goto
  <2>2. (\A x \in Endpoint : Zero(x)) => \A x \in Endpoint : Zero(x)'
    BY <2>1 DEF Zero
  <2>3. state[e] = ACK \/ pc[e] \in {"to_ack", "to_est"} => Zero(e)
    BY DEF IndInv, AckIsZero
  <2>4. state[Peer(e)] = ACK \/ pc[Peer(e)] \in {"to_ack", "to_est"} => Zero(Peer(e))
    BY DEF IndInv, AckIsZero
  <2>5. CASE Zero(e) /\ Zero(Peer(e))
    BY <1>1, <2>2, <2>5
  <2>6. CASE ~(Zero(e) /\ Zero(Peer(e)))
    <3>1. state[Peer(e)] # ACK /\ pc[Peer(e)] \notin {"to_ack", "to_est"}
      <4>1. Zero(e)
        BY <2>1, <2>3
      <4> QED BY <2>4, <2>6, <4>1
    <3>2. /\ pc'[e] = "idle" /\ pc'[Peer(e)] = pc[Peer(e)] /\ state'[Peer(e)] = state[Peer(e)]
          /\ \/ pc[e] = "to_ack" /\ state'[e] = ACK
             \/ pc[e] = "to_est" /\ state[e] = SYNC /\ state[Peer(e)] = ACK
             \/ pc[e] # "to_ack" /\ state[e] = ACK /\ state[Peer(e)] # SYNC
      BY <2>1 DEF IndInv, TypeOK
    <3>3. HalfCleared' <=> HalfCleared
      BY <3>1, <3>2
    <3> QED BY <2>1, <3>3, SameFrames
  <2> QED BY <2>5, <2>6
<1> QED BY <1>3, <1>4, <1>5, <1>6, <1>7 DEF tegra_ivc_channel_notified
\* One queue changes at a time.
LEMMA OneQueue ==
  ASSUME NEW e \in Endpoint, ~HalfCleared, ~HalfCleared', InFlight(Peer(e))' = InFlight(Peer(e))
  PROVE  Frames[e] = InFlight(e) /\ Frames' = [Frames EXCEPT ![e] = InFlight(e)']
BY PeerFacts, OneOrOther DEF Frames

\* A step of a write or a read adds a frame, takes the oldest one, or does neither.
LEMMA DataSeen ==
  ASSUME IndInv, IndInv', NEW e \in Endpoint, tegra_ivc_write(e) \/ tegra_ivc_read(e) \/ Abandon(e)
  PROVE  \/ Frames' = Frames
         \/ \E v \in Payload : /\ Len(Frames[e]) < Nframes
                               /\ Frames' = [Frames EXCEPT ![e] = Append(@, v)]
         \/ /\ Frames[Peer(e)] # <<>>
            /\ Frames' = [Frames EXCEPT ![Peer(e)] = Tail(@)]
<1> USE PeerFacts, OneOrOther DEF shm, local
<1>0. /\ pc[e] \notin {"to_ack", "to_est"} /\ pc'[e] \notin {"to_ack", "to_est"}
      /\ state' = state /\ pc'[Peer(e)] = pc[Peer(e)]
  <2>1. CASE \E v \in Payload : Fill(e, v)
    BY <2>1 DEF Fill, Goto, IndInv, TypeOK
  <2>2. CASE ivc_advance_tx(e) \/ ivc_advance_rx(e)
    BY <2>2 DEF ivc_advance_tx, ivc_advance_rx, Goto, IndInv, TypeOK
  <2>3. CASE BeginWrite(e) \/ BeginRead(e) \/ Copy(e)
    BY <2>3 DEF BeginWrite, BeginRead, Copy, Goto, IndInv, TypeOK
  <2>4. CASE TxNotify(e) \/ RxNotify(e)
    <3>1. Goto(e, "tx_notify", "idle") \/ Goto(e, "rx_notify", "idle")
      BY <2>4 DEF TxNotify, RxNotify
    <3> QED BY <2>4, <3>1 DEF TxNotify, RxNotify, Goto, IndInv, TypeOK
  <2>5. CASE Abandon(e)
    BY <2>5 DEF Abandon, Goto, IndInv, TypeOK
  <2> QED BY <2>1, <2>2, <2>3, <2>4, <2>5 DEF tegra_ivc_write, tegra_ivc_read
<1>1. HalfCleared' <=> HalfCleared
  BY <1>0 DEF HalfCleared
<1>2. CASE \/ BeginWrite(e) \/ TxNotify(e) \/ BeginRead(e) \/ Copy(e) \/ RxNotify(e) \/ Abandon(e)
  BY <1>1, <1>2, SameFrames DEF BeginWrite, TxNotify, BeginRead, Copy, RxNotify, Abandon
<1>3. Queued /\ Queued'
  BY InFlightFacts DEF IndInv
<1> DEFINE n == ivc_channel_avail_count(e)
           p == r_pos[Peer(e)]
<1>4. ASSUME pc[e] \in {"fill", "advance_tx"}
      PROVE  /\ ~HalfCleared /\ n < Nframes /\ n \in Nat /\ p \in 0..(Nframes - 1)
             /\ w_pos[e] = (p + n) % Nframes
  <2>1. ~HalfCleared
    BY <1>4, EstIsCoherent DEF IndInv, Handshake, DataSteps
  <2>2. Ring(e) /\ n < Nframes
    BY <1>4, <2>1 DEF IndInv, Rings, Checked
  <2>3. n \in Nat /\ p \in 0..(Nframes - 1) /\ w_pos[e] \in 0..(Nframes - 1)
    BY <1>3 DEF IndInv, TypeOK, Queued
  <2>4. (p + n) % Nframes = IF p + n < Nframes THEN p + n ELSE p + n - Nframes
    BY <2>2, <2>3, Around, SizeAssumption
  <2> QED BY <2>1, <2>2, <2>3, <2>4, SizeAssumption DEF Ring
<1>5. ASSUME NEW v \in Payload, Fill(e, v) PROVE Frames' = Frames
  <2>1. /\ pc[e] = "fill" /\ UNCHANGED <<w_count, r_count, r_pos>>
        /\ frame'[Peer(e)] = frame[Peer(e)]
        /\ \A i \in 0..(Nframes - 1) : i # w_pos[e] => frame'[e][i] = frame[e][i]
    BY <1>5 DEF Fill, Goto, IndInv, TypeOK
  <2>2. \A i \in 1..n : (p + i - 1) % Nframes \in (0..(Nframes - 1)) \ {w_pos[e]}
    <3> TAKE i \in 1..n
    <3>1. p + i - 1 = p + (i - 1) /\ i - 1 \in 0..Nframes /\ n \in 0..Nframes /\ i - 1 < n
      BY <1>4, <2>1, SizeAssumption
    <3> HIDE DEF n, p
    <3>2. /\ (p + (i - 1)) % Nframes = IF p + (i - 1) < Nframes THEN p + (i - 1) ELSE p + (i - 1) - Nframes
          /\ (p + n) % Nframes = IF p + n < Nframes THEN p + n ELSE p + n - Nframes
      BY <1>4, <2>1, <3>1, Around
    <3> QED BY <1>4, <2>1, <3>1, <3>2, SizeAssumption
  <2>3. InFlight(e)' = InFlight(e) /\ InFlight(Peer(e))' = InFlight(Peer(e))
    BY <2>1, <2>2 DEF InFlight, ivc_channel_avail_count
  <2> QED BY <1>1, <2>3 DEF Frames
<1>6. CASE ivc_advance_tx(e)
  <2> DEFINE v == frame[e][w_pos[e]]
  <2>1. /\ pc[e] = "advance_tx" /\ UNCHANGED <<r_count, frame, r_pos>>
        /\ w_count' = [w_count EXCEPT ![e] = U32Inc(@)]
    BY <1>6 DEF ivc_advance_tx, Goto
  <2>2. v \in Payload
    <3>1. frame[e] \in [0..(Nframes - 1) -> Payload] /\ w_pos[e] \in 0..(Nframes - 1)
      BY DEF IndInv, TypeOK
    <3> QED BY <3>1
  <2>3. n' = n + 1
    <3>1. w_count[e] \in 0..(CounterMod - 1) /\ r_count[Peer(e)] \in 0..(CounterMod - 1)
      BY DEF IndInv, TypeOK
    <3>2. n' = U32Sub(U32Inc(w_count[e]), r_count[Peer(e)])
      BY <2>1 DEF IndInv, TypeOK, ivc_channel_avail_count
    <3> QED BY <1>4, <2>1, <3>1, <3>2, AvailSteps DEF ivc_channel_avail_count
  <2>4. InFlight(e)' = Append(InFlight(e), v)
    <3>1. /\ InFlight(e)' \in Seq(Payload) /\ Len(InFlight(e)') = n + 1
          /\ \A i \in 1..(n + 1) : InFlight(e)'[i] = frame[e][(p + i - 1) % Nframes]
      BY <1>3, <2>1, <2>3 DEF Queued
    <3>2. /\ InFlight(e) \in Seq(Payload) /\ Len(InFlight(e)) = n
          /\ \A i \in 1..n : InFlight(e)[i] = frame[e][(p + i - 1) % Nframes]
      BY <1>3 DEF Queued
    <3>3. v = frame[e][(p + (n + 1) - 1) % Nframes]
      <4>1. p + (n + 1) - 1 = p + n
        BY <1>4, <2>1
      <4> QED BY <1>4, <2>1, <4>1
    <3>4. /\ Append(InFlight(e), v) \in Seq(Payload) /\ Len(Append(InFlight(e), v)) = n + 1
          /\ \A i \in 1..n : Append(InFlight(e), v)[i] = InFlight(e)[i]
          /\ Append(InFlight(e), v)[n + 1] = v
      BY <2>2, <3>2, AppendProperties
    <3> HIDE DEF n, p, v
    <3>5. \A i \in 1..(n + 1) : InFlight(e)'[i] = Append(InFlight(e), v)[i]
      <4> TAKE i \in 1..(n + 1)
      <4>1. CASE i \in 1..n
        BY <3>1, <3>2, <3>4, <4>1
      <4>2. CASE i = n + 1
        BY <3>1, <3>3, <3>4, <4>2
      <4>3. i \in 1..n \/ i = n + 1
        BY <1>4, <2>1
      <4> QED BY <4>1, <4>2, <4>3
    <3> QED BY <3>1, <3>4, <3>5, SeqEqual
  <2>5. InFlight(Peer(e))' = InFlight(Peer(e))
    BY <2>1 DEF InFlight, ivc_channel_avail_count, IndInv, TypeOK
  <2>6. Frames[e] = InFlight(e) /\ Frames' = [Frames EXCEPT ![e] = Append(InFlight(e), v)]
    BY <1>1, <1>4, <2>1, <2>4, <2>5, OneQueue
  <2>7. Len(InFlight(e)) < Nframes
    BY <1>3, <1>4, <2>1 DEF Queued
  <2> QED BY <2>2, <2>6, <2>7
<1>7. CASE ivc_advance_rx(e)
  <2> DEFINE m == ivc_channel_avail_count(Peer(e))
             q == InFlight(Peer(e))
  <2>1. /\ pc[e] = "advance_rx" /\ UNCHANGED <<w_count, frame>>
        /\ r_count' = [r_count EXCEPT ![e] = U32Inc(@)] /\ r_pos' = [r_pos EXCEPT ![e] = PosInc(@)]
    BY <1>7 DEF ivc_advance_rx, Goto
  <2>2. ~HalfCleared
    BY <2>1, EstIsCoherent DEF IndInv, Handshake, DataSteps
  <2>3. m \in 1..Nframes /\ r_pos[e] \in 0..(Nframes - 1)
    BY <1>3, <2>1, <2>2, SizeAssumption DEF IndInv, Rings, Ring, Checked, TypeOK, Queued
  <2>4. m' = m - 1
    <3>1. w_count[Peer(e)] \in 0..(CounterMod - 1) /\ r_count[e] \in 0..(CounterMod - 1)
      BY DEF IndInv, TypeOK
    <3>2. /\ m = U32Sub(w_count[Peer(e)], r_count[e])
          /\ m' = U32Sub(w_count[Peer(e)], U32Inc(r_count[e]))
      BY <2>1 DEF IndInv, TypeOK, ivc_channel_avail_count
    <3> HIDE DEF m
    <3>3. m >= 1
      BY <2>3, SizeAssumption
    <3> QED BY <3>1, <3>2, <3>3, AvailSteps
  <2>5. /\ q' \in Seq(Payload) /\ Len(q') = m - 1
        /\ \A i \in 1..(m - 1) : q'[i] = frame[Peer(e)][(PosInc(r_pos[e]) + i - 1) % Nframes]
    <3>1. /\ q' \in Seq(Payload) /\ Len(q') = m'
          /\ \A i \in 1..m' : q'[i] = frame'[Peer(e)][(r_pos'[e] + i - 1) % Nframes]
      BY <1>3 DEF Queued
    <3>2. frame' = frame /\ r_pos'[e] = PosInc(r_pos[e])
      BY <2>1 DEF IndInv, TypeOK
    <3> QED BY <2>4, <3>1, <3>2
  <2>6. /\ q \in Seq(Payload) /\ Len(q) = m /\ q # <<>>
        /\ \A i \in 1..m : q[i] = frame[Peer(e)][(r_pos[e] + i - 1) % Nframes]
    BY <1>3, <2>3 DEF Queued
  <2>7. \A i \in 1..(m - 1) : (PosInc(r_pos[e]) + i - 1) % Nframes = (r_pos[e] + (i + 1) - 1) % Nframes
    <3> TAKE i \in 1..(m - 1)
    <3> HIDE DEF m
    <3> DEFINE r == r_pos[e]
               s == PosInc(r)
    <3>1. /\ r \in 0..(Nframes - 1) /\ s = (IF r = Nframes - 1 THEN 0 ELSE r + 1) /\ s \in 0..(Nframes - 1)
          /\ i \in 0..Nframes /\ i - 1 \in 0..Nframes
      BY <2>3, SizeAssumption DEF PosInc
    <3> HIDE DEF r, s
    <3>2. s + i - 1 = s + (i - 1) /\ r + (i + 1) - 1 = r + i
      BY <3>1, SizeAssumption
    <3>3. /\ (s + (i - 1)) % Nframes = IF s + (i - 1) < Nframes THEN s + (i - 1) ELSE s + (i - 1) - Nframes
          /\ (r + i) % Nframes = IF r + i < Nframes THEN r + i ELSE r + i - Nframes
      BY <3>1, Around
    <3> QED BY <3>1, <3>2, <3>3, SizeAssumption DEF r, s
  <2>8. q' = Tail(q)
    <3>1. /\ Tail(q) \in Seq(Payload) /\ Len(Tail(q)) = m - 1
          /\ \A i \in 1..(m - 1) : Tail(q)[i] = q[i + 1]
      BY <2>6, HeadTailProperties
    <3> HIDE DEF q, m
    <3>2. \A i \in 1..(m - 1) : q'[i] = Tail(q)[i]
      <4> TAKE i \in 1..(m - 1)
      <4>1. i + 1 \in 1..m
        BY <2>3, SizeAssumption
      <4>2. q[i + 1] = frame[Peer(e)][(r_pos[e] + (i + 1) - 1) % Nframes]
        BY <2>6, <4>1
      <4> QED BY <2>5, <2>7, <3>1, <4>2
    <3> QED BY <2>5, <3>1, <3>2, SeqEqual
  <2>9. InFlight(e)' = InFlight(e)
    BY <2>1 DEF InFlight, ivc_channel_avail_count, IndInv, TypeOK
  <2>10. Frames[Peer(e)] = q /\ Frames' = [Frames EXCEPT ![Peer(e)] = Tail(q)]
    BY <1>1, <2>2, <2>8, <2>9, OneQueue
  <2> QED BY <2>6, <2>10
<1> QED BY <1>2, <1>5, <1>6, <1>7 DEF tegra_ivc_write, tegra_ivc_read

\* Two bounded queues that only a reset handshake empties, both at once: what the
\* clients of a channel may rely on, if an end waits out an acknowledgement before
\* it resets, and no end reboots.
THEOREM ImplementsQueue == Disciplined /\ Spec => QueueSpec
<1>1. Init => Queue!Init
  <2>1. Init => \A e \in Endpoint : Zero(e)
    BY DEF Init, Zero
  <2>2. Init => Frames = NoFrames
    BY <2>1, ZeroIsEmpty
  <2> QED BY <2>2 DEF Queue!Init, Frames, NoFrames, Endpoint
<1>2. Disciplined /\ IndInv /\ IndInv' /\ [Next]_vars => [Queue!Next]_Frames
  <2> SUFFICES ASSUME Disciplined, IndInv, IndInv', [Next]_vars, Frames' # Frames PROVE Queue!Next
    OBVIOUS
  <2>1. ~UNCHANGED vars
    BY SameFrames DEF vars, shm, local, HalfCleared
  <2>2. PICK e \in Endpoint : Step(e)
    BY <2>1 DEF Next
  <2>3. ~Reboot(e)
    BY DEF Reboot, Disciplined
  <2>4. CASE ClientResets(e) \/ tegra_ivc_channel_notified(e)
    <3>1. Frames' = NoFrames
      BY <2>4, HandshakeSeen
    <3> QED BY <3>1 DEF Queue!Next, Queue!Flush, Frames, NoFrames, Endpoint
  <2>5. CASE tegra_ivc_write(e) \/ tegra_ivc_read(e) \/ Abandon(e)
    <3>1. CASE \E v \in Payload : /\ Len(Frames[e]) < Nframes
                                   /\ Frames' = [Frames EXCEPT ![e] = Append(@, v)]
      BY <3>1 DEF Queue!Next, Queue!Send, Frames, Endpoint
    <3>2. CASE /\ Frames[Peer(e)] # <<>>
               /\ Frames' = [Frames EXCEPT ![Peer(e)] = Tail(@)]
      BY <3>2 DEF Queue!Next, Queue!Receive, Queue!Other, Frames, Peer, Endpoint
    <3> QED BY <2>5, <3>1, <3>2, DataSeen
  <2> QED BY <2>2, <2>3, <2>4, <2>5 DEF Step
<1>3. Disciplined => Disciplined'
  BY DEF Disciplined
<1> QED BY <1>1, <1>2, <1>3, IndInvCorrect, PTL DEF Spec, QueueSpec, Queue!Spec, Frames
=============================================================================
