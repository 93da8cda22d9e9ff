----------------------------- MODULE VblkProofs ------------------------------
(***************************************************************************)
(* Theorems about the virtual block driver, for every number of requests,  *)
(* slots, frames and suspends.                                             *)
(***************************************************************************)
EXTENDS Vblk, SequenceFacts

\* The slots that answers in q belong to.
Back(q) == [i \in 1..Len(q) |-> q[i].slot]

There == Elems(tx)
Returned == Elems(Back(rx))
Wire == There \cup serving \cup Returned

\* vblk_put_req() is about to free the slot of an answered request.
Freeing == wpc = "put" /\ wret = "completed"

\* A slot id is on the wire once, whoever has it.
OnWireOnce ==
  /\ Distinct(tx) /\ Distinct(Back(rx))
  /\ There \cap serving = {} /\ There \cap Returned = {} /\ serving \cap Returned = {}

\* A slot on the wire holds a request, and a slot that holds one is pending and
\* on the wire, until its answer has been taken; no request has two slots.
SlotsInUse ==
  /\ \A s \in Slots : s \in Wire => slot_req[s] # None
  /\ \A s \in Slots : slot_req[s] # None =>
       /\ s \in pending_reqs /\ bio[slot_req[s]] = "taken"
       /\ s \in Wire \/ (Freeing /\ s = wslot)
  /\ \A s, t \in Slots : slot_req[s] # None /\ slot_req[s] = slot_req[t] => s = t

\* The work item's slot is its own, and the frame it has asked for is still free.
WorkersSlot ==
  /\ wpc \in {"pick", "put"} => wslot \in pending_reqs /\ wslot \notin Wire
  /\ Freeing => slot_req[wslot] # None
  /\ wpc \in {"get", "pick"} => Len(tx) < Nframes
  /\ inflight_reqs = Cardinality(pending_reqs)

\* The list holds requests nobody has taken, and a request the driver refuses is
\* in no slot.
RefusedNow == wpc \in {"put", "put_check", "put_signal"} /\ wret = "refused"
ListedOnce ==
  /\ Distinct(req_list) /\ \A r \in Elems(req_list) : bio[r] = "listed"
  /\ RefusedNow => /\ wreq \in Reqs /\ bio[wreq] = "taken"
                   /\ \A s \in Slots : slot_req[s] # wreq

\* The queue is marked before a suspend looks at it, and when the work item has
\* been flushed it has not asked for a slot.
Stopped ==
  /\ pm \in {"marked", "wait", "flush", "suspended"} => queue_state = "suspended"
  /\ pm = "suspended" => wpc \notin {"get", "pick"}

Inv == TypeOK /\ OnWireOnce /\ SlotsInUse /\ WorkersSlot /\ ListedOnce /\ Stopped

\* Without server errors: a request ends when its answer is taken, or when it is
\* refused, and not before.
NotEnded ==
  /\ \A r \in Reqs : bio[r] # "taken" => ends[r] = 0
  /\ \A s \in Slots : s \in Wire => ends[slot_req[s]] = 0
  /\ RefusedNow => ends[wreq] = 0
  /\ \A i \in 1..Len(rx) : rx[i].ok
  /\ EndedOnce

\* Without server errors: ioctl_lock lets one ioctl in at a time.
OneIoctl ==
  /\ \A r \in Ioctls : bio[r] # "new" /\ ends[r] = 0 => ioctl_lock = r
  /\ \A s, t \in Slots : slot_req[s] \in Ioctls /\ slot_req[t] \in Ioctls => s = t
  /\ inflight_ioctl_reqs = IF \E s \in Slots : s \in Wire /\ slot_req[s] \in Ioctls THEN 1 ELSE 0

-----------------------------------------------------------------------------
\* Taking answers from a queue and adding one, in terms of their slots.
LEMMA BackFacts ==
  ASSUME NEW q \in Seq([slot : Slots, ok : BOOLEAN])
  PROVE  /\ Back(q) \in Seq(Slots) /\ Len(Back(q)) = Len(q)
         /\ q # <<>> => /\ Back(q) # <<>> /\ Head(Back(q)) = Head(q).slot
                        /\ Back(Tail(q)) = Tail(Back(q))
         /\ \A s \in Slots : \A ok \in BOOLEAN :
              Back(Append(q, [slot |-> s, ok |-> ok])) = Append(Back(q), s)
<1> DEFINE Answer == [slot : Slots, ok : BOOLEAN]
<1>0. \A m \in Answer : m.slot \in Slots
  OBVIOUS
<1>q. q \in Seq(Answer)
  OBVIOUS
<1> HIDE DEF Answer
<1>1. Len(q) \in Nat /\ \A i \in 1..Len(q) : q[i] \in Answer
  BY <1>q
<1>2. Back(q) \in Seq(Slots) /\ Len(Back(q)) = Len(q)
  BY <1>0, <1>1 DEF Back
<1>3. ASSUME q # <<>>
      PROVE  /\ Back(q) # <<>> /\ Head(Back(q)) = Head(q).slot
             /\ Back(Tail(q)) = Tail(Back(q))
  <2>1. /\ Tail(q) \in Seq(Answer) /\ Len(Tail(q)) = Len(q) - 1
        /\ \A i \in 1..(Len(q) - 1) : Tail(q)[i] = q[i + 1]
        /\ Head(q) = q[1] /\ Len(q) > 0
    BY <1>3, <1>q
  <2>2. Back(q) # <<>> /\ Head(Back(q)) = Head(q).slot
    BY <1>1, <1>2, <2>1 DEF Back
  <2>3. /\ Tail(Back(q)) \in Seq(Slots) /\ Len(Tail(Back(q))) = Len(q) - 1
        /\ \A i \in 1..(Len(q) - 1) : Tail(Back(q))[i] = Back(q)[i + 1]
    BY <1>2, <2>2
  <2>4. Back(Tail(q)) \in Seq(Slots) /\ Len(Back(Tail(q))) = Len(q) - 1
    <3>1. \A i \in 1..Len(Tail(q)) : Tail(q)[i] \in Answer
      BY <2>1
    <3> QED BY <1>0, <1>1, <2>1, <3>1 DEF Back
  <2>5. \A i \in 1..(Len(q) - 1) : Back(Tail(q))[i] = Tail(Back(q))[i]
    BY <1>1, <2>1, <2>3 DEF Back
  <2> QED BY <1>1, <2>1, <2>2, <2>3, <2>4, <2>5, SeqEqual
<1>4. ASSUME NEW s \in Slots, NEW ok \in BOOLEAN
      PROVE  Back(Append(q, [slot |-> s, ok |-> ok])) = Append(Back(q), s)
  <2> DEFINE m == [slot |-> s, ok |-> ok]
  <2>m. m \in Answer /\ m.slot = s
    BY DEF Answer
  <2> HIDE DEF m
  <2>1. /\ Append(q, m) \in Seq(Answer) /\ Len(Append(q, m)) = Len(q) + 1
        /\ \A i \in 1..Len(q) : Append(q, m)[i] = q[i]
        /\ Append(q, m)[Len(q) + 1] = m
    BY <1>q, <2>m
  <2>2. /\ Append(Back(q), s) \in Seq(Slots) /\ Len(Append(Back(q), s)) = Len(q) + 1
        /\ \A i \in 1..Len(q) : Append(Back(q), s)[i] = Back(q)[i]
        /\ Append(Back(q), s)[Len(q) + 1] = s
    BY <1>2
  <2>3. Back(Append(q, m)) \in Seq(Slots) /\ Len(Back(Append(q, m))) = Len(q) + 1
    <3>1. \A i \in 1..Len(Append(q, m)) : Append(q, m)[i] \in Answer
      BY <2>1
    <3> QED BY <1>0, <1>1, <2>1, <3>1 DEF Back
  <2>4. \A i \in 1..(Len(q) + 1) : Back(Append(q, m))[i] = Append(Back(q), s)[i]
    BY <1>1, <2>1, <2>2, <2>m DEF Back
  <2>5. Back(Append(q, m)) = Append(Back(q), s)
    BY <1>1, <2>2, <2>3, <2>4, SeqEqual
  <2> QED BY <2>5 DEF m
<1> QED BY <1>2, <1>3, <1>4

\* The slots on the wire are slots, and they are those of OnTheWire.
LEMMA WireFacts ==
  ASSUME TypeOK
  PROVE  /\ Wire \subseteq Slots /\ There \subseteq Slots /\ Returned \subseteq Slots
         /\ Wire = OnTheWire
<1>1. Back(rx) \in Seq(Slots) /\ Len(Back(rx)) = Len(rx) /\ Len(rx) \in Nat
  BY BackFacts, LenProperties DEF TypeOK
<1>2. There \subseteq Slots /\ Returned \subseteq Slots
  BY <1>1 DEF TypeOK, There, Returned, Elems
<1>3. Range(tx) = There
  BY DEF Range, There, Elems, TypeOK
<1>4. {m.slot : m \in Range(rx)} = Returned
  <2>1. Range(rx) = {rx[i] : i \in 1..Len(rx)}
    BY DEF Range, TypeOK
  <2> QED BY <1>1, <2>1 DEF Returned, Elems, Back
<1> QED BY <1>2, <1>3, <1>4 DEF OnTheWire, Wire, TypeOK

\* Counting an ioctl in or back keeps the counter a uint32_t.
LEMMA CounterRange == \A x \in Int : x % U32Mod \in 0..(U32Mod - 1)
BY VblkAssumption

\* The invariant holds at first.
LEMMA InitInv == Init => Inv
<1> SUFFICES ASSUME Init PROVE Inv
  OBVIOUS
<1>1. TypeOK
  BY VblkAssumption DEF Init, TypeOK, Slots
<1>2. There = {} /\ Returned = {} /\ Distinct(tx) /\ Distinct(Back(rx))
  <2>1. Back(<<>>) = <<>>
    BY DEF Back
  <2> QED BY <2>1, EmptyFacts DEF Init, There, Returned
<1> QED BY <1>1, <1>2, FS_EmptySet, EmptyFacts, VblkAssumption
        DEF Inv, Init, OnWireOnce, SlotsInUse, WorkersSlot, ListedOnce, Stopped, Wire, Freeing,
            RefusedNow, Elems

\* Submitters and the interrupt do not touch slots or the wire.
LEMMA SubmitterInv ==
  ASSUME Inv, \/ \E r \in Reqs : Dispatch(r) \/ vblk_request(r) \/ vblk_request_nomem(r)
              \/ IoctlReturns \/ ivc_irq_handler
  PROVE  Inv'
<1> USE VblkAssumption DEF Inv
<1>0. UNCHANGED <<tx, serving, rx, pending_reqs, slot_req, inflight_reqs, inflight_seen,
                  inflight_ioctl_reqs, worker, power>>
  BY DEF Dispatch, vblk_request, vblk_request_nomem, IoctlReturns, ivc_irq_handler, slots,
         count, chan
<1>1. OnWireOnce' /\ Wire' = Wire
  BY <1>0 DEF OnWireOnce, Wire, There, Returned
<1>2. WorkersSlot' /\ Stopped'
  BY <1>0, <1>1 DEF WorkersSlot, Stopped, worker, power, Freeing
<1>3. ASSUME NEW r \in Reqs, Dispatch(r) PROVE Inv'
  <2>1. TypeOK'
    BY <1>3 DEF TypeOK, Dispatch, block, slots, count, chan, wake, worker, power
  <2>2. SlotsInUse'
    BY <1>0, <1>1, <1>3 DEF TypeOK, Dispatch, SlotsInUse, Freeing, worker
  <2>3. ListedOnce'
    BY <1>0, <1>3 DEF TypeOK, Dispatch, ListedOnce, RefusedNow, worker, Elems
  <2> QED BY <1>1, <1>2, <2>1, <2>2, <2>3
<1>4. ASSUME NEW r \in Reqs, vblk_request(r) PROVE Inv'
  <2>1. TypeOK'
    BY <1>4 DEF TypeOK, vblk_request, block, slots, count, chan, wake, worker, power
  <2>2. SlotsInUse'
    BY <1>0, <1>1, <1>4 DEF TypeOK, vblk_request, SlotsInUse, Freeing, worker
  <2>3. r \notin Elems(req_list)
    BY <1>4 DEF vblk_request, ListedOnce
  <2>4. Distinct(req_list') /\ Elems(req_list') = Elems(req_list) \cup {r}
    BY <1>4, <2>3, AppendFacts DEF vblk_request, ListedOnce, TypeOK
  <2>5. ListedOnce'
    BY <1>0, <1>4, <2>4 DEF TypeOK, vblk_request, ListedOnce, RefusedNow, worker
  <2> QED BY <1>1, <1>2, <2>1, <2>2, <2>5
<1>5. ASSUME NEW r \in Reqs, vblk_request_nomem(r) PROVE Inv'
  <2>1. TypeOK'
    BY <1>5 DEF TypeOK, vblk_request_nomem, block, slots, count, chan, wake, worker, power
  <2>2. SlotsInUse'
    BY <1>0, <1>1, <1>5 DEF TypeOK, vblk_request_nomem, SlotsInUse, Freeing, worker
  <2>3. ListedOnce'
    BY <1>0, <1>5 DEF TypeOK, vblk_request_nomem, ListedOnce, RefusedNow, worker
  <2> QED BY <1>1, <1>2, <2>1, <2>2, <2>3
<1>6. CASE IoctlReturns \/ ivc_irq_handler
  <2>1. TypeOK'
    <3>1. CASE IoctlReturns
      BY <3>1 DEF TypeOK, IoctlReturns, slots, count, chan, wake, worker, power
    <3>2. CASE ivc_irq_handler
      BY <3>2, ZenonT(40) DEF TypeOK, ivc_irq_handler, block, slots, count, chan, worker, power
    <3> QED BY <1>6, <3>1, <3>2
  <2>2. UNCHANGED <<bio, req_list>>
    BY <1>6 DEF IoctlReturns, ivc_irq_handler, block
  <2> QED BY <1>0, <1>1, <1>2, <2>1, <2>2 DEF SlotsInUse, ListedOnce, Freeing, RefusedNow, worker
<1> QED BY <1>3, <1>4, <1>5, <1>6

\* The suspend path, and a store that becomes visible, touch neither.
LEMMA PowerInv ==
  ASSUME Inv, StopQueues \/ Power \/ Drain
  PROVE  Inv'
<1> USE VblkAssumption DEF Inv
<1>0. UNCHANGED <<bio, req_list, tx, serving, rx, pending_reqs, slot_req, inflight_reqs, worker>>
  BY DEF StopQueues, Power, MarkSuspended, CheckInflight, QueueEmpty, flush_workqueue, MarkActive,
         Resume, Drain, block, slots, count, chan
<1>1. OnWireOnce' /\ Wire' = Wire
  BY <1>0 DEF OnWireOnce, Wire, There, Returned
<1>2. SlotsInUse' /\ WorkersSlot' /\ ListedOnce'
  BY <1>0, <1>1 DEF SlotsInUse, WorkersSlot, ListedOnce, Freeing, RefusedNow, worker
<1>3. TypeOK' /\ Stopped'
  <2>1. CASE StopQueues
    <3>0. suspends' \in 0..MaxSuspends /\ req_queue_empty' \in Nat
      BY <2>1 DEF StopQueues, TypeOK
    <3>b. {irq, irq_on, work, req_completed, hw_running}' \subseteq BOOLEAN
      BY <2>1 DEF StopQueues, TypeOK, wake, worker
    <3>1. TypeOK'
      BY <2>1, <3>0, <3>b DEF StopQueues, PM, TypeOK, block, slots, count, chan, worker
    <3>2. Stopped'
      BY <2>1 DEF StopQueues, PM, Stopped, worker
    <3> QED BY <3>1, <3>2
  <2>2. CASE MarkSuspended
    BY <2>2 DEF MarkSuspended, PM, TypeOK, Stopped, block, slots, count, chan, wake, worker
  <2>3. CASE CheckInflight
    BY <2>3 DEF CheckInflight, PM, TypeOK, Stopped, block, slots, count, chan, wake, worker
  <2>4. CASE QueueEmpty
    <3>0. suspends' \in 0..MaxSuspends /\ req_queue_empty' \in Nat
      BY <2>4 DEF QueueEmpty, TypeOK
    <3>b. {irq, irq_on, work, req_completed, hw_running}' \subseteq BOOLEAN
      BY <2>4 DEF QueueEmpty, TypeOK, wake, worker
    <3>1. TypeOK'
      BY <2>4, <3>0, <3>b DEF QueueEmpty, PM, TypeOK, block, slots, count, chan, worker
    <3>2. Stopped'
      BY <2>4 DEF QueueEmpty, PM, Stopped, worker
    <3> QED BY <3>1, <3>2
  <2>5. CASE flush_workqueue
    BY <2>5 DEF flush_workqueue, At, PM, TypeOK, Stopped, block, slots, count, chan, wake, worker
  <2>6. CASE MarkActive
    BY <2>6 DEF MarkActive, PM, TypeOK, Stopped, block, slots, count, chan, wake, worker
  <2>7. CASE Resume
    BY <2>7 DEF Resume, PM, TypeOK, Stopped, block, slots, count, chan, worker
  <2>8. CASE Drain
    BY <2>8 DEF Drain, TypeOK, Stopped, block, chan, wake, worker, power
  <2> QED BY <2>1, <2>2, <2>3, <2>4, <2>5, <2>6, <2>7, <2>8 DEF Power
<1> QED BY <1>1, <1>2, <1>3

\* The server moves a slot id along the wire.
LEMMA ServerInv ==
  ASSUME Inv, Server
  PROVE  Inv'
<1> USE VblkAssumption DEF Inv
<1>0. UNCHANGED <<bio, req_list, pending_reqs, slot_req, inflight_reqs, worker, pm, queue_state>>
  BY DEF Server, ServerTake, ServerAnswer, block, slots, count, power
<1>1. CASE ServerTake
  <2>1. /\ Head(tx) \in Slots /\ Head(tx) \in There
        /\ tx' \in Seq(Slots) /\ Len(tx') < Len(tx) /\ Len(tx') \in Nat /\ Len(tx) \in Nat
        /\ Distinct(tx') /\ There' = There \ {Head(tx)}
    BY <1>1, TailFacts DEF ServerTake, TypeOK, OnWireOnce, There
  <2>2. Returned' = Returned /\ Distinct(Back(rx))' /\ serving' = serving \cup {Head(tx)}
    BY <1>1 DEF ServerTake, Returned, OnWireOnce
  <2>3. TypeOK'
    BY <1>1, <2>1 DEF ServerTake, TypeOK, block, slots, count, worker, power
  <2>4. OnWireOnce' /\ Wire' = Wire
    BY <2>1, <2>2 DEF OnWireOnce, Wire
  <2>5. SlotsInUse' /\ WorkersSlot' /\ ListedOnce' /\ Stopped'
    BY <1>0, <2>1, <2>4 DEF SlotsInUse, WorkersSlot, ListedOnce, Stopped, Freeing, RefusedNow, TypeOK,
                            worker
  <2> QED BY <2>3, <2>4, <2>5
<1>2. ASSUME NEW s \in Slots, NEW ok \in BOOLEAN, ServerAnswer(s, ok) PROVE Inv'
  <2> DEFINE m == [slot |-> s, ok |-> ok]
  <2>1. Back(rx) \in Seq(Slots) /\ Back(rx') = Append(Back(rx), s)
    BY <1>2, BackFacts DEF ServerAnswer, TypeOK
  <2>2. s \notin Returned
    BY <1>2 DEF ServerAnswer, OnWireOnce
  <2>3. Distinct(Back(rx')) /\ Returned' = Returned \cup {s}
    BY <2>1, <2>2, AppendFacts DEF Returned, OnWireOnce
  <2>4. There' = There /\ Distinct(tx') /\ serving' = serving \ {s} /\ s \in serving
    BY <1>2 DEF ServerAnswer, There, OnWireOnce
  <2>5. /\ rx' \in Seq([slot : Slots, ok : BOOLEAN]) /\ Len(rx') = Len(rx) + 1
        /\ Len(rx) \in Nat
    <3>1. m \in [slot : Slots, ok : BOOLEAN]
      OBVIOUS
    <3>2. rx \in Seq([slot : Slots, ok : BOOLEAN]) /\ rx' = Append(rx, m)
      BY <1>2 DEF ServerAnswer, TypeOK
    <3> HIDE DEF m
    <3> QED BY <3>1, <3>2, AppendFacts, LenProperties
  <2>6. TypeOK'
    BY <1>2, <2>5 DEF ServerAnswer, TypeOK, block, slots, count, worker, power
  <2>7. OnWireOnce' /\ Wire' = Wire
    BY <2>3, <2>4 DEF OnWireOnce, Wire
  <2>8. SlotsInUse' /\ WorkersSlot' /\ ListedOnce' /\ Stopped'
    <3>1. UNCHANGED tx
      BY <1>2 DEF ServerAnswer
    <3> QED BY <1>0, <2>7, <3>1 DEF SlotsInUse, WorkersSlot, ListedOnce, Stopped, Freeing, RefusedNow,
                                    TypeOK, worker
  <2> QED BY <2>6, <2>7, <2>8
<1> QED BY <1>1, <1>2 DEF Server

\* Steps of the work item that only decide where it goes next.
LEMMA DecideInv ==
  ASSUME Inv, StartWork \/ NothingToComplete \/ BeginSubmit \/ NothingToPick
  PROVE  Inv'
<1> USE VblkAssumption DEF Inv
<1>0. UNCHANGED <<block, slots, chan, wslot, wreq, power>>
  BY DEF StartWork, NothingToComplete, BeginSubmit, NothingToPick
<1>1. OnWireOnce' /\ Wire' = Wire
  BY <1>0 DEF OnWireOnce, Wire, There, Returned, chan
<1> USE DEF SlotsInUse, WorkersSlot, ListedOnce, Stopped, Freeing, RefusedNow, At, Goto,
            block, slots, count, chan, power
<1>2. CASE StartWork
  <2>1. TypeOK'
    BY <1>0, <1>2, ZenonT(40) DEF StartWork, TypeOK
  <2> QED BY <1>0, <1>1, <1>2, <2>1 DEF StartWork
<1>3. CASE NothingToComplete
  <2>1. TypeOK'
    BY <1>0, <1>3, ZenonT(40) DEF NothingToComplete, TypeOK, wake
  <2> QED BY <1>0, <1>1, <1>3, <2>1 DEF NothingToComplete
<1>4. CASE BeginSubmit
  <2>1. TypeOK'
    BY <1>0, <1>4 DEF BeginSubmit, NotSubmitted, TypeOK, wake
  <2> QED BY <1>0, <1>1, <1>4, <2>1 DEF BeginSubmit, NotSubmitted, CanSubmit
<1>5. CASE NothingToPick
  <2>1. TypeOK'
    BY <1>0, <1>5 DEF NothingToPick, TypeOK, wake
  <2> QED BY <1>0, <1>1, <1>5, <2>1 DEF NothingToPick
<1> QED BY <1>2, <1>3, <1>4, <1>5

\* complete_bio_req() takes an answer from the ring.
LEMMA CompleteInv ==
  ASSUME Inv, complete_bio_req
  PROVE  Inv'
<1> USE VblkAssumption DEF Inv
<1> DEFINE s == Head(rx).slot
<1>0. /\ UNCHANGED <<bio, ioctl_lock, req_list, pending_reqs, slot_req, count, tx, serving, wake,
                     wreq, power>>
      /\ wpc = "complete" /\ wpc' = "put" /\ wret' = "completed" /\ wslot' = s
      /\ rx # <<>> /\ rx' = Tail(rx) /\ req_completed' = TRUE
      /\ \E n \in {1, 2} : /\ ends' = [ends EXCEPT ![slot_req[s]] = @ + n]
                           /\ inflight_ioctl_reqs' = CountedBack(slot_req[s], n)
  BY DEF complete_bio_req, At, Goto, End, Answered
<1>1. Back(rx) \in Seq(Slots) /\ Back(rx) # <<>> /\ Head(Back(rx)) = s /\ Back(rx') = Tail(Back(rx))
  BY <1>0, BackFacts DEF TypeOK
<1>2. /\ s \in Slots /\ s \in Returned /\ Distinct(Back(rx'))
      /\ Returned' = Returned \ {s}
  BY <1>1, TailFacts DEF OnWireOnce, Returned
<1>3. There' = There /\ serving' = serving /\ Distinct(tx')
  BY <1>0 DEF There, OnWireOnce
<1>4. OnWireOnce' /\ Wire' = Wire \ {s} /\ s \in Wire
  BY <1>2, <1>3 DEF OnWireOnce, Wire
<1>5. /\ rx' \in Seq([slot : Slots, ok : BOOLEAN]) /\ Len(rx') <= Nframes
  BY <1>0, TailFacts DEF TypeOK
<1>6. ends' \in [Reqs -> Nat] /\ inflight_ioctl_reqs' \in 0..(U32Mod - 1)
  <2>1. PICK n \in {1, 2} : /\ ends' = [ends EXCEPT ![slot_req[s]] = @ + n]
                            /\ inflight_ioctl_reqs' = CountedBack(slot_req[s], n)
    BY <1>0
  <2>2. ends' \in [Reqs -> Nat]
    <3>1. \A r \in Reqs : ends[r] \in Nat /\ ends[r] + n \in Nat
      BY DEF TypeOK
    <3> QED BY <2>1, <3>1 DEF TypeOK
  <2>3. inflight_ioctl_reqs - n \in Int
    BY DEF TypeOK
  <2> QED BY <2>1, <2>2, <2>3, CounterRange DEF TypeOK, CountedBack
<1> HIDE DEF s
<1>7. TypeOK'
  <2>1. {irq, irq_on, work, req_completed, hw_running}' \subseteq BOOLEAN
    BY <1>0 DEF TypeOK, wake, power
  <2> QED BY <1>0, <1>2, <1>5, <1>6, <2>1 DEF TypeOK, count, power
<1>8. SlotsInUse' /\ WorkersSlot' /\ ListedOnce' /\ Stopped'
  BY <1>0, <1>2, <1>4 DEF SlotsInUse, WorkersSlot, ListedOnce, Stopped, Freeing, RefusedNow, TypeOK,
                          count, power
<1> QED BY <1>4, <1>7, <1>8

\* vblk_put_req() frees the slot of the work item.
LEMMA PutInv ==
  ASSUME Inv, vblk_put_req
  PROVE  Inv'
<1> USE VblkAssumption DEF Inv
<1>0. /\ UNCHANGED <<block, inflight_ioctl_reqs, chan, wake, wslot, wreq, wret, req_completed, power>>
      /\ wpc = "put" /\ wpc' = "put_check"
      /\ pending_reqs' = pending_reqs \ {wslot} /\ slot_req' = [slot_req EXCEPT ![wslot] = None]
      /\ inflight_reqs' = inflight_reqs - 1
      /\ inflight_seen' \in {inflight_seen, inflight_reqs'}
  BY DEF vblk_put_req, FreeTheSlot, StoreInflight, At, Goto
<1>1. OnWireOnce' /\ Wire' = Wire
  BY <1>0 DEF OnWireOnce, Wire, There, Returned, chan
<1>2. wslot \in pending_reqs /\ wslot \notin Wire
  BY <1>0 DEF WorkersSlot
<1>3. inflight_reqs' = Cardinality(pending_reqs') /\ inflight_reqs' \in 0..MaxRequests
  <2>1. IsFiniteSet(Slots)
    BY FS_Interval DEF Slots
  <2>2. IsFiniteSet(pending_reqs)
    BY <2>1, FS_Subset DEF TypeOK
  <2>3. IsFiniteSet(pending_reqs') /\ Cardinality(pending_reqs') = Cardinality(pending_reqs) - 1
    BY <1>0, <1>2, <2>2, FS_RemoveElement
  <2>4. Cardinality(pending_reqs') \in Nat
    BY <2>3, FS_CardinalityType
  <2> QED BY <1>0, <2>3, <2>4 DEF WorkersSlot, TypeOK
<1>4. TypeOK'
  BY <1>0, <1>3 DEF TypeOK, block, chan, wake, power
<1>5. SlotsInUse' /\ WorkersSlot' /\ ListedOnce' /\ Stopped'
  BY <1>0, <1>1, <1>2, <1>3, SMTT(30) DEF SlotsInUse, WorkersSlot, ListedOnce, Stopped, Freeing, RefusedNow,
                                TypeOK, block, power, chan
<1> QED BY <1>1, <1>4, <1>5

\* Behind vblk_put_req(): a refused request is ended here.
LEMMA AfterPutInv ==
  ASSUME Inv, PutCheck \/ PutSignal
  PROVE  Inv'
<1> USE VblkAssumption DEF Inv
<1>0. /\ UNCHANGED <<bio, ioctl_lock, req_list, slots, chan, wake, wslot, wreq, wret,
                     req_completed, pm, queue_state, hw_running, suspends>>
      /\ wpc \in {"put_check", "put_signal"}
      /\ req_queue_empty' \in {req_queue_empty, req_queue_empty + 1}
      /\ wpc' \in {"put_signal", "submit", "complete", "off"}
      /\ ends' = ends \/ (ends' = [ends EXCEPT ![wreq] = @ + 1])
  <2>1. CASE PutCheck
    BY <2>1 DEF PutCheck, AfterPut, NotSubmitted, At, Goto, End, block, power, TypeOK
  <2>2. CASE PutSignal
    BY <2>2 DEF PutSignal, AfterPut, NotSubmitted, At, Goto, End, TypeOK
  <2> QED BY <2>1, <2>2
<1>1. OnWireOnce' /\ Wire' = Wire
  BY <1>0 DEF OnWireOnce, Wire, There, Returned, chan
<1>2. TypeOK'
  <2>1. ends' \in [Reqs -> Nat]
    BY <1>0 DEF TypeOK
  <2>2. req_queue_empty' \in Nat
    BY <1>0 DEF TypeOK
  <2> QED BY <1>0, <2>1, <2>2 DEF TypeOK, slots, count, chan, wake
<1>3. SlotsInUse' /\ WorkersSlot' /\ ListedOnce' /\ Stopped'
  BY <1>0, <1>1 DEF SlotsInUse, WorkersSlot, ListedOnce, Stopped, Freeing, RefusedNow,
                    slots, count, chan
<1> QED BY <1>1, <1>2, <1>3

\* vblk_get_req() reserves the lowest free slot, or finds none.
LEMMA GetInv ==
  ASSUME Inv, vblk_get_req
  PROVE  Inv'
<1> USE VblkAssumption DEF Inv
<1>0. /\ UNCHANGED <<block, slot_req, inflight_ioctl_reqs, chan, wake, wreq, wret, req_completed,
                     power>>
      /\ wpc = "get"
  BY DEF vblk_get_req, At
<1>1. OnWireOnce' /\ Wire' = Wire
  BY <1>0 DEF OnWireOnce, Wire, There, Returned, chan
<1>2. CASE FreeSlot = {}
  <2>1. UNCHANGED <<pending_reqs, count, wslot>> /\ wpc' \in {"complete", "off"}
    BY <1>2 DEF vblk_get_req, NotSubmitted, Goto
  <2>2. TypeOK'
    BY <1>0, <2>1 DEF TypeOK, block, count, chan, wake, power
  <2> QED BY <1>0, <1>1, <2>1, <2>2
          DEF SlotsInUse, WorkersSlot, ListedOnce, Stopped, Freeing, RefusedNow, block, count, power, chan
<1>3. CASE FreeSlot # {}
  <2>1. /\ wslot' \in Slots \ pending_reqs /\ pending_reqs' = pending_reqs \cup {wslot'}
        /\ inflight_reqs' = inflight_reqs + 1 /\ inflight_seen' \in {inflight_seen, inflight_reqs'}
        /\ wpc' = "pick"
    BY <1>3 DEF vblk_get_req, FreeSlot, StoreInflight, Goto
  <2>2. inflight_reqs' = Cardinality(pending_reqs') /\ inflight_reqs' \in 0..MaxRequests
    <3>1. IsFiniteSet(Slots) /\ Cardinality(Slots) = MaxRequests
      BY FS_Interval DEF Slots
    <3>2. IsFiniteSet(pending_reqs)
      BY <3>1, FS_Subset DEF TypeOK
    <3>3. Cardinality(pending_reqs') = Cardinality(pending_reqs) + 1
      BY <2>1, <3>2, FS_AddElement
    <3>4. pending_reqs' \subseteq Slots
      BY <2>1 DEF TypeOK
    <3>5. Cardinality(pending_reqs') <= MaxRequests
      BY <3>1, <3>4, FS_Subset
    <3> QED BY <2>1, <3>3, <3>5 DEF WorkersSlot, TypeOK
  <2>3. TypeOK'
    BY <1>0, <2>1, <2>2 DEF TypeOK, block, chan, wake, power
  <2>4. wslot' \notin Wire
    BY <2>1 DEF SlotsInUse
  <2>5. SlotsInUse'
    BY <1>0, <1>1, <2>1 DEF SlotsInUse, Freeing, block
  <2>6. WorkersSlot' /\ ListedOnce' /\ Stopped'
    BY <1>0, <1>1, <2>1, <2>2, <2>4
       DEF WorkersSlot, ListedOnce, Stopped, Freeing, RefusedNow, block, power, chan
  <2> QED BY <1>1, <2>3, <2>5, <2>6
<1> QED BY <1>2, <1>3

\* Taking the first request of the list.
LEMMA PickFacts ==
  ASSUME Inv, NEW r \in Reqs, Pick(r)
  PROVE  /\ wpc = "pick" /\ r \in Elems(req_list) /\ bio[r] = "listed"
         /\ bio' = [bio EXCEPT ![r] = "taken"]
         /\ req_list' \in Seq(Reqs) /\ Distinct(req_list')
         /\ \A x \in Elems(req_list') : bio'[x] = "listed"
         /\ slot_req[wslot] = None
         /\ \A s \in Slots : slot_req[s] # r
<1>1. req_list # <<>> /\ r = Head(req_list) /\ req_list' = Tail(req_list) /\ wpc = "pick"
      /\ bio' = [bio EXCEPT ![r] = "taken"]
  BY DEF Pick, Pickable, At
<1>2. /\ r \in Elems(req_list) /\ req_list' \in Seq(Reqs) /\ Distinct(req_list')
      /\ Elems(req_list') = Elems(req_list) \ {r}
  BY <1>1, TailFacts DEF Inv, TypeOK, ListedOnce
<1>3. bio[r] = "listed" /\ \A x \in Elems(req_list') : x \in Reqs /\ bio'[x] = "listed"
  <2>1. \A x \in Elems(req_list) : x \in Reqs /\ bio[x] = "listed"
    BY DEF Inv, TypeOK, ListedOnce, Elems
  <2> QED BY <1>1, <1>2, <2>1 DEF Inv, TypeOK
<1>4. slot_req[wslot] = None /\ \A s \in Slots : slot_req[s] # r
  BY <1>1, <1>3, VblkAssumption, SMTT(30) DEF Inv, TypeOK, WorkersSlot, SlotsInUse, Freeing
<1> QED BY <1>1, <1>2, <1>3, <1>4

\* submit_bio_req(), refusing or sending the request.
LEMMA SubmitInv ==
  ASSUME Inv, NEW r \in Reqs, RefuseReq(r) \/ submit_bio_req(r)
  PROVE  Inv'
<1> USE VblkAssumption DEF Inv
<1>0. /\ wpc = "pick" /\ r \in Elems(req_list) /\ bio[r] = "listed"
      /\ bio' = [bio EXCEPT ![r] = "taken"]
      /\ req_list' \in Seq(Reqs) /\ Distinct(req_list')
      /\ \A x \in Elems(req_list') : bio'[x] = "listed"
      /\ slot_req[wslot] = None
      /\ \A s \in Slots : slot_req[s] # r
  BY PickFacts DEF RefuseReq, submit_bio_req
<1>1. CASE RefuseReq(r)
  <2>0. /\ UNCHANGED <<ends, ioctl_lock, slots, chan, wake, wslot, req_completed, power>>
        /\ wreq' = r /\ wret' = "refused" /\ wpc' = "put"
    BY <1>1 DEF RefuseReq, Goto
  <2>1. OnWireOnce' /\ Wire' = Wire
    BY <2>0 DEF OnWireOnce, Wire, There, Returned, chan
  <2>2. TypeOK'
    BY <1>0, <2>0 DEF TypeOK, slots, count, chan, wake, power
  <2>3. SlotsInUse'
    BY <1>0, <2>0, <2>1 DEF SlotsInUse, TypeOK, Freeing, slots
  <2>4. WorkersSlot' /\ ListedOnce' /\ Stopped'
    BY <1>0, <2>0, <2>1 DEF WorkersSlot, ListedOnce, Stopped, Freeing, RefusedNow, TypeOK, slots,
                            count, power
  <2> QED BY <2>1, <2>2, <2>3, <2>4
<1>2. CASE submit_bio_req(r)
  <2>0. /\ UNCHANGED <<ends, ioctl_lock, pending_reqs, count, serving, rx, wake, wslot, wreq, wret,
                       req_completed, power>>
        /\ slot_req' = [slot_req EXCEPT ![wslot] = r] /\ tx' = Append(tx, wslot)
        /\ wpc' = "complete"
        /\ inflight_ioctl_reqs' = IF r \in Ioctls THEN (inflight_ioctl_reqs + 1) % U32Mod
                                  ELSE inflight_ioctl_reqs
    BY <1>2 DEF submit_bio_req, Goto
  <2>1. wslot \in Slots /\ wslot \in pending_reqs /\ wslot \notin Wire /\ Len(tx) < Nframes
    BY <1>0 DEF TypeOK, WorkersSlot
  <2>2. /\ tx' \in Seq(Slots) /\ Len(tx') = Len(tx) + 1 /\ Len(tx) \in Nat
        /\ There' = There \cup {wslot} /\ Distinct(tx')
    BY <2>0, <2>1, AppendFacts, LenProperties DEF There, Wire, OnWireOnce, TypeOK
  <2>3. Returned' = Returned /\ Distinct(Back(rx'))
    BY <2>0 DEF Returned, OnWireOnce
  <2>4. OnWireOnce' /\ Wire' = Wire \cup {wslot}
    BY <2>0, <2>1, <2>2, <2>3 DEF OnWireOnce, Wire
  <2>5. TypeOK'
    <3>1. inflight_ioctl_reqs' \in 0..(U32Mod - 1)
      <4>1. inflight_ioctl_reqs + 1 \in Int
        BY DEF TypeOK
      <4> QED BY <2>0, <4>1, CounterRange DEF TypeOK
    <3>2. Len(tx') <= Nframes
      BY <2>1, <2>2
    <3>3. /\ slot_req' \in [Slots -> Reqs \cup {None}]
          /\ bio' \in [Reqs -> {"new", "dispatched", "listed", "taken"}]
      BY <1>0, <2>0 DEF TypeOK
    <3> QED BY <1>0, <2>0, <2>1, <2>2, <3>1, <3>2, <3>3 DEF TypeOK, count, wake, power
  <2>6. SlotsInUse'
    BY <1>0, <2>0, <2>1, <2>4 DEF SlotsInUse, TypeOK, Freeing
  <2>7. WorkersSlot' /\ ListedOnce' /\ Stopped'
    BY <1>0, <2>0 DEF WorkersSlot, ListedOnce, Stopped, Freeing, RefusedNow, count, power
  <2> QED BY <2>4, <2>5, <2>6, <2>7
<1> QED BY <1>1, <1>2

\* The invariant holds throughout, whatever the server answers.
THEOREM Invariance == Spec => []Inv
<1>1. Inv /\ [Next]_vars => Inv'
  <2> SUFFICES ASSUME Inv, [Next]_vars PROVE Inv'
    OBVIOUS
  <2>1. CASE UNCHANGED vars
    BY <2>1 DEF Inv, TypeOK, OnWireOnce, SlotsInUse, WorkersSlot, ListedOnce, Stopped, Wire, There,
                Returned, Freeing, RefusedNow, vars, block, slots, count, chan, wake, worker, power
  <2> QED
    BY <2>1, SubmitterInv, PowerInv, ServerInv, DecideInv, CompleteInv, PutInv, AfterPutInv, GetInv,
       SubmitInv DEF Next, Work
<1> QED BY <1>1, InitInv, PTL DEF Spec

\* Every variable keeps its type; inflight_reqs never leaves 0..max_requests, and
\* the rings never hold more than their frames.
THEOREM TypeCorrect == Spec => []TypeOK
<1>1. Inv => TypeOK
  BY DEF Inv
<1> QED BY <1>1, Invariance, PTL

\* While the driver is suspended it sends nothing, even though a late request may
\* queue the work again.
THEOREM SuspendedIsSilent == Spec => SuspendedSubmitsNothing
<1>1. Inv /\ [Next]_vars => [pm = "suspended" => Len(tx') <= Len(tx)]_vars
  <2> SUFFICES ASSUME Inv, Next, pm = "suspended" PROVE Len(tx') <= Len(tx)
    OBVIOUS
  <2>0. Len(tx) \in Nat
    BY LenProperties DEF Inv, TypeOK
  <2>1. CASE ServerTake
    <3>1. Len(tx') = Len(tx) - 1
      BY <2>1, TailFacts DEF ServerTake, Inv, TypeOK
    <3> QED BY <2>0, <3>1
  <2>2. ASSUME NEW r \in Reqs, submit_bio_req(r) PROVE FALSE
    BY <2>2 DEF submit_bio_req, Pick, At, Inv, Stopped
  <2>3. CASE UNCHANGED tx
    BY <2>0, <2>3
  <2> QED
    BY <2>1, <2>2, <2>3
       DEF Next, Work, Server, Power, Dispatch, vblk_request, vblk_request_nomem, IoctlReturns,
           ivc_irq_handler, StartWork, NothingToComplete, complete_bio_req, vblk_put_req, PutCheck,
           PutSignal, AfterPut, BeginSubmit, vblk_get_req, NothingToPick, RefuseReq, ServerAnswer,
           StopQueues, MarkSuspended, CheckInflight, QueueEmpty, flush_workqueue, MarkActive, Resume,
           Drain, chan
<1> QED BY <1>1, Invariance, PTL DEF Spec, SuspendedSubmitsNothing

-----------------------------------------------------------------------------
(* When the server reports no errors.                                      *)

\* An answer taken or added: all of them are good if they were.
LEMMA OkFacts ==
  ASSUME NEW q \in Seq([slot : Slots, ok : BOOLEAN]), \A i \in 1..Len(q) : q[i].ok
  PROVE  /\ q # <<>> => Head(q).ok /\ \A i \in 1..Len(Tail(q)) : Tail(q)[i].ok
         /\ \A s \in Slots : LET p == Append(q, [slot |-> s, ok |-> TRUE])
                             IN  \A i \in 1..Len(p) : p[i].ok
<1>1. ASSUME q # <<>> PROVE Head(q).ok /\ \A i \in 1..Len(Tail(q)) : Tail(q)[i].ok
  BY <1>1, TailFacts
<1>2. ASSUME NEW s \in Slots
      PROVE  LET p == Append(q, [slot |-> s, ok |-> TRUE]) IN \A i \in 1..Len(p) : p[i].ok
  <2> DEFINE m == [slot |-> s, ok |-> TRUE]
  <2>1. m.ok
    OBVIOUS
  <2> HIDE DEF m
  <2>2. /\ Len(Append(q, m)) = Len(q) + 1 /\ Len(q) \in Nat
        /\ \A i \in 1..Len(q) : Append(q, m)[i] = q[i]
        /\ Append(q, m)[Len(q) + 1] = m
    BY LenProperties
  <2>3. \A i \in 1..Len(Append(q, m)) : Append(q, m)[i].ok
    BY <2>1, <2>2
  <2> QED BY <2>3 DEF m
<1> QED BY <1>1, <1>2

\* No step ends a request twice, or one that the server still has.
LEMMA NotEndedStep ==
  ASSUME ~ServerErrors, Inv, Inv', NotEnded, Next
  PROVE  NotEnded'
<1> USE VblkAssumption DEF NotEnded, EndedOnce
<1>w. Wire \subseteq Slots /\ wslot \in Slots
  BY WireFacts DEF Inv, TypeOK
<1>t. /\ bio \in [Reqs -> {"new", "dispatched", "listed", "taken"}] /\ ends \in [Reqs -> Nat]
      /\ slot_req \in [Slots -> Reqs \cup {None}]
      /\ \A s \in Slots : s \in Wire => slot_req[s] \in Reqs /\ bio[slot_req[s]] = "taken"
  BY DEF Inv, TypeOK, SlotsInUse
<1>1. ASSUME NEW r \in Reqs, Dispatch(r) \/ vblk_request(r) PROVE NotEnded'
  <2>1. UNCHANGED <<ends, slot_req, tx, serving, rx, worker>> /\ bio[r] # "taken"
    BY <1>1 DEF Dispatch, vblk_request, slots, chan
  <2>2. Wire' = Wire
    BY <2>1 DEF Wire, There, Returned
  <2>3. \A x \in Reqs : bio'[x] # "taken" => bio[x] # "taken"
    BY <1>1, <1>t, <2>1 DEF Dispatch, vblk_request
  <2> QED BY <2>1, <2>2, <2>3 DEF RefusedNow, worker
<1>2. ASSUME NEW r \in Reqs, vblk_request_nomem(r) PROVE NotEnded'
  <2>1. /\ UNCHANGED <<slot_req, tx, serving, rx, worker>> /\ bio[r] = "dispatched"
        /\ ends' = [ends EXCEPT ![r] = @ + 1] /\ bio' = [bio EXCEPT ![r] = "taken"]
    BY <1>2 DEF vblk_request_nomem, slots, chan
  <2>2. Wire' = Wire
    BY <2>1 DEF Wire, There, Returned
  <2>3. RefusedNow => wreq \in Reqs /\ wreq # r
    BY <2>1 DEF Inv, ListedOnce
  <2> QED BY <1>t, <2>1, <2>2, <2>3 DEF RefusedNow, worker
<1>3. CASE complete_bio_req
  <2> DEFINE s == Head(rx).slot
  <2>0. /\ rx # <<>> /\ rx' = Tail(rx) /\ UNCHANGED <<bio, slot_req, tx, serving>>
        /\ wret' = "completed"
        /\ ends' = [ends EXCEPT ![slot_req[s]] = @ + Answered(slot_req[s], Head(rx).ok)]
    BY <1>3 DEF complete_bio_req, At, Goto, End
  <2>1. Head(rx).ok /\ \A i \in 1..Len(rx') : rx'[i].ok
    BY <2>0, OkFacts DEF Inv, TypeOK
  <2>2. Back(rx) \in Seq(Slots) /\ Back(rx) # <<>> /\ Head(Back(rx)) = s /\ Back(rx') = Tail(Back(rx))
    BY <2>0, BackFacts DEF Inv, TypeOK
  <2>3. s \in Slots /\ s \in Returned /\ Returned' = Returned \ {s}
    BY <2>2, TailFacts DEF Inv, OnWireOnce, Returned
  <2>4. s \in Wire /\ Wire' = Wire \ {s}
    BY <2>0, <2>3 DEF Wire, There, Inv, OnWireOnce
  <2> HIDE DEF s
  <2>5. ends' = [ends EXCEPT ![slot_req[s]] = @ + 1] /\ slot_req[s] \in Reqs
    BY <1>t, <2>0, <2>1, <2>3, <2>4 DEF Answered
  <2>6. \A t \in Slots : t \in Wire' => slot_req[t] # slot_req[s]
    BY <1>t, <2>3, <2>4 DEF Inv, SlotsInUse
  <2>7. \A r \in Reqs : bio'[r] # "taken" => ends'[r] = 0
    BY <1>t, <2>0, <2>3, <2>4, <2>5
  <2>8. \A t \in Slots : t \in Wire' => ends'[slot_req'[t]] = 0
    BY <1>t, <2>0, <2>4, <2>5, <2>6
  <2>9. \A r \in Reqs : ends'[r] <= 1
    BY <1>t, <2>3, <2>4, <2>5
  <2> QED BY <2>0, <2>1, <2>7, <2>8, <2>9 DEF RefusedNow
<1>4. CASE vblk_put_req
  <2>1. /\ UNCHANGED <<bio, ends, tx, serving, rx, wreq, wret>> /\ wpc = "put"
        /\ slot_req' = [slot_req EXCEPT ![wslot] = None]
    BY <1>4 DEF vblk_put_req, FreeTheSlot, At, block, chan
  <2>2. Wire' = Wire /\ wslot \notin Wire
    BY <2>1 DEF Wire, There, Returned, Inv, WorkersSlot
  <2> QED BY <1>t, <1>w, <2>1, <2>2 DEF RefusedNow
<1>5. CASE PutCheck \/ PutSignal
  <2>1. /\ UNCHANGED <<bio, slot_req, tx, serving, rx, wreq, wret>>
        /\ wpc \in {"put_check", "put_signal"}
        /\ \/ ends' = ends /\ (wret = "refused" => wpc' = "put_signal")
           \/ wret = "refused" /\ ends' = [ends EXCEPT ![wreq] = @ + 1] /\ wpc' = "complete"
    <3>1. CASE PutCheck
      BY <3>1 DEF PutCheck, AfterPut, NotSubmitted, At, Goto, End, block, power, slots, chan, Inv, TypeOK
    <3>2. CASE PutSignal
      BY <3>2 DEF PutSignal, AfterPut, NotSubmitted, At, Goto, End, slots, chan, Inv, TypeOK
    <3> QED BY <1>5, <3>1, <3>2
  <2>2. Wire' = Wire
    BY <2>1 DEF Wire, There, Returned
  <2>3. CASE ends' = ends /\ (wret = "refused" => wpc' = "put_signal")
    BY <2>1, <2>2, <2>3 DEF RefusedNow
  <2>4. CASE wret = "refused" /\ ends' = [ends EXCEPT ![wreq] = @ + 1] /\ wpc' = "complete"
    <3>1. wreq \in Reqs /\ bio[wreq] = "taken" /\ ends[wreq] = 0 /\ \A s \in Slots : slot_req[s] # wreq
      BY <2>1, <2>4 DEF RefusedNow, Inv, ListedOnce
    <3>2. \A r \in Reqs : ends'[r] <= 1 /\ (bio'[r] # "taken" => ends'[r] = 0)
      BY <1>t, <2>1, <2>4, <3>1
    <3>3. \A s \in Slots : s \in Wire' => ends'[slot_req'[s]] = 0
      BY <1>t, <2>1, <2>2, <2>4, <3>1
    <3> QED BY <2>1, <2>4, <3>2, <3>3 DEF RefusedNow
  <2> QED BY <2>1, <2>3, <2>4
<1>6. ASSUME NEW r \in Reqs, RefuseReq(r) PROVE NotEnded'
  <2>1. /\ UNCHANGED <<ends, slot_req, tx, serving, rx>>
        /\ bio' = [bio EXCEPT ![r] = "taken"] /\ wreq' = r /\ bio[r] = "listed"
    BY <1>6, PickFacts DEF RefuseReq, slots, chan
  <2>2. Wire' = Wire
    BY <2>1 DEF Wire, There, Returned
  <2> QED BY <1>t, <2>1, <2>2
<1>7. ASSUME NEW r \in Reqs, submit_bio_req(r) PROVE NotEnded'
  <2>1. /\ UNCHANGED <<ends, serving, rx>> /\ wpc' = "complete" /\ bio[r] = "listed"
        /\ bio' = [bio EXCEPT ![r] = "taken"] /\ slot_req' = [slot_req EXCEPT ![wslot] = r]
        /\ tx' = Append(tx, wslot)
    BY <1>7, PickFacts DEF submit_bio_req, Goto
  <2>2. There' = There \cup {wslot}
    BY <1>w, <2>1, AppendFacts DEF There, Inv, TypeOK
  <2>3. Wire' = Wire \cup {wslot}
    BY <2>1, <2>2 DEF Wire, Returned
  <2> QED BY <1>t, <1>w, <2>1, <2>3 DEF RefusedNow
<1>8. CASE ServerTake
  <2>1. UNCHANGED <<bio, ends, slot_req, rx, worker>> /\ serving' = serving \cup {Head(tx)}
    BY <1>8 DEF ServerTake, block, slots
  <2>2. There' = There \ {Head(tx)} /\ Head(tx) \in There
    BY <1>8, TailFacts DEF ServerTake, There, Inv, TypeOK, OnWireOnce
  <2>3. Wire' = Wire
    BY <2>1, <2>2 DEF Wire, Returned
  <2> QED BY <2>1, <2>3 DEF RefusedNow, worker
<1>9. ASSUME NEW s \in Slots, NEW ok \in BOOLEAN, ServerAnswer(s, ok) PROVE NotEnded'
  <2>1. /\ UNCHANGED <<bio, ends, slot_req, tx, worker>> /\ serving' = serving \ {s} /\ s \in serving
        /\ rx' = Append(rx, [slot |-> s, ok |-> TRUE])
    BY <1>9 DEF ServerAnswer, block, slots
  <2>2. Back(rx') = Append(Back(rx), s) /\ Back(rx) \in Seq(Slots)
    BY <2>1, BackFacts DEF Inv, TypeOK
  <2>3. Returned' = Returned \cup {s}
    BY <2>2, AppendFacts DEF Returned
  <2>4. Wire' = Wire
    BY <2>1, <2>3 DEF Wire, There
  <2>5. \A i \in 1..Len(rx') : rx'[i].ok
    BY <2>1, OkFacts DEF Inv, TypeOK
  <2> QED BY <2>1, <2>4, <2>5 DEF RefusedNow, worker
<1>10. CASE UNCHANGED <<bio, ends, slot_req, tx, serving, rx>> /\ ~RefusedNow'
  BY <1>10 DEF Wire, There, Returned
<1>11. CASE UNCHANGED <<bio, ends, slot_req, tx, serving, rx, worker>>
  BY <1>11 DEF Wire, There, Returned, RefusedNow, worker
<1>12. CASE StartWork \/ NothingToComplete \/ BeginSubmit \/ vblk_get_req \/ NothingToPick
  <2>1. UNCHANGED <<bio, ends, slot_req, tx, serving, rx>>
    BY <1>12 DEF StartWork, NothingToComplete, BeginSubmit, vblk_get_req, NothingToPick, block, slots,
                 chan
  <2>2. ~RefusedNow'
    BY <1>12 DEF StartWork, NothingToComplete, BeginSubmit, vblk_get_req, NothingToPick, NotSubmitted,
                 RefusedNow, Goto
  <2> QED BY <1>10, <2>1, <2>2
<1>13. CASE IoctlReturns \/ ivc_irq_handler \/ Drain \/ StopQueues \/ Power
  <2>1. UNCHANGED <<bio, ends, slot_req, tx, serving, rx, worker>>
    BY <1>13 DEF IoctlReturns, ivc_irq_handler, Drain, StopQueues, Power, MarkSuspended, CheckInflight,
                 QueueEmpty, flush_workqueue, MarkActive, Resume, block, slots, chan
  <2> QED BY <1>11, <2>1
<1> QED
  BY <1>1, <1>2, <1>3, <1>4, <1>5, <1>6, <1>7, <1>8, <1>9, <1>12, <1>13 DEF Next, Work, Server

\* If the server reports no errors, a request ends when its answer is taken or
\* when it is refused.
THEOREM NotEndedHolds == ASSUME ~ServerErrors PROVE Spec => []NotEnded
<1>1. Init => NotEnded
  <2> SUFFICES ASSUME Init PROVE NotEnded
    OBVIOUS
  <2>1. Back(<<>>) = <<>>
    BY DEF Back
  <2>2. Wire = {}
    BY <2>1, EmptyFacts DEF Init, Wire, There, Returned
  <2> QED BY <2>2 DEF Init, NotEnded, EndedOnce, RefusedNow
<1>2. Inv /\ Inv' /\ NotEnded /\ [Next]_vars => NotEnded'
  <2>1. CASE Next
    BY <2>1, NotEndedStep
  <2>2. CASE UNCHANGED vars
    BY <2>2 DEF NotEnded, EndedOnce, RefusedNow, Wire, There, Returned, vars, block, slots, chan, worker
  <2> QED BY <2>1, <2>2
<1> QED BY <1>1, <1>2, Invariance, PTL DEF Spec

\* "Complete a bio request after server is done processing the request": no
\* request is handed back to the block layer twice, unless the server reports an
\* error.
THEOREM RequestsEndOnce == ASSUME ~ServerErrors PROVE Spec => []EndedOnce
<1>1. NotEnded => EndedOnce
  BY DEF NotEnded
<1> QED BY <1>1, NotEndedHolds, PTL

\* A response finds its request: each slot id on the wire is there once, and its
\* slot is pending and holds a request that has not ended.
THEOREM ResponsesMatch == ASSUME ~ServerErrors PROVE Spec => []AnswersMatch
<1>1. Inv /\ NotEnded => AnswersMatch
  <2> SUFFICES ASSUME Inv, NotEnded PROVE AnswersMatch
    OBVIOUS
  <2>1. Wire \subseteq Slots /\ Wire = OnTheWire
    BY WireFacts DEF Inv
  <2>2. \A s \in OnTheWire : s \in pending_reqs /\ slot_req[s] # None /\ ends[slot_req[s]] = 0
    BY <2>1 DEF Inv, SlotsInUse, NotEnded
  <2>3. Back(rx) \in Seq(Slots) /\ Len(Back(rx)) = Len(rx)
    BY BackFacts DEF Inv, TypeOK
  <2>4. /\ IsFiniteSet(There) /\ Cardinality(There) = Len(tx)
        /\ IsFiniteSet(Returned) /\ Cardinality(Returned) = Len(rx)
    BY <2>3, DistinctCount DEF Inv, TypeOK, OnWireOnce, There, Returned
  <2>5. IsFiniteSet(serving)
    <3>1. IsFiniteSet(Slots)
      BY FS_Interval, VblkAssumption DEF Slots
    <3> QED BY <3>1, FS_Subset DEF Inv, TypeOK
  <2>6. Cardinality(There) \in Nat /\ Cardinality(serving) \in Nat /\ Cardinality(Returned) \in Nat
    BY <2>4, <2>5, FS_CardinalityType
  <2>7. /\ IsFiniteSet(There \cup serving)
        /\ Cardinality(There \cup serving) = Len(tx) + Cardinality(serving)
    <3>1. Cardinality(There \cap serving) = 0
      BY FS_EmptySet DEF Inv, OnWireOnce
    <3>2. /\ IsFiniteSet(There \cup serving)
          /\ Cardinality(There \cup serving)
             = Cardinality(There) + Cardinality(serving) - Cardinality(There \cap serving)
      BY <2>4, <2>5, FS_Union
    <3> QED BY <2>4, <2>6, <3>1, <3>2
  <2>8. (There \cup serving) \cap Returned = {}
    BY DEF Inv, OnWireOnce
  <2>9. Cardinality(Wire) = Len(tx) + Cardinality(serving) + Len(rx)
    <3>1. Cardinality((There \cup serving) \cap Returned) = 0
      BY <2>8, FS_EmptySet
    <3>2. Cardinality(Wire) = Cardinality(There \cup serving) + Cardinality(Returned)
                              - Cardinality((There \cup serving) \cap Returned)
      BY <2>4, <2>7, FS_Union DEF Wire
    <3> QED BY <2>4, <2>6, <2>7, <3>1, <3>2
  <2> QED BY <2>1, <2>2, <2>9 DEF AnswersMatch
<1> QED BY <1>1, Invariance, NotEndedHolds, PTL

\* ioctl_lock keeps a second ioctl out until the first has ended, and the counter
\* follows it.
LEMMA OneIoctlStep ==
  ASSUME ~ServerErrors, Inv, Inv', NotEnded, OneIoctl, Next
  PROVE  OneIoctl'
<1> USE VblkAssumption
<1> DEFINE Out(sr, w) == \E s \in Slots : s \in w /\ sr[s] \in Ioctls
<1>w. Wire \subseteq Slots /\ wslot \in Slots
  BY WireFacts DEF Inv, TypeOK
<1>t. /\ bio \in [Reqs -> {"new", "dispatched", "listed", "taken"}] /\ ends \in [Reqs -> Nat]
      /\ slot_req \in [Slots -> Reqs \cup {None}]
      /\ \A s \in Slots : s \in Wire => slot_req[s] \in Reqs /\ bio[slot_req[s]] = "taken"
  BY DEF Inv, TypeOK, SlotsInUse
<1>o. /\ \A r \in Ioctls : bio[r] # "new" /\ ends[r] = 0 => ioctl_lock = r
      /\ \A s, t \in Slots : slot_req[s] \in Ioctls /\ slot_req[t] \in Ioctls => s = t
      /\ inflight_ioctl_reqs = IF Out(slot_req, Wire) THEN 1 ELSE 0
  BY DEF OneIoctl
<1>c. ASSUME UNCHANGED <<slot_req, inflight_ioctl_reqs>>, Wire' = Wire,
             \A r \in Ioctls : bio'[r] # "new" /\ ends'[r] = 0 => ioctl_lock' = r
      PROVE  OneIoctl'
  BY <1>c DEF OneIoctl
<1>1. ASSUME NEW r \in Reqs, Dispatch(r) PROVE OneIoctl'
  <2>1. /\ UNCHANGED <<ends, slot_req, inflight_ioctl_reqs, tx, serving, rx>>
        /\ bio' = [bio EXCEPT ![r] = "dispatched"]
        /\ IF r \in Ioctls THEN ioctl_lock = None /\ ioctl_lock' = r ELSE UNCHANGED ioctl_lock
    BY <1>1 DEF Dispatch, slots, chan
  <2>2. Wire' = Wire
    BY <2>1 DEF Wire, There, Returned
  <2>3. \A x \in Ioctls : bio'[x] # "new" /\ ends'[x] = 0 => ioctl_lock' = x
    <3> SUFFICES ASSUME NEW x \in Ioctls, bio'[x] # "new", ends'[x] = 0 PROVE ioctl_lock' = x
      OBVIOUS
    <3>1. CASE x = r
      BY <2>1, <3>1
    <3>2. CASE x # r
      BY <1>o, <1>t, <2>1, <3>2
    <3> QED BY <3>1, <3>2
  <2> QED BY <1>c, <2>1, <2>2, <2>3
<1>2. ASSUME NEW r \in Reqs, vblk_request(r) \/ vblk_request_nomem(r) PROVE OneIoctl'
  <2>1. /\ UNCHANGED <<ioctl_lock, slot_req, inflight_ioctl_reqs, tx, serving, rx>>
        /\ bio[r] # "new"
        /\ \E b \in {"listed", "taken"} : bio' = [bio EXCEPT ![r] = b]
        /\ ends' = ends \/ ends' = [ends EXCEPT ![r] = @ + 1]
    BY <1>2 DEF vblk_request, vblk_request_nomem, slots, chan
  <2>2. Wire' = Wire
    BY <2>1 DEF Wire, There, Returned
  <2>3. \A x \in Ioctls : bio'[x] # "new" /\ ends'[x] = 0 => bio[x] # "new" /\ ends[x] = 0
    BY <1>t, <2>1
  <2> QED BY <1>c, <1>o, <2>1, <2>2, <2>3
<1>3. CASE IoctlReturns
  <2>1. UNCHANGED <<bio, ends, slot_req, inflight_ioctl_reqs, tx, serving, rx>> /\ ends[ioctl_lock] > 0
    BY <1>3 DEF IoctlReturns, slots, chan
  <2>2. Wire' = Wire
    BY <2>1 DEF Wire, There, Returned
  <2>3. \A x \in Ioctls : ~(bio[x] # "new" /\ ends[x] = 0)
    BY <1>o, <2>1
  <2> QED BY <1>c, <2>1, <2>2, <2>3
<1>4. CASE complete_bio_req
  <2> DEFINE s == Head(rx).slot
  <2>0. /\ rx # <<>> /\ rx' = Tail(rx) /\ UNCHANGED <<bio, ioctl_lock, slot_req, tx, serving>>
        /\ LET n == Answered(slot_req[s], Head(rx).ok)
           IN  /\ ends' = [ends EXCEPT ![slot_req[s]] = @ + n]
               /\ inflight_ioctl_reqs' = CountedBack(slot_req[s], n)
    BY <1>4 DEF complete_bio_req, End
  <2>1. Head(rx).ok
    BY <2>0, OkFacts DEF Inv, TypeOK, NotEnded
  <2>2. Back(rx) \in Seq(Slots) /\ Back(rx) # <<>> /\ Head(Back(rx)) = s /\ Back(rx') = Tail(Back(rx))
    BY <2>0, BackFacts DEF Inv, TypeOK
  <2>3. s \in Slots /\ s \in Returned /\ Returned' = Returned \ {s}
    BY <2>2, TailFacts DEF Inv, OnWireOnce, Returned
  <2>4. s \in Wire /\ Wire' = Wire \ {s}
    BY <2>0, <2>3 DEF Wire, There, Inv, OnWireOnce
  <2> HIDE DEF s
  <2>5. /\ ends' = [ends EXCEPT ![slot_req[s]] = @ + 1]
        /\ inflight_ioctl_reqs' = CountedBack(slot_req[s], 1)
    BY <2>0, <2>1 DEF Answered
  <2>6. \A x \in Ioctls : bio'[x] # "new" /\ ends'[x] = 0 => ioctl_lock' = x
    BY <1>o, <1>t, <2>0, <2>3, <2>4, <2>5
  <2>7. CASE slot_req[s] \in Ioctls
    <3>1. inflight_ioctl_reqs = 1
      BY <1>o, <2>3, <2>4, <2>7
    <3>2. inflight_ioctl_reqs' = 0
      BY <2>5, <2>7, <3>1 DEF CountedBack
    <3>3. ~\E t \in Slots : t \in Wire' /\ slot_req'[t] \in Ioctls
      BY <1>o, <2>0, <2>3, <2>4, <2>7
    <3> QED BY <1>o, <2>0, <2>6, <3>2, <3>3 DEF OneIoctl
  <2>8. CASE slot_req[s] \notin Ioctls
    <3>1. inflight_ioctl_reqs' = inflight_ioctl_reqs
      BY <2>5, <2>8 DEF CountedBack
    <3>2. Out(slot_req', Wire') <=> Out(slot_req, Wire)
      BY <2>0, <2>4, <2>8
    <3> QED BY <1>o, <2>0, <2>6, <3>1, <3>2 DEF OneIoctl
  <2> QED BY <2>7, <2>8
<1>5. CASE vblk_put_req
  <2>1. /\ UNCHANGED <<bio, ends, ioctl_lock, inflight_ioctl_reqs, tx, serving, rx>> /\ wpc = "put"
        /\ slot_req' = [slot_req EXCEPT ![wslot] = None]
    BY <1>5 DEF vblk_put_req, FreeTheSlot, At, block, chan
  <2>2. Wire' = Wire /\ wslot \notin Wire
    BY <2>1 DEF Wire, There, Returned, Inv, WorkersSlot
  <2>3. Out(slot_req', Wire') <=> Out(slot_req, Wire)
    BY <1>t, <1>w, <2>1, <2>2
  <2>4. \A a, b \in Slots : slot_req'[a] \in Ioctls /\ slot_req'[b] \in Ioctls => a = b
    BY <1>o, <1>t, <1>w, <2>1
  <2> QED BY <1>o, <2>1, <2>3, <2>4 DEF OneIoctl
<1>6. CASE PutCheck \/ PutSignal
  <2>1. /\ UNCHANGED <<bio, ioctl_lock, slot_req, inflight_ioctl_reqs, tx, serving, rx>>
        /\ ends' = ends \/ ends' = [ends EXCEPT ![wreq] = @ + 1]
    <3>1. CASE PutCheck
      BY <3>1 DEF PutCheck, AfterPut, End, block, slots, chan, Inv, TypeOK
    <3>2. CASE PutSignal
      BY <3>2 DEF PutSignal, AfterPut, End, slots, chan, Inv, TypeOK
    <3> QED BY <1>6, <3>1, <3>2
  <2>2. Wire' = Wire
    BY <2>1 DEF Wire, There, Returned
  <2>3. \A x \in Ioctls : ends'[x] = 0 => ends[x] = 0
    BY <1>t, <2>1
  <2> QED BY <1>c, <1>o, <2>1, <2>2, <2>3
<1>7. ASSUME NEW r \in Reqs, RefuseReq(r) PROVE OneIoctl'
  <2>1. /\ UNCHANGED <<ends, ioctl_lock, slot_req, inflight_ioctl_reqs, tx, serving, rx>>
        /\ bio' = [bio EXCEPT ![r] = "taken"] /\ bio[r] = "listed"
    BY <1>7, PickFacts DEF RefuseReq, slots, chan
  <2>2. Wire' = Wire
    BY <2>1 DEF Wire, There, Returned
  <2>3. \A x \in Ioctls : bio'[x] # "new" => bio[x] # "new"
    BY <1>t, <2>1
  <2> QED BY <1>c, <1>o, <2>1, <2>2, <2>3
<1>8. ASSUME NEW r \in Reqs, submit_bio_req(r) PROVE OneIoctl'
  <2>1. /\ UNCHANGED <<ends, ioctl_lock, serving, rx>> /\ bio[r] = "listed" /\ wpc = "pick"
        /\ bio' = [bio EXCEPT ![r] = "taken"] /\ slot_req' = [slot_req EXCEPT ![wslot] = r]
        /\ tx' = Append(tx, wslot)
        /\ inflight_ioctl_reqs' = IF r \in Ioctls THEN (inflight_ioctl_reqs + 1) % U32Mod
                                  ELSE inflight_ioctl_reqs
        /\ \A s \in Slots : slot_req[s] # r
    BY <1>8, PickFacts DEF submit_bio_req
  <2>2. There' = There \cup {wslot}
    BY <1>w, <2>1, AppendFacts DEF There, Inv, TypeOK
  <2>3. Wire' = Wire \cup {wslot} /\ wslot \notin Wire
    BY <2>1, <2>2 DEF Wire, Returned, Inv, WorkersSlot
  <2>4. \A x \in Ioctls : bio'[x] # "new" /\ ends'[x] = 0 => ioctl_lock' = x
    BY <1>o, <1>t, <2>1
  <2>5. CASE r \in Ioctls
    <3>1. ioctl_lock = r
      BY <1>o, <2>1, <2>5 DEF NotEnded
    <3>2. \A s \in Slots : slot_req[s] \notin Ioctls
      <4> SUFFICES ASSUME NEW s \in Slots, slot_req[s] \in Ioctls PROVE FALSE
        OBVIOUS
      <4>1. s \in Wire
        BY <2>1 DEF Inv, SlotsInUse, Freeing
      <4>2. ioctl_lock = slot_req[s]
        BY <1>o, <1>t, <4>1 DEF NotEnded
      <4> QED BY <2>1, <3>1, <4>2
    <3>3. inflight_ioctl_reqs = 0
      BY <1>o, <3>2
    <3>4. inflight_ioctl_reqs' = 1
      BY <2>1, <2>5, <3>3
    <3>5. Out(slot_req', Wire')
      BY <1>t, <1>w, <2>1, <2>3, <2>5
    <3>6. \A a, b \in Slots : slot_req'[a] \in Ioctls /\ slot_req'[b] \in Ioctls => a = b
      BY <1>t, <1>w, <2>1, <3>2
    <3> QED BY <2>4, <3>4, <3>5, <3>6 DEF OneIoctl
  <2>6. CASE r \notin Ioctls
    <3>1. slot_req[wslot] = None
      BY <1>8, PickFacts DEF submit_bio_req
    <3>2. Out(slot_req', Wire') <=> Out(slot_req, Wire)
      BY <1>t, <1>w, <2>1, <2>3, <2>6, <3>1
    <3>3. \A a, b \in Slots : slot_req'[a] \in Ioctls /\ slot_req'[b] \in Ioctls => a = b
      BY <1>o, <1>t, <1>w, <2>1, <2>6
    <3> QED BY <1>o, <2>1, <2>4, <2>6, <3>2, <3>3 DEF OneIoctl
  <2> QED BY <2>5, <2>6
<1>9. CASE Server
  <2>1. UNCHANGED <<bio, ends, ioctl_lock, slot_req, inflight_ioctl_reqs>>
    BY <1>9 DEF Server, ServerTake, ServerAnswer, block, slots
  <2>2. CASE ServerTake
    <3>1. There' = There \ {Head(tx)} /\ Head(tx) \in There /\ serving' = serving \cup {Head(tx)}
      BY <2>2, TailFacts DEF ServerTake, There, Inv, TypeOK, OnWireOnce
    <3>2. Wire' = Wire
      BY <2>2, <3>1 DEF ServerTake, Wire, Returned
    <3> QED BY <1>c, <1>o, <2>1, <3>2
  <2>3. ASSUME NEW s \in Slots, NEW ok \in BOOLEAN, ServerAnswer(s, ok) PROVE OneIoctl'
    <3>1. Back(rx') = Append(Back(rx), s) /\ Back(rx) \in Seq(Slots)
      BY <2>3, BackFacts DEF ServerAnswer, Inv, TypeOK
    <3>2. Returned' = Returned \cup {s}
      BY <3>1, AppendFacts DEF Returned
    <3>3. Wire' = Wire
      BY <2>3, <3>2 DEF ServerAnswer, Wire, There
    <3> QED BY <1>c, <1>o, <2>1, <3>3
  <2> QED BY <1>9, <2>2, <2>3 DEF Server
<1>10. CASE \/ StartWork \/ NothingToComplete \/ BeginSubmit \/ vblk_get_req \/ NothingToPick
            \/ ivc_irq_handler \/ Drain \/ StopQueues \/ Power
  <2>1. UNCHANGED <<bio, ends, ioctl_lock, slot_req, inflight_ioctl_reqs, tx, serving, rx>>
    BY <1>10 DEF StartWork, NothingToComplete, BeginSubmit, vblk_get_req, NothingToPick,
                 ivc_irq_handler, Drain, StopQueues, Power, MarkSuspended, CheckInflight,
                 QueueEmpty, flush_workqueue, MarkActive, Resume, block, slots, chan
  <2>2. Wire' = Wire
    BY <2>1 DEF Wire, There, Returned
  <2> QED BY <1>c, <1>o, <2>1, <2>2
<1> QED
  BY <1>1, <1>2, <1>3, <1>4, <1>5, <1>6, <1>7, <1>8, <1>9, <1>10 DEF Next, Work

\* Two ioctls never share a mempool buffer, and inflight_ioctl_reqs is exact, as
\* long as the server reports no errors: ioctl_lock admits one at a time.
THEOREM IoctlBuffersSafe == ASSUME ~ServerErrors PROVE Spec => []IoctlBuffersDistinct
<1>1. Init => OneIoctl
  <2> SUFFICES ASSUME Init PROVE OneIoctl
    OBVIOUS
  <2>1. \A s \in Slots : slot_req[s] \notin Ioctls
    BY VblkAssumption DEF Init
  <2> QED BY <2>1, VblkAssumption DEF Init, OneIoctl
<1>2. Inv /\ Inv' /\ NotEnded /\ OneIoctl /\ [Next]_vars => OneIoctl'
  <2>1. CASE Next
    BY <2>1, OneIoctlStep
  <2>2. CASE UNCHANGED vars
    BY <2>2 DEF OneIoctl, Wire, There, Returned, vars, block, slots, chan
  <2> QED BY <2>1, <2>2
<1>3. Inv /\ OneIoctl => IoctlBuffersDistinct
  <2> SUFFICES ASSUME Inv, OneIoctl PROVE IoctlBuffersDistinct
    OBVIOUS
  <2> DEFINE Held == {s \in Slots : slot_req[s] \in Ioctls}
  <2>1. ASSUME wpc # "put" PROVE inflight_ioctl_reqs = Cardinality(Held)
    <3>1. \A s \in Held : s \in Wire
      BY <2>1, VblkAssumption DEF Inv, SlotsInUse, Freeing
    <3>2. CASE \E s \in Slots : s \in Wire /\ slot_req[s] \in Ioctls
      <4>1. PICK s \in Slots : s \in Wire /\ slot_req[s] \in Ioctls
        BY <3>2
      <4>2. Held = {s}
        BY <4>1 DEF OneIoctl
      <4> QED BY <3>2, <4>2, FS_Singleton DEF OneIoctl
    <3>3. CASE ~\E s \in Slots : s \in Wire /\ slot_req[s] \in Ioctls
      <4>1. Held = {}
        BY <3>1, <3>3
      <4> QED BY <3>3, <4>1, FS_EmptySet DEF OneIoctl
    <3> QED BY <3>2, <3>3
  <2> QED BY <2>1 DEF IoctlBuffersDistinct, IoctlCountExact, OneIoctl
<1> QED BY <1>1, <1>2, <1>3, Invariance, NotEndedHolds, PTL DEF Spec
=============================================================================
