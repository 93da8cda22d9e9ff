----------------------------- MODULE DceProofs ------------------------------
(***************************************************************************)
(* Theorems about the DCE state machine, for every number of boot          *)
(* commands, RPCs, clients, frames and suspends.                           *)
(***************************************************************************)
EXTENDS Dce, SequenceFacts

CallNames == {"start", "boot", "cmd", "cmdsdone", "reset", "admin", "bootdone", "sc7", "exit"}
Sends == {"boot", "cmd", "admin", "sc7"}
Finals == {"bootdone", "sc7", "exit"}
MsgTags == {<<>>} \cup (Threads \X Nat)
Messages(kinds) == [kind : kinds, tag : MsgTags]
Boxed(kinds) == {NoMsg} \cup Messages(kinds)

\* What a thread may be asked to call.
Menu(t) == IF t \in Workers THEN CallNames \ {"sc7", "exit"}
           ELSE IF t # "pm" THEN {"admin"}
           ELSE IF pm = "entering" THEN {"admin", "sc7"}
           ELSE IF pm = "exiting" THEN {"exit"} ELSE {}

\* The types of the variables.
Control ==
  /\ env \in Environments /\ c_state \in States /\ prev \in [Threads -> States]
  /\ pm \in {"awake", "entering", "entered", "exiting"}
  /\ callers \subseteq Clients /\ suspends \in 0..MaxSuspends
  /\ boot_status \subseteq {"BOOTSTRAP_DONE", "BOOT_DONE"}
  /\ complete \in [Replies -> BOOLEAN] /\ mb_locked \in BOOLEAN
  /\ synced \in BOOLEAN /\ resume_work \in BOOLEAN /\ boot_req \in BOOLEAN /\ admirq \in BOOLEAN
  /\ fw \in {"off", "up", "sc7", "dead"} /\ fwcmds \in 0..NCmds
Interrupt ==
  /\ isr \in [step : {"off", "post", "wake"}, event : Replies \cup {"ABORT_RECEIVED", "none"}]
  /\ isr.step = "post" => isr.event # "none"
  /\ isr.step = "wake" => isr.event \in Replies
Mail ==
  /\ smb \in Boxed({"cmd"}) /\ rmb \in Boxed({"ready", "sc7", "abort", "ack", "err"})
  /\ atx \in Seq(Messages({"admin", "sc7"})) /\ arx \in Seq(Messages({"admin"}))
  /\ Len(atx) <= Frames /\ Len(arx) <= Frames

\* Where a thread may be in its calls q, and which calls it may have before it.
Typed == todo \in [Threads -> Seq(CallNames)] /\ pc \in [Threads -> Steps]
PlacedAt(q, s) ==
  /\ q = <<>> => s \in {"post", "failed"}
  /\ s = "failed" => q = <<>>
  /\ s = "callback" => Head(q) \in Sends \cup {"exit"}
  /\ s \in {"wait", "woken", "consume", "answered", "restore"} => Head(q) \in Sends
  /\ s \in {"nested", "nestedwake", "nestedreset", "nestedreset_failed"} => Head(q) = "boot"
  /\ s = "handshake" => Head(q) = "reset"
ListedIn(names, q) ==
  /\ q \in Seq(names)
  /\ \A i \in 1..Len(q) : q[i] \in Finals => i = Len(q)
Shape == Typed /\ \A t \in Threads : PlacedAt(todo[t], pc[t]) /\ ListedIn(Menu(t), todo[t])

Inv == Control /\ Interrupt /\ Mail /\ Shape

-----------------------------------------------------------------------------
(* In a calm behaviour callers keep out of each other's way: one thread at *)
(* a time makes calls, and what is under way is on its behalf.             *)

\* Without memory for the ENTER_SC7 message the machine waits for ever, and nobody
\* gets past it.
Stranded ==
  /\ "nomem" \in env /\ c_state = "SC7_ENTER_WFI" /\ "BOOT_DONE" \in boot_status
  /\ \A t \in Threads : pc[t] \in {"post", "failed"}

\* A suspend begins when the engine is booted, and a boot when it is not.
Asleep ==
  \/ pm = "entering" /\ ~Running("pm") /\ pc["pm"] # "failed"
  \/ pm = "entered"
  \/ pm = "exiting" /\ Running("pm")
Alone(t) ==
  /\ \A u \in Threads \ {t} : ~Running(u)
  /\ resume_work => ~Running(t)
  /\ "BOOT_DONE" \in boot_status => ~resume_work /\ (Running(t) => t \notin Workers)
  /\ Running(t) /\ t \in Clients => pm = "awake"
  /\ pm \in {"entering", "entered"} => ~resume_work /\ (Running(t) => t = "pm")
  /\ pm = "entering" /\ Running("pm") =>
       "BOOT_DONE" \in boot_status /\ todo["pm"] \in {<<"admin", "sc7">>, <<"sc7">>}
  /\ Asleep => "BOOT_DONE" \notin boot_status \/ Stranded

\* The way of a reply: asked for, answered, told to the state machine, and to the
\* thread that waits.
Asked(e) ==
  \/ e = "BOOT_COMPLETE_RECEIVED" /\ boot_req
  \/ e = "BOOT_CMD_MSG_RECEIVED" /\ smb # NoMsg
  \/ e = "ADMIN_IPC_MSG_RECEIVED" /\ atx # <<>> /\ atx[1].kind = "admin"
  \/ e = "SC7_ENTERED_RECEIVED" /\ atx # <<>> /\ atx[1].kind = "sc7"
Answered(e) ==
  \/ rmb # NoMsg /\ EventFor(rmb.kind) = e
  \/ e = "ADMIN_IPC_MSG_RECEIVED" /\ admirq
Posting(e) == isr.step = "post" /\ isr.event = e
Waking(e) == isr.step = "wake" /\ isr.event = e
Flying(e) == Asked(e) \/ Answered(e) \/ Posting(e) \/ Waking(e)

Calling(t) == Running(t) /\ Head(todo[t]) \in Sends
Expects(t, e) == Calling(t) /\ WaitOf(t) = e

\* A reply is at one of these at a time, and on its way to a thread that waits for it.
Once(e) ==
  /\ Asked(e) => ~Answered(e) /\ ~Posting(e) /\ ~Waking(e)
  /\ Answered(e) => ~Posting(e) /\ ~Waking(e)
  /\ Flying(e) => ~complete[e]
Wanted(t, e) ==
  /\ Flying(e) => Expects(t, e) /\ pc[t] = "wait"
  /\ complete[e] => Expects(t, e) /\ pc[t] \in {"wait", "woken", "consume", "nestedreset"}
Replying(t) == \A e \in Replies : Once(e) /\ Wanted(t, e)

\* The machine waits only for a reply that has not come, for the call in progress.
Faultless == "faults" \notin env => rmb.kind # "abort" /\ isr.event # "ABORT_RECEIVED"
Waits(t) ==
  Calling(t) =>
    /\ pc[t] \in {"woken", "consume"} => complete[WaitOf(t)]
    /\ pc[t] \in {"woken", "consume", "answered", "nestedwake", "nestedreset"} => c_state \notin Waiting
    /\ pc[t] # "post" => prev[t] \notin Waiting
    /\ pc[t] = "callback" /\ "faults" \notin env => c_state = StateFor(EventOf(Head(todo[t])))
Owned(t) ==
  /\ \A e \in Replies : Waking(e) \/ complete[e] => c_state \notin Waiting
  /\ c_state \in Waiting /\ ~Stranded =>
       Calling(t) /\ pc[t] # "post" /\ StateFor(EventOf(Head(todo[t]))) = c_state
  /\ Waits(t) /\ Faultless

\* The frames of the admin channel are those of the RPC in progress.
Own(t) == <<Msg("admin", Tag(t))>>
Framed(t) ==
  /\ Len(atx) <= 1
  /\ Asked("ADMIN_IPC_MSG_RECEIVED") => atx = Own(t) /\ arx = <<>>
  /\ arx # <<>> => /\ Expects(t, "ADMIN_IPC_MSG_RECEIVED") /\ arx = Own(t)
                   /\ pc[t] \in {"wait", "woken", "consume", "answered"}
  /\ admirq \/ Posting("ADMIN_IPC_MSG_RECEIVED") \/ Waking("ADMIN_IPC_MSG_RECEIVED")
       \/ complete["ADMIN_IPC_MSG_RECEIVED"] => arx # <<>>
  /\ Expects(t, "ADMIN_IPC_MSG_RECEIVED") /\ pc[t] \in {"woken", "consume", "answered"} => arx # <<>>

Held(t) == Replying(t) /\ Owned(t) /\ Framed(t)
Solo(t) == Alone(t) /\ Held(t)
CalmInv == Calm => \E t \in Threads : Solo(t)

-----------------------------------------------------------------------------
(* What the calls are.                                                     *)

\* Which state and which reply belong to the requests.
LEMMA Names ==
  /\ StateFor(EventOf("boot")) = "BOOT_WAIT" /\ StateFor(EventOf("cmd")) = "BOOTCMD_WFI"
  /\ StateFor(EventOf("admin")) = "ADMIN_WFI" /\ StateFor(EventOf("sc7")) = "SC7_ENTER_WFI"
  /\ StateFor(EventOf("start")) = "IDLE" /\ StateFor(EventOf("exit")) = "IDLE"
  /\ EventOf("start") = "FSM_START" /\ EventOf("exit") = "SC7_EXIT_RECEIVED"
  /\ \A h \in Sends : EventOf(h) \in Requests
  /\ AwaitedIn("BOOT_WAIT") = "BOOT_COMPLETE_RECEIVED"
  /\ AwaitedIn("BOOTCMD_WFI") = "BOOT_CMD_MSG_RECEIVED"
  /\ AwaitedIn("ADMIN_WFI") = "ADMIN_IPC_MSG_RECEIVED"
  /\ AwaitedIn("SC7_ENTER_WFI") = "SC7_ENTERED_RECEIVED"
BY DEF StateFor, EventOf, AwaitedIn, Sends, Requests

\* What a reply, or an abort, makes of the state machine.
LEMMA ReplyNames ==
  /\ \A e \in Replies \cup {"ABORT_RECEIVED"} : StateFor(e) \in States \ Waiting
  /\ StateFor("ABORT_RECEIVED") = "ABORT"
  /\ StateFor("BOOT_COMPLETE_RECEIVED") = "IDLE"
  /\ EventFor("ready") = "BOOT_COMPLETE_RECEIVED" /\ EventFor("sc7") = "SC7_ENTERED_RECEIVED"
  /\ EventFor("abort") = "ABORT_RECEIVED"
  /\ EventFor("ack") = "BOOT_CMD_MSG_RECEIVED" /\ EventFor("err") = "BOOT_CMD_MSG_RECEIVED"
BY DEF StateFor, EventFor, Replies, States, Waiting

\* No final call among the calls before q, and q well-formed: so are all of them.
LEMMA ListedConcat ==
  ASSUME NEW S, NEW p \in Seq(S \ Finals), NEW q, ListedIn(S, q)
  PROVE  ListedIn(S, p \o q)
<1>1. q \in Seq(S) /\ p \in Seq(S)
  BY SeqMonotonic DEF ListedIn
<1>2. /\ p \o q \in Seq(S) /\ Len(p \o q) = Len(p) + Len(q)
      /\ \A i \in 1..(Len(p) + Len(q)) : (p \o q)[i] = IF i <= Len(p) THEN p[i] ELSE q[i - Len(p)]
  BY <1>1, ConcatProperties
<1>3. Len(p) \in Nat /\ Len(q) \in Nat /\ \A i \in 1..Len(p) : p[i] \notin Finals
  BY <1>1, LenProperties, ElementOfSeq
<1>4. ASSUME NEW i \in 1..Len(p \o q), (p \o q)[i] \in Finals PROVE i = Len(p \o q)
  <2>1. ~(i <= Len(p))
    BY <1>2, <1>3, <1>4
  <2>2. i - Len(p) \in 1..Len(q) /\ q[i - Len(p)] \in Finals
    BY <1>2, <1>3, <1>4, <2>1
  <2>3. i - Len(p) = Len(q)
    BY <2>2 DEF ListedIn
  <2> QED BY <1>2, <1>3, <2>3
<1> QED BY <1>2, <1>4 DEF ListedIn

\* What is left after the first call; nothing after a final one.
LEMMA ListedTail ==
  ASSUME NEW S, NEW q, ListedIn(S, q), q # <<>>
  PROVE  ListedIn(S, Tail(q)) /\ Head(q) \in S /\ (Head(q) \in Finals => Tail(q) = <<>>)
<1> DEFINE p == Tail(q)
           n == Len(q)
           h == Head(q)
<1>1. /\ q \in Seq(S) /\ h \in S /\ h = q[1]
      /\ p \in Seq(S) /\ Len(p) = n - 1 /\ n \in Nat \ {0}
      /\ \A i \in 1..(n - 1) : p[i] = q[i + 1]
  BY TailFacts DEF ListedIn
<1>2. \A i \in 1..n : q[i] \in Finals => i = n
  BY DEF ListedIn
<1>3. Len(p) = 0 => p = <<>>
  BY <1>1, EmptySeq
<1> HIDE DEF p, n, h
<1>4. \A i \in 1..Len(p) : p[i] \in Finals => i = Len(p)
  <2> TAKE i \in 1..Len(p)
  <2>1. i \in 1..(n - 1) /\ i + 1 \in 1..n
    BY <1>1
  <2> HAVE p[i] \in Finals
  <2>2. i + 1 = n
    BY <1>1, <1>2, <2>1
  <2> QED BY <1>1, <2>1, <2>2
<1>5. ASSUME h \in Finals PROVE p = <<>>
  <2>1. n = 1
    BY <1>1, <1>2, <1>5
  <2> QED BY <1>1, <1>3, <2>1
<1> QED BY <1>1, <1>4, <1>5 DEF ListedIn, p, h

\* Who may call nothing has nothing to call.
LEMMA NoCalls == ASSUME NEW q, ListedIn({}, q) PROVE q = <<>>
<1> SUFFICES ASSUME q # <<>> PROVE FALSE
  OBVIOUS
<1>1. Head(q) \in {}
  BY ListedTail
<1> QED BY <1>1

\* The lists that threads start with.
LEMMA StartLists ==
  /\ ListedIn(CallNames \ {"sc7", "exit"}, BootFlow) /\ BootFlow # <<>>
  /\ ListedIn(CallNames \ {"sc7", "exit"}, <<"start">> \o BootFlow) /\ <<"start">> \o BootFlow # <<>>
  /\ ListedIn({"admin"}, Calls("admin", NRpc)) /\ ListedIn({"admin", "sc7"}, <<"admin", "sc7">>)
  /\ ListedIn({"exit"}, <<"exit">>) /\ \A S : ListedIn(S, <<>>)
<1> DEFINE B == CallNames \ {"sc7", "exit"}
           P == B \ Finals
<1>0. NCmds \in Nat /\ NAdmin \in Nat /\ NRpc \in Nat
  BY DceAssumption
<1>1. \A call \in P, n \in Nat : Calls(call, n) \in Seq(P)
  BY DEF Calls
<1>2. "cmd" \in P /\ "admin" \in P /\ "boot" \in P /\ "start" \in P /\ "cmdsdone" \in P /\ "reset" \in P
  BY DEF CallNames, Finals
<1>3. Calls("cmd", NCmds) \in Seq(P) /\ Calls("admin", NAdmin) \in Seq(P)
  BY <1>0, <1>1, <1>2
<1>4. <<"boot">> \in Seq(P) /\ <<"start">> \in Seq(P) /\ <<"cmdsdone", "reset">> \in Seq(P)
  BY <1>2
<1>5. ListedIn(B, <<"bootdone">>)
  BY DEF ListedIn, CallNames, Finals
<1> DEFINE p == <<"boot">> \o Calls("cmd", NCmds) \o <<"cmdsdone", "reset">> \o Calls("admin", NAdmin)
<1>6. p \in Seq(P) /\ BootFlow = p \o <<"bootdone">>
  <2>1. <<"boot">> \o Calls("cmd", NCmds) \in Seq(P)
    BY <1>3, <1>4, ConcatProperties
  <2>2. <<"boot">> \o Calls("cmd", NCmds) \o <<"cmdsdone", "reset">> \in Seq(P)
    BY <1>4, <2>1, ConcatProperties
  <2>3. p \in Seq(P)
    BY <1>3, <2>2, ConcatProperties
  <2> QED BY <2>3 DEF BootFlow
<1> HIDE DEF p
<1>7. ListedIn(B, BootFlow)
  BY <1>5, <1>6, ListedConcat
<1>8. ListedIn(B, <<"start">> \o BootFlow)
  BY <1>4, <1>7, ListedConcat
<1>9. BootFlow # <<>> /\ <<"start">> \o BootFlow # <<>>
  <2>1. Len(BootFlow) = Len(p) + 1 /\ Len(p) \in Nat
    BY <1>6, <1>5, ConcatProperties, LenProperties DEF ListedIn
  <2>2. BootFlow \in Seq(B)
    BY <1>7 DEF ListedIn
  <2>3. Len(<<"start">> \o BootFlow) = 1 + Len(BootFlow)
    BY <1>4, <2>2
  <2> QED BY <2>1, <2>3
<1>10. ListedIn({"admin"}, Calls("admin", NRpc))
  BY <1>0 DEF Calls, ListedIn, Finals
<1>11. ListedIn({"admin", "sc7"}, <<"admin", "sc7">>)
  <2>1. <<"admin", "sc7">> \in Seq({"admin", "sc7"}) /\ Len(<<"admin", "sc7">>) = 2
    OBVIOUS
  <2>2. ASSUME NEW i \in 1..2, <<"admin", "sc7">>[i] \in Finals PROVE i = 2
    BY <2>2 DEF Finals
  <2> QED BY <2>1, <2>2 DEF ListedIn
<1>12. ListedIn({"exit"}, <<"exit">>) /\ \A S : ListedIn(S, <<>>)
  BY DEF ListedIn
<1> QED BY <1>7, <1>8, <1>9, <1>10, <1>11, <1>12

-----------------------------------------------------------------------------
(* Type correctness, in whatever environment.                              *)

\* The menu is among the calls there are.
LEMMA MenuFacts ==
  /\ \A t : Menu(t) \subseteq CallNames
  /\ \A t \in Workers : Menu(t) = CallNames \ {"sc7", "exit"}
  /\ \A c \in Clients : Menu(c) = {"admin"}
BY DceAssumption DEF Menu, CallNames, Workers

\* A thread that moves on, alone, keeps the shape of all of them.
LEMMA ThreadShape ==
  ASSUME Shape, NEW t \in Threads, NEW q, NEW s \in Steps,
         todo' = [todo EXCEPT ![t] = q], pc' = [pc EXCEPT ![t] = s],
         PlacedAt(q, s), ListedIn(Menu(t)', q),
         \A u \in Threads \ {t} : ListedIn(Menu(u)', todo[u])
  PROVE  Shape'
<1>1. q \in Seq(CallNames)
  <2>1. q \in Seq(Menu(t)') /\ Menu(t)' \subseteq CallNames
    BY MenuFacts DEF ListedIn, Menu, CallNames, Workers
  <2> QED BY <2>1, SeqMonotonic
<1>2. Typed'
  BY <1>1 DEF Shape, Typed
<1>3. /\ todo'[t] = q /\ pc'[t] = s
      /\ \A u \in Threads \ {t} : todo'[u] = todo[u] /\ pc'[u] = pc[u]
  BY DEF Shape, Typed
<1>4. ASSUME NEW u \in Threads
      PROVE  PlacedAt(todo'[u], pc'[u]) /\ ListedIn(Menu(u)', todo'[u])
  BY <1>3 DEF Shape
<1> QED BY <1>2, <1>4 DEF Shape

\* A step of a call may go on to another one,
LEMMA GotoShape ==
  ASSUME Shape, NEW t \in Threads, NEW s \in Steps, Goto(t, s), UNCHANGED pm, PlacedAt(todo[t], s)
  PROVE  Shape'
<1>1. todo' = [todo EXCEPT ![t] = todo[t]] /\ pc' = [pc EXCEPT ![t] = s]
  BY DEF Goto, Shape, Typed
<1>2. \A u : Menu(u)' = Menu(u)
  BY DEF Menu
<1> QED BY <1>1, <1>2, ThreadShape DEF Shape

\* be the last of its call,
LEMMA DoneShape ==
  ASSUME Shape, NEW t \in Threads, Running(t), Done(t), UNCHANGED pm
  PROVE  Shape'
<1>1. todo' = [todo EXCEPT ![t] = Tail(todo[t])] /\ pc' = [pc EXCEPT ![t] = "post"] /\ "post" \in Steps
  BY DEF Done, Shape, Typed, Steps
<1>2. \A u : Menu(u)' = Menu(u)
  BY DEF Menu
<1>3. ListedIn(Menu(t)', Tail(todo[t])) /\ PlacedAt(Tail(todo[t]), "post")
  BY <1>2, ListedTail DEF Shape, Running, PlacedAt
<1>4. \A u \in Threads : ListedIn(Menu(u)', todo[u])
  BY <1>2 DEF Shape
<1> HIDE DEF Shape
<1> QED BY <1>1, <1>3, <1>4, ThreadShape

\* or give up all calls of its thread.
LEMMA FailShape ==
  ASSUME Shape, NEW t \in Threads, Fail(t), UNCHANGED pm
  PROVE  Shape'
<1>1. todo' = [todo EXCEPT ![t] = <<>>] /\ pc' = [pc EXCEPT ![t] = "failed"] /\ "failed" \in Steps
  BY DEF Fail, Shape, Typed, Steps
<1>2. \A u : Menu(u)' = Menu(u)
  BY DEF Menu
<1>3. ListedIn(Menu(t)', <<>>) /\ PlacedAt(<<>>, "failed")
  BY StartLists DEF PlacedAt
<1>4. \A u \in Threads : ListedIn(Menu(u)', todo[u])
  BY <1>2 DEF Shape
<1> QED BY <1>1, <1>3, <1>4, ThreadShape

\* A thread that is given calls to make.
LEMMA StartShape ==
  ASSUME Shape, NEW t \in Threads, NEW q, Start(t, q), ListedIn(Menu(t)', q),
         \A u \in Threads \ {t} : Menu(u)' = Menu(u)
  PROVE  Shape'
<1>1. todo' = [todo EXCEPT ![t] = q] /\ pc' = [pc EXCEPT ![t] = "post"] /\ "post" \in Steps
  BY DEF Start, Steps
<1>2. PlacedAt(q, "post") /\ \A u \in Threads \ {t} : ListedIn(Menu(u)', todo[u])
  BY DEF Shape, PlacedAt
<1> QED BY <1>1, <1>2, ThreadShape

\* Initially nobody but the boot worker has calls to make.
LEMMA InitInv == Init => Inv
<1> SUFFICES ASSUME Init PROVE Inv
  OBVIOUS
<1>1. Control
  <2>1. NCmds \in Nat /\ MaxSuspends \in Nat /\ "INVALID" \in States
    BY DceAssumption DEF States
  <2>2. prev \in [Threads -> States] /\ complete \in [Replies -> BOOLEAN]
    BY <2>1 DEF Init
  <2>3. /\ env \in Environments /\ c_state \in States /\ callers \subseteq Clients
        /\ suspends \in 0..MaxSuspends /\ boot_status \subseteq {"BOOTSTRAP_DONE", "BOOT_DONE"}
        /\ fwcmds \in 0..NCmds /\ fw \in {"off", "up", "sc7", "dead"}
    BY <2>1 DEF Init
  <2>4. /\ pm \in {"awake", "entering", "entered", "exiting"} /\ mb_locked \in BOOLEAN
        /\ synced \in BOOLEAN /\ resume_work \in BOOLEAN /\ boot_req \in BOOLEAN /\ admirq \in BOOLEAN
    BY DEF Init
  <2> QED BY <2>2, <2>3, <2>4 DEF Control
<1>2. Interrupt
  BY DEF Init, Interrupt
<1>3. Mail
  BY DceAssumption DEF Init, Mail, Boxed
<1>4. Shape
  <2> DEFINE flow == <<"start">> \o BootFlow
  <2>1. /\ ListedIn(CallNames \ {"sc7", "exit"}, flow) /\ flow # <<>> /\ \A S : ListedIn(S, <<>>)
        /\ todo = [t \in Threads |-> IF t = "boot" THEN flow ELSE <<>>]
        /\ pc = [t \in Threads |-> "post"]
    BY StartLists DEF Init
  <2> HIDE DEF flow
  <2>2. flow \in Seq(CallNames) /\ <<>> \in Seq(CallNames)
    BY <2>1, SeqMonotonic DEF ListedIn
  <2>3. Typed
    BY <2>1, <2>2 DEF Typed, Steps
  <2>4. ASSUME NEW t \in Threads PROVE PlacedAt(todo[t], pc[t]) /\ ListedIn(Menu(t), todo[t])
    <3>1. pc[t] = "post" /\ todo[t] = (IF t = "boot" THEN flow ELSE <<>>)
      BY <2>1
    <3>2. PlacedAt(todo[t], pc[t])
      BY <3>1 DEF PlacedAt
    <3>3. ListedIn(Menu(t), todo[t])
      BY <2>1, <3>1, MenuFacts DEF Workers
    <3> QED BY <3>2, <3>3
  <2> QED BY <2>3, <2>4 DEF Shape
<1> QED BY <1>1, <1>2, <1>3, <1>4 DEF Inv

\* The steps of threads: those that leave the channels alone, and those that do not.
Inward(t) ==
  \/ BootCheck(t) \/ NestedPost(t) \/ NestedWake(t) \/ NestedReset(t)
  \/ Sc7NoMemory(t) \/ ScheduleResume(t) \/ Recheck(t) \/ Consume(t) \/ WaitReturns(t)
  \/ BootAnswered(t) \/ CmdAnswered(t) \/ Sc7Answered(t)
  \/ CmdsDone(t) \/ ChannelReset(t) \/ BootDone(t) \/ Post(t) \/ Restore(t)
Outward(t) == MailboxSend(t) \/ AdminSend(t) \/ Sc7Send(t) \/ AdminAnswered(t) \/ ChannelReady(t)

\* Every step of a thread is one of them.
LEMMA ThreadSteps == ASSUME NEW t, Thread(t) PROVE Inward(t) \/ Outward(t)
BY DEF Thread, Inward, Outward, Callback, Flow

\* What a step changes of the flags keeps their types.
LEMMA ThreadControl == ASSUME Control, NEW t \in Threads, Thread(t), UNCHANGED env PROVE Control'
<1> USE DEF Control, caller, driver, chan, mbox
<1>1. CASE BootCheck(t)
  BY <1>1 DEF BootCheck
<1>2. CASE NestedPost(t)
  <2>1. StateFor("BOOT_COMPLETE_RECEIVED") \in States
    BY ReplyNames DEF States
  <2> QED BY <1>2, <2>1 DEF NestedPost
<1>3. CASE NestedWake(t)
  BY <1>3 DEF NestedWake
<1>4. CASE NestedReset(t)
  BY <1>4 DEF NestedReset
<1>5. CASE Sc7NoMemory(t)
  BY <1>5 DEF Sc7NoMemory
<1>6. CASE ScheduleResume(t)
  BY <1>6 DEF ScheduleResume
<1>7. CASE Recheck(t)
  BY <1>7 DEF Recheck
<1>8. CASE Consume(t)
  BY <1>8 DEF Consume
<1>9. CASE WaitReturns(t)
  BY <1>9 DEF WaitReturns
<1>10. CASE BootAnswered(t)
  BY <1>10 DEF BootAnswered
<1>11. CASE CmdAnswered(t)
  BY <1>11 DEF CmdAnswered
<1>12. CASE Sc7Answered(t)
  BY <1>12 DEF Sc7Answered
<1>13. CASE CmdsDone(t)
  BY <1>13 DEF CmdsDone
<1>14. CASE ChannelReset(t)
  BY <1>14 DEF ChannelReset
<1>15. CASE BootDone(t)
  BY <1>15 DEF BootDone
<1>16. CASE Post(t)
  <2>1. \A e : StateFor(e) \in States
    BY DEF StateFor, States, Waiting
  <2>2. c_state' \in States /\ prev' \in [Threads -> States]
    BY <1>16, <2>1 DEF Post
  <2> QED BY <1>16, <2>2 DEF Post
<1>17. CASE Restore(t)
  BY <1>17 DEF Restore
<1>18. CASE MailboxSend(t)
  BY <1>18 DEF MailboxSend
<1>19. CASE AdminSend(t)
  BY <1>19 DEF AdminSend
<1>20. CASE Sc7Send(t)
  BY <1>20 DEF Sc7Send
<1>21. CASE AdminAnswered(t)
  BY <1>21 DEF AdminAnswered
<1>22. CASE ChannelReady(t)
  BY <1>22 DEF ChannelReady
<1> QED BY ThreadSteps, <1>1, <1>2, <1>3, <1>4, <1>5, <1>6, <1>7, <1>8, <1>9, <1>10, <1>11, <1>12,
      <1>13, <1>14, <1>15, <1>16, <1>17, <1>18, <1>19, <1>20, <1>21, <1>22 DEF Inward, Outward

\* So do the steps of the interrupt thread, the firmware and power management.
LEMMA OtherControl ==
  ASSUME Control, Step, ~\E t \in Threads : Thread(t), UNCHANGED env PROVE Control'
<1> USE DEF Control, caller, driver, chan, mbox
<1>0. NCmds \in Nat /\ MaxSuspends \in Nat /\ fwcmds \in Int /\ suspends \in Int
  BY DceAssumption
<1>1. CASE StartResume
  BY <1>0, <1>1 DEF StartResume, Start
<1>2. CASE Sc7Entered
  BY <1>0, <1>2 DEF Sc7Entered
<1>3. CASE SleepAndWake
  <2>1. pm' = "exiting" /\ fw' = "off" /\ fwcmds' \in 0..NCmds /\ boot_req' = FALSE /\ admirq' = FALSE
    BY <1>0, <1>3 DEF SleepAndWake
  <2> QED BY <1>3, <2>1 DEF SleepAndWake
<1>4. CASE Resumed
  BY <1>0, <1>4 DEF Resumed
<1>5. CASE IsrMailbox
  BY <1>0, <1>5 DEF IsrMailbox
<1>6. CASE IsrAdmin
  BY <1>0, <1>6 DEF IsrAdmin
<1>7. CASE IsrPost
  <2>1. \A e : StateFor(e) \in States
    BY DEF StateFor, States, Waiting
  <2> QED BY <1>7, <2>1 DEF IsrPost
<1>8. CASE IsrWake
  BY <1>0, <1>8 DEF IsrWake
<1>9. CASE FwBoot
  BY <1>0, <1>9 DEF FwBoot
<1>10. CASE FwReady
  BY <1>0, <1>10 DEF FwReady
<1>11. CASE FwCommand("ack") \/ FwRefuse
  <2>1. fwcmds' \in {fwcmds, IF fwcmds < NCmds THEN fwcmds + 1 ELSE fwcmds}
    BY <1>11 DEF FwRefuse, FwCommand
  <2>2. fwcmds' \in 0..NCmds
    BY <1>0, <2>1
  <2> QED BY <1>11, <2>2 DEF FwRefuse, FwCommand
<1>12. CASE FwAdmin
  BY <1>0, <1>12 DEF FwAdmin
<1>13. CASE FwSc7
  BY <1>0, <1>13 DEF FwSc7
<1>14. CASE FwAbort
  BY <1>0, <1>14 DEF FwAbort
<1>15. CASE EnterSc7
  BY <1>0, <1>15 DEF EnterSc7
<1>16. CASE \E c \in Clients : ClientCalls(c)
  BY <1>16 DEF ClientCalls, CallAdmin
<1> QED BY <1>1, <1>2, <1>3, <1>4, <1>5, <1>6, <1>7, <1>8, <1>9, <1>10, <1>11, <1>12, <1>13, <1>14,
      <1>15, <1>16 DEF Step, Power, Isr, Firmware

\* The interrupt thread posts what mailbox messages stand for.
LEMMA InterruptStep == ASSUME Interrupt, Mail, Step PROVE Interrupt'
<1>1. CASE UNCHANGED isr
  BY <1>1 DEF Interrupt
<1>2. CASE IsrMailbox
  <2>1. rmb \in Messages({"ready", "sc7", "abort", "ack", "err"})
    BY <1>2 DEF IsrMailbox, Mail, Boxed
  <2>2. EventFor(rmb.kind) \in Replies \cup {"ABORT_RECEIVED"}
    BY <2>1, ReplyNames DEF Messages, Replies
  <2>3. isr' = [step |-> "post", event |-> EventFor(rmb.kind)]
    BY <1>2 DEF IsrMailbox
  <2> QED BY <2>2, <2>3 DEF Interrupt, Replies
<1>3. CASE IsrAdmin
  BY <1>3 DEF IsrAdmin, Interrupt, Replies
<1>4. CASE IsrPost
  BY <1>4 DEF IsrPost, Interrupt
<1>5. CASE IsrWake
  BY <1>5 DEF IsrWake, Interrupt
<1>6. ASSUME NEW t \in Threads, Thread(t) PROVE UNCHANGED isr
  BY <1>6, ThreadSteps DEF Inward, Outward, BootCheck, NestedPost, NestedWake, NestedReset,
     Sc7NoMemory, ScheduleResume, Recheck, Consume, WaitReturns, BootAnswered, CmdAnswered, Sc7Answered,
     CmdsDone, ChannelReset, BootDone, Post, Restore, MailboxSend, AdminSend, Sc7Send, AdminAnswered,
     ChannelReady
<1>7. StartResume \/ Power \/ Firmware \/ EnterSc7 \/ FwRefuse \/ FwAbort \/ (\E c \in Clients : ClientCalls(c))
        => UNCHANGED isr
  BY DEF StartResume, Power, Sc7Entered, SleepAndWake, Resumed, Firmware, FwBoot, FwReady, FwCommand,
     FwAdmin, FwSc7, EnterSc7, FwRefuse, FwAbort, ClientCalls, CallAdmin
<1> QED BY <1>1, <1>2, <1>3, <1>4, <1>5, <1>6, <1>7 DEF Step, Isr

\* A message is tagged with its call, and an answer with the message it answers.
LEMMA MsgFacts ==
  /\ \A kinds, kind, tag : kind \in kinds /\ tag \in MsgTags => Msg(kind, tag) \in Messages(kinds)
  /\ \A kinds : \A m \in Messages(kinds) : m.kind \in kinds /\ m.tag \in MsgTags /\ m = Msg(m.kind, m.tag)
  /\ \A m, n : Msg("admin", m) = Msg("admin", n) => m = n
  /\ \A kind, tag : Msg(kind, tag).kind = kind /\ Msg(kind, tag).tag = tag
  /\ <<>> \in MsgTags /\ NoMsg.kind = "none" /\ \A kind, tag : kind # "none" => Msg(kind, tag) # NoMsg
BY DEF Msg, Messages, MsgTags, NoMsg

\* The tag of a thread's call.
LEMMA TagFacts == ASSUME Typed, NEW t \in Threads PROVE Tag(t) \in MsgTags
<1>1. todo[t] \in Seq(CallNames)
  BY DEF Typed
<1>2. Len(todo[t]) \in Nat
  BY <1>1, LenProperties
<1> QED BY <1>2 DEF Tag, MsgTags

\* The mailboxes and rings hold messages, and the rings no more than fit.
LEMMA MailStep == ASSUME Mail, Typed, Step PROVE Mail'
<1> DEFINE A == Messages({"admin", "sc7"})
           R == Messages({"admin"})
<1>0. /\ Frames \in Nat \ {0} /\ smb \in Boxed({"cmd"})
      /\ rmb \in Boxed({"ready", "sc7", "abort", "ack", "err"})
      /\ atx \in Seq(A) /\ Len(atx) <= Frames /\ arx \in Seq(R) /\ Len(arx) <= Frames
      /\ Len(atx) \in Nat /\ Len(arx) \in Nat
  BY DceAssumption, LenProperties DEF Mail
<1>a. \A t \in Threads : Msg("admin", Tag(t)) \in A /\ Msg("sc7", Tag(t)) \in A
                         /\ Msg("cmd", Tag(t)) \in Boxed({"cmd"})
  BY TagFacts, MsgFacts DEF Boxed
<1>b. /\ atx # <<>> => Head(atx) \in A /\ Tail(atx) \in Seq(A) /\ Len(Tail(atx)) <= Frames
      /\ arx # <<>> => Tail(arx) \in Seq(R) /\ Len(Tail(arx)) <= Frames
  <2>1. atx # <<>> => Head(atx) \in A /\ Tail(atx) \in Seq(A) /\ Len(Tail(atx)) = Len(atx) - 1
    BY <1>0, TailFacts
  <2>2. arx # <<>> => Tail(arx) \in Seq(R) /\ Len(Tail(arx)) = Len(arx) - 1
    BY <1>0, TailFacts
  <2> QED BY <1>0, <2>1, <2>2
<1>c. NoMsg \in Boxed({"cmd"}) /\ NoMsg \in Boxed({"ready", "sc7", "abort", "ack", "err"})
  BY DEF Boxed
<1> HIDE DEF A, R
<1> USE <1>0 DEF Mail, chan, mbox
<1>1. CASE UNCHANGED <<chan, mbox>>
  BY <1>1
<1>2. ASSUME NEW t \in Threads, AdminSend(t) \/ Sc7Send(t) PROVE Mail'
  <2>1. UNCHANGED <<smb, rmb, arx>>
    BY <1>2 DEF AdminSend, Sc7Send
  <2>2. \/ UNCHANGED atx
        \/ Len(atx) < Frames /\ \E m \in A : atx' = Append(atx, m)
    BY <1>2, <1>a DEF AdminSend, Sc7Send
  <2>3. atx' \in Seq(A) /\ Len(atx') <= Frames
    BY <2>2, AppendFacts
  <2> QED BY <2>1, <2>3 DEF A, R
<1>3. ASSUME NEW t \in Threads, MailboxSend(t) PROVE Mail'
  BY <1>3, <1>a DEF MailboxSend
<1>4. ASSUME NEW t \in Threads, AdminAnswered(t) PROVE Mail'
  <2>1. UNCHANGED <<smb, rmb, atx>> /\ arx' \in Seq(R) /\ Len(arx') <= Frames
    BY <1>4, <1>b DEF AdminAnswered
  <2> QED BY <2>1 DEF A, R
<1>5. ASSUME NEW t \in Threads, ChannelReady(t) PROVE Mail'
  BY <1>5 DEF ChannelReady
<1>6. ASSUME NEW t \in Threads, Inward(t) PROVE UNCHANGED <<smb, rmb, atx, arx>>
  BY <1>6 DEF Inward, BootCheck, NestedPost, NestedWake, NestedReset,
     Sc7NoMemory, ScheduleResume, Recheck, Consume, WaitReturns, BootAnswered, CmdAnswered, Sc7Answered,
     CmdsDone, ChannelReset, BootDone, Post, Restore
<1>7. StartResume \/ Sc7Entered \/ Resumed \/ FwBoot \/ EnterSc7 \/ (\E c \in Clients : ClientCalls(c))
        \/ IsrPost \/ IsrWake
        => UNCHANGED <<chan, mbox>>
  BY DEF StartResume, Sc7Entered, Resumed, FwBoot, EnterSc7, ClientCalls, CallAdmin, IsrPost, IsrWake
<1>8. CASE SleepAndWake
  BY <1>8, <1>c DEF SleepAndWake
<1>9. CASE IsrMailbox
  BY <1>9, <1>c DEF IsrMailbox
<1>10. CASE IsrAdmin
  BY <1>10 DEF IsrAdmin
<1>11. CASE FwReady \/ FwAbort
  <2>1. IrqMsg("ready") \in Boxed({"ready", "sc7", "abort", "ack", "err"})
        /\ IrqMsg("abort") \in Boxed({"ready", "sc7", "abort", "ack", "err"})
    BY MsgFacts DEF IrqMsg, Boxed
  <2> QED BY <1>11, <2>1 DEF FwReady, FwAbort
<1>12. CASE FwCommand("ack") \/ FwRefuse
  <2>1. PICK kind \in {"ack", "err"} : FwCommand(kind)
    BY <1>12 DEF FwRefuse
  <2>2. smb.tag \in MsgTags
    BY <2>1, MsgFacts DEF FwCommand, Boxed
  <2>3. Msg(kind, smb.tag) \in Boxed({"ready", "sc7", "abort", "ack", "err"})
    BY <2>2, MsgFacts DEF Boxed
  <2> QED BY <2>1, <2>3, <1>c DEF FwCommand
<1>13. CASE FwAdmin
  <2>1. Head(atx) \in R
    BY <1>13, <1>b, MsgFacts DEF FwAdmin, A, R, Messages
  <2>2. Append(arx, Head(atx)) \in Seq(R) /\ Len(Append(arx, Head(atx))) <= Frames
    BY <1>13, <2>1, AppendFacts DEF FwAdmin
  <2>3. UNCHANGED <<smb, rmb>> /\ atx' = Tail(atx) /\ arx' = Append(arx, Head(atx)) /\ atx # <<>>
    BY <1>13 DEF FwAdmin
  <2> QED BY <2>2, <2>3, <1>b DEF A, R
<1>14. CASE FwSc7
  <2>1. IrqMsg("sc7") \in Boxed({"ready", "sc7", "abort", "ack", "err"})
    BY MsgFacts DEF IrqMsg, Boxed
  <2>2. UNCHANGED <<smb, arx>> /\ atx' = Tail(atx) /\ atx # <<>> /\ rmb' = IrqMsg("sc7")
    BY <1>14 DEF FwSc7
  <2> QED BY <2>1, <2>2, <1>b DEF A, R
<1>15. ASSUME NEW t \in Threads, Thread(t) PROVE Mail'
  BY <1>15, <1>2, <1>3, <1>4, <1>5, <1>6, ThreadSteps DEF Outward
<1> QED BY <1>1, <1>7, <1>8, <1>9, <1>10, <1>11, <1>12, <1>13, <1>14, <1>15 DEF Step, Power, Isr, Firmware

\* A thread ends a step by going on in its call, or by ending it well or badly.
LEMMA ThreadMoves ==
  ASSUME Shape, NEW t \in Threads, Thread(t)
  PROVE  /\ UNCHANGED <<pm, callers, suspends>> /\ Running(t)
         /\ \/ \E s \in Steps : Goto(t, s) /\ PlacedAt(todo[t], s)
            \/ Done(t) \/ Fail(t)
<1> USE DEF caller, In
<1>1. PlacedAt(todo[t], pc[t]) /\ ListedIn(Menu(t), todo[t])
  BY DEF Shape
<1> DEFINE Moves == \/ \E s \in Steps : Goto(t, s) /\ PlacedAt(todo[t], s)
                    \/ Done(t) \/ Fail(t)
<1>2. \A s \in Steps \ {"post", "failed", "handshake"} :
        Running(t) /\ Head(todo[t]) \in Sends
          /\ (s \in {"nested", "nestedwake", "nestedreset", "nestedreset_failed"} => Head(todo[t]) = "boot")
          => PlacedAt(todo[t], s)
  BY DEF PlacedAt, Steps, Running
<1>3. {"callback", "nested", "nestedwake", "nestedreset", "nestedreset_failed", "wait", "woken", "consume",
       "answered", "restore", "handshake"} \subseteq Steps
  BY DEF Steps
<1>4. {"boot", "cmd", "admin", "sc7"} = Sends
  BY DEF Sends
<1>5. CASE Post(t)
  <2>1. Running(t) /\ UNCHANGED caller
    BY <1>5 DEF Post
  <2>2. Head(todo[t]) # "start" => PlacedAt(todo[t], "callback")
    BY <1>5 DEF PlacedAt, Running, Post, Sends
  <2>3. Done(t) \/ Fail(t) \/ (Goto(t, "callback") /\ Head(todo[t]) # "start")
    BY <1>5, Names DEF Post
  <2> QED BY <1>3, <2>1, <2>2, <2>3
<1>6. CASE Restore(t)
  BY <1>6 DEF Restore
<1>7. CASE BootCheck(t)
  BY <1>7, <1>2, <1>3, <1>4 DEF BootCheck
<1>8. CASE NestedPost(t)
  BY <1>8, <1>2, <1>3, <1>4 DEF NestedPost
<1>9. CASE NestedWake(t)
  BY <1>9, <1>2, <1>3, <1>4 DEF NestedWake
<1>10. CASE MailboxSend(t)
  BY <1>10, <1>2, <1>3, <1>4 DEF MailboxSend
<1>11. CASE AdminSend(t)
  BY <1>11, <1>2, <1>3, <1>4 DEF AdminSend
<1>12. CASE Sc7Send(t)
  BY <1>12, <1>2, <1>3, <1>4 DEF Sc7Send
<1>13. CASE CmdAnswered(t)
  BY <1>13, <1>2, <1>3, <1>4 DEF CmdAnswered
<1>14. CASE AdminAnswered(t)
  BY <1>14, <1>2, <1>3, <1>4 DEF AdminAnswered
<1>15. CASE Sc7NoMemory(t)
  BY <1>15 DEF Sc7NoMemory
<1>16. CASE ScheduleResume(t)
  BY <1>16 DEF ScheduleResume
<1>17. CASE BootAnswered(t)
  BY <1>17 DEF BootAnswered
<1>18. CASE Sc7Answered(t)
  BY <1>18 DEF Sc7Answered
<1>19. CASE CmdsDone(t)
  BY <1>19 DEF CmdsDone
<1>20. CASE ChannelReady(t)
  BY <1>20 DEF ChannelReady
<1>21. CASE BootDone(t)
  BY <1>21 DEF BootDone
<1>22. CASE NestedReset(t)
  <2>1. Running(t) /\ UNCHANGED caller /\ Head(todo[t]) \in Sends
    BY <1>22, <1>1, <1>4 DEF NestedReset, PlacedAt
  <2> QED BY <1>22, <2>1, <1>2, <1>3 DEF NestedReset
<1>23. CASE WaitReturns(t)
  <2>1. Running(t) /\ UNCHANGED caller /\ Head(todo[t]) \in Sends
    BY <1>23, <1>1, <1>4 DEF WaitReturns, PlacedAt
  <2> QED BY <1>23, <2>1, <1>2, <1>3 DEF WaitReturns
<1>24. CASE Recheck(t)
  <2>1. Running(t) /\ UNCHANGED caller /\ Head(todo[t]) \in Sends
    BY <1>24, <1>1, <1>4 DEF Recheck, PlacedAt
  <2> QED BY <1>24, <2>1, <1>2, <1>3 DEF Recheck
<1>25. CASE Consume(t)
  <2>1. Running(t) /\ UNCHANGED caller /\ Head(todo[t]) \in Sends
    BY <1>25, <1>1, <1>4 DEF Consume, PlacedAt
  <2> QED BY <1>25, <2>1, <1>2, <1>3 DEF Consume
<1>26. CASE ChannelReset(t)
  <2>1. Running(t) /\ UNCHANGED caller /\ PlacedAt(todo[t], "handshake")
    BY <1>26 DEF ChannelReset, PlacedAt, Running
  <2> QED BY <1>26, <1>3, <2>1 DEF ChannelReset
<1> QED BY ThreadSteps, <1>5, <1>6, <1>7, <1>8, <1>9, <1>10, <1>11, <1>12, <1>13, <1>14, <1>15,
      <1>16, <1>17, <1>18, <1>19, <1>20, <1>21, <1>22, <1>23, <1>24, <1>25, <1>26 DEF Inward,
      Outward

\* Threads are where their calls have got them, after every step.
LEMMA ShapeStep == ASSUME Shape, Step PROVE Shape'
<1>1. ASSUME NEW t \in Threads, Thread(t) PROVE Shape'
  <2>1. UNCHANGED pm /\ Running(t)
    BY <1>1, ThreadMoves
  <2> QED BY <1>1, <2>1, ThreadMoves, GotoShape, DoneShape, FailShape
<1>2. CASE StartResume
  <2>1. Start("resume", BootFlow) /\ UNCHANGED pm /\ "resume" \in Threads
    BY <1>2 DEF StartResume, Threads, Workers, caller
  <2>2. \A u : Menu(u)' = Menu(u)
    BY <2>1 DEF Menu
  <2>3. ListedIn(Menu("resume")', BootFlow)
    BY <2>2, MenuFacts, StartLists DEF Workers
  <2> QED BY <2>1, <2>2, <2>3, StartShape
<1>3. CASE \E c \in Clients : ClientCalls(c)
  <2>1. PICK c \in Clients : ClientCalls(c)
    BY <1>3
  <2>2. Start(c, Calls("admin", NRpc)) /\ UNCHANGED pm /\ c \in Threads
    BY <2>1 DEF ClientCalls, CallAdmin, Threads
  <2>3. \A u : Menu(u)' = Menu(u)
    BY <2>2 DEF Menu
  <2>4. ListedIn(Menu(c)', Calls("admin", NRpc))
    BY <2>3, MenuFacts, StartLists
  <2> QED BY <2>2, <2>3, <2>4, StartShape
<1>a. "pm" \in Threads /\ \A u \in Threads \ {"pm"} : Menu(u)' = Menu(u)
  BY DEF Threads, Menu
<1>4. CASE EnterSc7
  <2>1. PICK q \in {<<"admin", "sc7">>, <<>>} : Start("pm", q)
    BY <1>4 DEF EnterSc7
  <2>2. Menu("pm")' = {"admin", "sc7"}
    BY <1>4, DceAssumption DEF EnterSc7, Menu, Workers
  <2>3. ListedIn(Menu("pm")', q)
    BY <2>1, <2>2, StartLists
  <2> QED BY <1>a, <2>1, <2>3, StartShape
<1>5. CASE SleepAndWake
  <2>1. Start("pm", <<"exit">>)
    BY <1>5 DEF SleepAndWake
  <2>2. Menu("pm")' = {"exit"}
    BY <1>5, DceAssumption DEF SleepAndWake, Menu, Workers
  <2>3. ListedIn(Menu("pm")', <<"exit">>)
    BY <2>2, StartLists
  <2> QED BY <1>a, <2>1, <2>3, StartShape
<1>6. CASE Sc7Entered \/ Resumed
  <2>1. UNCHANGED <<todo, pc>> /\ todo["pm"] = <<>>
    BY <1>6 DEF Sc7Entered, Resumed, Running
  <2>2. \A u \in Threads : ListedIn(Menu(u)', todo[u])
    BY <1>a, <2>1, StartLists DEF Shape
  <2> QED BY <2>1, <2>2 DEF Shape, Typed
<1>7. CASE Isr \/ Firmware \/ FwRefuse \/ FwAbort
  <2>1. UNCHANGED <<todo, pc, pm>>
    BY <1>7 DEF caller, Isr, IsrMailbox, IsrAdmin, IsrPost, IsrWake, Firmware, FwBoot, FwReady, FwCommand,
       FwAdmin, FwSc7, FwRefuse, FwAbort
  <2>2. \A u : Menu(u)' = Menu(u)
    BY <2>1 DEF Menu
  <2> QED BY <2>1, <2>2 DEF Shape, Typed
<1> QED BY <1>1, <1>2, <1>3, <1>4, <1>5, <1>6, <1>7 DEF Step, Power

\* The types hold throughout, whatever the environment.
THEOREM Invariance == Spec => []Inv
<1>1. ASSUME Inv, [Next]_vars PROVE Inv'
  <2>1. CASE Next
    <3>1. Step /\ UNCHANGED env
      BY <2>1 DEF Next
    <3>2. Control'
      BY <1>1, <3>1, ThreadControl, OtherControl DEF Inv
    <3>3. Interrupt' /\ Mail' /\ Shape'
      BY <1>1, <3>1, InterruptStep, MailStep, ShapeStep DEF Inv, Shape
    <3> QED BY <3>2, <3>3 DEF Inv
  <2>2. CASE UNCHANGED vars
    <3>1. UNCHANGED <<env, c_state, prev, todo, pc, pm, callers, suspends>>
      BY <2>2 DEF vars, system, caller
    <3>2. UNCHANGED <<boot_status, ack, mb_locked, synced, resume_work, complete, isr>>
      BY <2>2 DEF vars, system, driver
    <3>3. UNCHANGED <<smb, rmb, boot_req, atx, arx, admirq, fw, fwcmds>>
      BY <2>2 DEF vars, system, mbox, chan
    <3>4. Control'
      BY <1>1, <3>1, <3>2, <3>3 DEF Inv, Control
    <3>5. Interrupt' /\ Mail'
      BY <1>1, <3>2, <3>3 DEF Inv, Interrupt, Mail
    <3>6. \A u : Menu(u)' = Menu(u)
      BY <3>1 DEF Menu
    <3>7. Shape'
      BY <1>1, <3>1, <3>6 DEF Inv, Shape, Typed
    <3> QED BY <3>4, <3>5, <3>7 DEF Inv
  <2> QED BY <1>1, <2>1, <2>2
<1> QED BY <1>1, InitInv, PTL DEF Spec

\* Every thread is at a step of a call it makes, and the admin rings never hold
\* more frames than they have: dce_fsm_post_event() and its callers.
THEOREM TypeCorrect == Spec => []TypeOK
<1>1. Inv => TypeOK
  <2> SUFFICES ASSUME Inv PROVE TypeOK
    OBVIOUS
  <2>1. \A t \in Threads : pc[t] \in Steps /\ (~Running(t) => pc[t] \in {"post", "failed"})
    BY DEF Inv, Shape, Typed, PlacedAt, Running
  <2>2. isr.step \in {"off", "post", "wake"} /\ isr.event \in Events \cup {"none"}
    BY DEF Inv, Interrupt, Events
  <2>3. Len(atx) <= Frames /\ Len(arx) <= Frames
    BY DEF Inv, Mail
  <2> QED BY <2>1, <2>2, <2>3 DEF Inv, Control, TypeOK
<1> QED BY <1>1, Invariance, PTL

-----------------------------------------------------------------------------
(* The calm behaviours.  Between calls, and where a call waits for nothing, *)
(* nothing is under way.                                                    *)

Silent == \A e \in Replies : ~Flying(e) /\ ~complete[e]
Empty == atx = <<>> /\ arx = <<>>
Settled == c_state \in Waiting => Stranded
Owns(t) == Calling(t) /\ pc[t] # "post" /\ StateFor(EventOf(Head(todo[t]))) = c_state

\* A request's reply is one of the replies, its state one of the waiting ones.
LEMMA SendFacts ==
  ASSUME NEW t, Calling(t)
  PROVE  /\ StateFor(EventOf(Head(todo[t]))) \in Waiting /\ WaitOf(t) \in Replies
         /\ (Head(todo[t]) = "boot" <=> WaitOf(t) = "BOOT_COMPLETE_RECEIVED")
         /\ (Head(todo[t]) = "cmd" <=> WaitOf(t) = "BOOT_CMD_MSG_RECEIVED")
         /\ (Head(todo[t]) = "admin" <=> WaitOf(t) = "ADMIN_IPC_MSG_RECEIVED")
         /\ (Head(todo[t]) = "sc7" <=> WaitOf(t) = "SC7_ENTERED_RECEIVED")
<1>1. Head(todo[t]) \in {"boot", "cmd", "admin", "sc7"}
  BY DEF Calling, Sends
<1> QED BY <1>1, Names DEF WaitOf, Waiting, Replies

\* A frame in the ring to the firmware is a request that is under way.
LEMMA NoFrame == ASSUME Mail, \A e \in Replies : ~Flying(e) PROVE atx = <<>>
<1> SUFFICES ASSUME atx # <<>> PROVE FALSE
  OBVIOUS
<1>1. atx \in Seq(Messages({"admin", "sc7"}))
  BY DEF Mail
<1>2. atx[1] \in Messages({"admin", "sc7"})
  BY <1>1, TailFacts
<1>3. atx[1].kind \in {"admin", "sc7"}
  BY <1>2, MsgFacts
<1>4. Asked("ADMIN_IPC_MSG_RECEIVED") \/ Asked("SC7_ENTERED_RECEIVED")
  BY <1>3 DEF Asked
<1> QED BY <1>4 DEF Flying, Replies

\* A thread that waits for nothing ...
LEMMA Resting ==
  ASSUME Mail, NEW t, Held(t), pc[t] \notin {"wait", "woken", "consume", "nestedreset"}
  PROVE  /\ Silent /\ atx = <<>> /\ (pc[t] # "answered" => Empty)
         /\ (pc[t] = "post" \/ ~Calling(t) => Settled)
<1>1. Silent
  BY DEF Held, Replying, Wanted, Silent
<1>2. atx = <<>>
  BY <1>1, NoFrame DEF Silent
<1>3. pc[t] # "answered" => arx = <<>>
  BY DEF Held, Framed
<1>4. pc[t] = "post" \/ ~Calling(t) => Settled
  BY DEF Held, Owned, Settled
<1> QED BY <1>1, <1>2, <1>3, <1>4 DEF Empty

\* ... and what it is for nothing to be under way.
LEMMA Unheld ==
  ASSUME NEW t, Silent', atx' = <<>>, Faultless', Waits(t)',
         arx' # <<>> => Expects(t, "ADMIN_IPC_MSG_RECEIVED")' /\ arx' = Own(t)' /\ pc'[t] = "answered",
         Expects(t, "ADMIN_IPC_MSG_RECEIVED")' /\ pc'[t] \in {"woken", "consume", "answered"} => arx' # <<>>,
         (c_state \in Waiting /\ ~Stranded => Owns(t))'
  PROVE  Held(t)'
<1>1. Replying(t)'
  BY DEF Replying, Once, Wanted, Silent, Flying
<1>2. Owned(t)'
  BY DEF Owned, Silent, Flying, Owns
<1>3. Framed(t)'
  <2>1. ~Flying("ADMIN_IPC_MSG_RECEIVED")' /\ ~complete'["ADMIN_IPC_MSG_RECEIVED"]
    BY DEF Silent, Replies
  <2>2. ~admirq'
    BY <2>1 DEF Flying, Answered
  <2> QED BY <2>1, <2>2, EmptySeq DEF Framed, Flying
<1> QED BY <1>1, <1>2, <1>3 DEF Held

\* The end of a call, or of all calls.
LEMMA Ended ==
  ASSUME NEW t \in Threads, Shape', Silent', Empty', Faultless', Settled', pc'[t] \in {"post", "failed"}
  PROVE  Held(t)'
<1>1. pc'[t] = "failed" => ~Calling(t)'
  BY DEF Shape, PlacedAt, Calling, Running
<1>2. Waits(t)'
  BY <1>1 DEF Waits
<1> QED BY <1>2, Unheld DEF Empty, Settled

\* Steps that no mailbox, ring or flag takes part in.
LEMMA StillSilent ==
  ASSUME Silent, UNCHANGED <<chan, mbox, isr, complete>> PROVE Silent'
BY DEF Silent, Flying, Asked, Answered, Posting, Waking, chan, mbox

-----------------------------------------------------------------------------
(* The thread that makes calls, alone.                                     *)

\* Nobody but t runs, so it is t that takes a thread's step.
LEMMA TheOne ==
  ASSUME Shape, NEW t \in Threads, Alone(t), NEW u \in Threads, Thread(u)
  PROVE  u = t
<1>1. Running(u)
  BY ThreadMoves
<1> QED BY <1>1 DEF Alone

\* In its step, the others stay where they are.
LEMMA Others ==
  ASSUME Shape, NEW t \in Threads, Thread(t)
  PROVE  /\ \A u \in Threads \ {t} : todo'[u] = todo[u] /\ pc'[u] = pc[u] /\ Running(u)' = Running(u)
         /\ UNCHANGED pm /\ Running(t) /\ pc[t] # "failed"
         /\ \/ todo'[t] = todo[t] /\ Running(t)' /\ UNCHANGED todo /\ pc'[t] \in Steps
            \/ todo'[t] = Tail(todo[t]) /\ pc'[t] = "post"
            \/ todo'[t] = <<>> /\ ~Running(t)' /\ pc'[t] = "failed"
<1>1. /\ UNCHANGED <<pm, callers, suspends>> /\ Running(t)
      /\ \/ \E s \in Steps : Goto(t, s) /\ PlacedAt(todo[t], s)
         \/ Done(t) \/ Fail(t)
  BY ThreadMoves
<1>2. Typed /\ pc[t] # "failed"
  BY <1>1 DEF Shape, PlacedAt, Running
<1>3. CASE \E s \in Steps : Goto(t, s)
  BY <1>1, <1>2, <1>3 DEF Goto, Typed, Running
<1>4. CASE Done(t)
  BY <1>1, <1>2, <1>4 DEF Done, Typed, Running
<1>5. CASE Fail(t)
  BY <1>1, <1>2, <1>5 DEF Fail, Typed, Running
<1> QED BY <1>1, <1>3, <1>4, <1>5

\* In a stranded machine a caller's step is a refused request.
LEMMA StrandedStep ==
  ASSUME Shape, NEW t \in Threads, Alone(t), Stranded, Thread(t), UNCHANGED env
  PROVE  Post(t) /\ Fail(t) /\ UNCHANGED c_state /\ Stranded'
<1>1. /\ pc[t] = "post" /\ Running(t) /\ t \notin Workers
  BY Others DEF Stranded, Alone
<1>2. ListedIn(Menu(t), todo[t]) /\ todo[t] # <<>>
  BY <1>1 DEF Shape, Running
<1>3. Head(todo[t]) \in Menu(t)
  BY <1>2, ListedTail
<1>4. Head(todo[t]) \in {"admin", "sc7", "exit"}
  BY <1>1, <1>3 DEF Menu
<1>5. Post(t)
  BY <1>1, <1>4, ThreadSteps DEF Inward, Outward, BootCheck, NestedPost, NestedWake, NestedReset,
     Sc7NoMemory, ScheduleResume, Recheck, Consume, WaitReturns, BootAnswered, CmdAnswered, Sc7Answered,
     CmdsDone, ChannelReset, BootDone, Restore, MailboxSend, AdminSend, Sc7Send, AdminAnswered,
     ChannelReady, In
<1>6. EventOf(Head(todo[t])) \in Requests \cup {"SC7_EXIT_RECEIVED"}
  BY <1>4, Names DEF Sends
<1>7. ~Accepted(c_state, EventOf(Head(todo[t])))
  BY <1>6, Names DEF Stranded, Accepted, Requests, Replies, Waiting
<1>8. Fail(t) /\ UNCHANGED c_state
  BY <1>5, <1>7 DEF Post
<1>9. Stranded'
  <2>1. UNCHANGED boot_status
    BY <1>5 DEF Post, driver
  <2>2. \A u \in Threads : pc'[u] \in {"post", "failed"}
    BY <1>8, Others DEF Fail, Shape, Typed, Stranded
  <2> QED BY <1>8, <2>1, <2>2 DEF Stranded
<1> QED BY <1>5, <1>8, <1>9

\* A step that does not touch what decides about boots and suspends.
LEMMA AloneStep ==
  ASSUME Shape, NEW t \in Threads, Alone(t), Thread(t), UNCHANGED <<env, resume_work>>, Shape',
         "BOOT_DONE" \in boot_status' <=> "BOOT_DONE" \in boot_status,
         pm = "entering" /\ t = "pm" /\ ~Running(t)' /\ pc'[t] # "failed" => Stranded'
  PROVE  Alone(t)'
<1>1. Stranded => Stranded'
  BY StrandedStep
<1>2. /\ \A u \in Threads \ {t} : Running(u)' = Running(u) /\ todo'[u] = todo[u]
      /\ UNCHANGED pm /\ Running(t)
  BY Others
<1>3. "pm" \in Threads
  BY DEF Threads
<1>4. Asleep' => "BOOT_DONE" \notin boot_status' \/ Stranded'
  BY <1>1, <1>2, <1>3 DEF Asleep, Alone
<1>5. ASSUME pm = "entering", Running("pm")' PROVE todo'["pm"] \in {<<"admin", "sc7">>, <<"sc7">>}
  <2>1. todo["pm"] \in {<<"admin", "sc7">>, <<"sc7">>}
    BY <1>2, <1>3, <1>5 DEF Alone
  <2>2. todo'["pm"] \in {todo["pm"], Tail(todo["pm"]), <<>>}
    BY <1>2, <1>3, Others
  <2>3. Tail(<<"admin", "sc7">>) = <<"sc7">> /\ Tail(<<"sc7">>) = <<>>
    OBVIOUS
  <2>4. todo'["pm"] # <<>>
    BY <1>5 DEF Running
  <2>5. CASE todo["pm"] = <<"admin", "sc7">>
    BY <2>2, <2>3, <2>4, <2>5
  <2>6. CASE todo["pm"] = <<"sc7">>
    BY <2>2, <2>3, <2>4, <2>6
  <2> QED BY <2>1, <2>5, <2>6
<1>6. pm = "entering" /\ Running("pm")' => "BOOT_DONE" \in boot_status'
  BY <1>2, <1>3 DEF Alone
<1> QED BY <1>2, <1>4, <1>5, <1>6 DEF Alone

\* The same where the step is not the last one of a suspend.
LEMMA StillAlone ==
  ASSUME Shape, NEW t \in Threads, Alone(t), Thread(t), UNCHANGED <<env, resume_work>>, Shape',
         "BOOT_DONE" \in boot_status' <=> "BOOT_DONE" \in boot_status,
         Head(todo[t]) = "sc7" => Running(t)' \/ pc'[t] = "failed"
  PROVE  Alone(t)'
<1>1. ASSUME pm = "entering", t = "pm", ~Running(t)', pc'[t] # "failed" PROVE FALSE
  <2>1. todo["pm"] \in {<<"admin", "sc7">>, <<"sc7">>} /\ todo'["pm"] = Tail(todo["pm"]) /\ todo'["pm"] = <<>>
    BY <1>1, Others DEF Alone, Running
  <2>2. Tail(<<"admin", "sc7">>) # <<>> /\ Head(<<"sc7">>) = "sc7"
    OBVIOUS
  <2>3. Head(todo["pm"]) = "sc7"
    BY <2>1, <2>2
  <2> QED BY <1>1, <2>3
<1> QED BY <1>1, AloneStep

-----------------------------------------------------------------------------
(* Threads.                                                                *)

\* A post finds a machine that waits for nobody, unless it is stranded; what it
\* makes it wait for is its own reply.
LEMMA PostSolo ==
  ASSUME Inv, Shape', NEW t \in Threads, Solo(t), Post(t), UNCHANGED env
  PROVE  Solo(t)'
<1>1. /\ Thread(t) /\ pc[t] = "post" /\ Running(t) /\ Shape /\ Mail /\ Held(t) /\ Alone(t)
      /\ UNCHANGED <<resume_work, boot_status, rmb, isr, atx, arx>>
      /\ UNCHANGED <<chan, mbox, isr, complete>>
  BY DEF Inv, Solo, Thread, Post, driver, mbox, chan
<1>2. Silent /\ Empty /\ Settled /\ Faultless
  BY <1>1, Resting DEF Held, Owned
<1>3. Silent' /\ Empty' /\ Faultless'
  BY <1>1, <1>2, StillSilent DEF Empty, Faultless
<1>4. Stranded => Stranded' /\ Fail(t)
  BY <1>1, StrandedStep
<1>5. CASE ~Accepted(c_state, EventOf(Head(todo[t])))
  <2>1. Fail(t) /\ UNCHANGED c_state
    BY <1>5 DEF Post
  <2>2. pc'[t] = "failed"
    BY <1>1, <2>1 DEF Fail, Shape, Typed
  <2>3. Settled'
    BY <1>2, <1>4, <2>1 DEF Settled
  <2>4. Held(t)'
    BY <1>3, <2>2, <2>3, Ended
  <2>5. Alone(t)'
    BY <1>1, <2>2, StillAlone
  <2> QED BY <2>4, <2>5 DEF Solo
<1>6. CASE Head(todo[t]) = "start" /\ Accepted(c_state, EventOf(Head(todo[t])))
  <2>1. Done(t) /\ c_state' = "IDLE"
    BY <1>6, Names DEF Post
  <2>2. pc'[t] = "post"
    BY <1>1, <2>1 DEF Done, Shape, Typed
  <2>3. Settled'
    BY <2>1 DEF Settled, Waiting
  <2>4. Held(t)'
    BY <1>3, <2>2, <2>3, Ended
  <2>5. Alone(t)'
    BY <1>1, <1>6, StillAlone
  <2> QED BY <2>4, <2>5 DEF Solo
<1>7. CASE Head(todo[t]) # "start" /\ Accepted(c_state, EventOf(Head(todo[t])))
  <2>1. /\ Goto(t, "callback") /\ c_state' = StateFor(EventOf(Head(todo[t])))
        /\ prev' = [prev EXCEPT ![t] = c_state] /\ Head(todo[t]) \in Sends \cup {"exit"}
    <3>1. EventOf(Head(todo[t])) # "FSM_START" /\ Head(todo[t]) \in Sends \cup {"exit"}
      BY <1>7, Names DEF Post, Sends, Requests
    <3> QED BY <1>7, <3>1 DEF Post
  <2>2. pc'[t] = "callback" /\ UNCHANGED todo /\ prev'[t] = c_state /\ Running(t)'
    BY <1>1, <2>1 DEF Goto, Inv, Shape, Typed, Control, Running
  <2>3. c_state \notin Waiting
    <3>1. ~Fail(t)
      BY <1>1, <2>2 DEF Fail, Shape, Typed
    <3> QED BY <1>2, <1>4, <3>1 DEF Settled
  <2>4. c_state' \in Waiting => Owns(t)'
    BY <2>1, <2>2, Names DEF Owns, Calling, Waiting
  <2>5. Waits(t)'
    BY <2>1, <2>2, <2>3 DEF Waits
  <2>6. Held(t)'
    BY <1>3, <2>2, <2>4, <2>5, Unheld DEF Empty
  <2>7. Alone(t)'
    BY <1>1, <2>2, StillAlone
  <2> QED BY <2>6, <2>7 DEF Solo
<1> QED BY <1>5, <1>6, <1>7

\* What a failed callback puts back is what its post found: no waiting state.
LEMMA RestoreSolo ==
  ASSUME Inv, Shape', NEW t \in Threads, Solo(t), Restore(t), UNCHANGED env
  PROVE  Solo(t)'
<1>1. /\ Thread(t) /\ pc[t] = "restore" /\ Running(t) /\ Shape /\ Mail /\ Held(t) /\ Alone(t)
      /\ UNCHANGED <<resume_work, boot_status, rmb, isr, atx, arx>>
      /\ UNCHANGED <<chan, mbox, isr, complete>> /\ c_state' = prev[t] /\ Fail(t)
  BY DEF Inv, Solo, Thread, Restore, driver, mbox, chan
<1>2. Silent /\ Empty /\ Faultless
  BY <1>1, Resting DEF Held, Owned
<1>3. Silent' /\ Empty' /\ Faultless'
  BY <1>1, <1>2, StillSilent DEF Empty, Faultless
<1>4. pc'[t] = "failed"
  BY <1>1 DEF Fail, Shape, Typed
<1>5. Calling(t)
  BY <1>1 DEF Shape, PlacedAt, Calling
<1>6. Settled'
  BY <1>1, <1>5 DEF Held, Owned, Waits, Settled
<1>7. Held(t)'
  BY <1>3, <1>4, <1>6, Ended
<1>8. Alone(t)'
  BY <1>1, <1>4, StillAlone
<1> QED BY <1>7, <1>8 DEF Solo

\* A call that goes on where nothing is under way: its state is still its own.
LEMMA GoesOn ==
  ASSUME Inv, Shape', NEW t \in Threads, Solo(t), Thread(t), UNCHANGED <<env, rmb, isr, prev>>,
         Silent', Empty', Calling(t), pc[t] # "post", UNCHANGED todo,
         c_state' = c_state \/ c_state' \notin Waiting,
         pc'[t] \notin {"post", "failed", "callback", "woken", "consume", "answered"},
         pc'[t] \in {"nestedwake", "nestedreset"} => c_state' \notin Waiting
  PROVE  Held(t)'
<1>1. Calling(t)' /\ Faultless' /\ Head(todo[t])' = Head(todo[t])
  BY DEF Solo, Held, Owned, Faultless, Calling, Running
<1>2. Waits(t)'
  BY <1>1 DEF Solo, Held, Owned, Waits
<1>3. Stranded => FALSE
  BY StrandedStep DEF Solo, Inv, Post
<1>4. (c_state \in Waiting /\ ~Stranded => Owns(t))'
  BY <1>1, <1>3 DEF Solo, Held, Owned, Owns
<1> QED BY <1>1, <1>2, <1>4, Unheld DEF Empty

\* A call that has sent its request: nothing is under way but its reply.
LEMMA Begins ==
  ASSUME Inv, NEW t \in Threads, Solo(t), Thread(t), Silent, Calling(t), pc[t] = "callback", pc'[t] = "wait",
         UNCHANGED <<env, c_state, prev, todo, rmb, isr, complete, admirq>>,
         \A e \in Replies : Asked(e)' => Expects(t, e)',
         Len(atx') <= 1, arx' = <<>>, Asked("ADMIN_IPC_MSG_RECEIVED")' => atx' = Own(t)'
  PROVE  Held(t)'
<1>1. Calling(t)' /\ Head(todo[t])' = Head(todo[t])
  BY DEF Calling, Running
<1>2. \A e \in Replies : ~Answered(e)' /\ ~Posting(e)' /\ ~Waking(e)' /\ ~complete'[e]
  BY DEF Silent, Flying, Answered, Posting, Waking
<1>3. Replying(t)'
  BY <1>2 DEF Replying, Once, Wanted, Flying
<1>4. ~Stranded
  BY StrandedStep DEF Post, Solo, Inv
<1>5. Owned(t)'
  BY <1>1, <1>2, <1>4 DEF Solo, Held, Owned, Waits, Faultless
<1>6. Framed(t)'
  BY <1>2 DEF Framed, Answered, Replies
<1> QED BY <1>3, <1>5, <1>6 DEF Held

\* The boot interrupt is asked for by the one that is going to wait for it.
LEMMA BootCheckSolo ==
  ASSUME Inv, Shape', NEW t \in Threads, Solo(t), BootCheck(t), UNCHANGED env
  PROVE  Solo(t)'
<1>1. /\ Thread(t) /\ pc[t] = "callback" /\ Running(t) /\ Shape /\ Mail /\ Held(t) /\ Alone(t)
      /\ UNCHANGED <<resume_work, boot_status, c_state, prev, rmb, smb, admirq, isr, atx, arx, complete, env>>
      /\ Head(todo[t]) = "boot" /\ Calling(t)
  BY DEF Inv, Solo, Thread, Callback, BootCheck, driver, mbox, chan, In, Calling, Sends
<1>2. Silent /\ Empty
  BY <1>1, Resting DEF Held, Owned
<1>3. ~boot_req
  BY <1>2 DEF Silent, Flying, Asked, Replies
<1>4. UNCHANGED todo /\ Running(t)' /\ pc'[t] \in {"nested", "wait"}
  BY <1>1 DEF BootCheck, Goto, Running, Shape, Typed
<1>5. Alone(t)'
  BY <1>1, <1>4, StillAlone
<1>6. CASE fw = "up"
  <2>1. boot_req' = boot_req /\ pc'[t] = "nested"
    BY <1>1, <1>3, <1>6 DEF BootCheck, Goto, Shape, Typed, Inv, Control
  <2>2. Silent' /\ Empty'
    BY <1>1, <1>2, <2>1, StillSilent DEF chan, mbox, Empty
  <2>3. Held(t)'
    BY <1>1, <1>4, <2>1, <2>2, GoesOn
  <2> QED BY <1>5, <2>3 DEF Solo
<1>7. CASE fw # "up"
  <2>1. pc'[t] = "wait"
    BY <1>1, <1>7 DEF BootCheck, Goto, Shape, Typed
  <2>2. Expects(t, "BOOT_COMPLETE_RECEIVED")'
    BY <1>1, <1>4, SendFacts DEF Calling, Expects, WaitOf
  <2>3. \A e \in Replies : Asked(e)' => e = "BOOT_COMPLETE_RECEIVED"
    BY <1>1, <1>2 DEF Silent, Flying, Asked, Empty
  <2>4. /\ \A e \in Replies : Asked(e)' => Expects(t, e)'
        /\ ~Asked("ADMIN_IPC_MSG_RECEIVED")'
    BY <2>2, <2>3 DEF Replies
  <2>5. Len(atx') <= 1 /\ arx' = <<>>
    BY <1>1, <1>2, EmptySeq DEF Empty
  <2>6. Held(t)'
    BY <1>1, <1>2, <1>4, <2>1, <2>4, <2>5, Begins
  <2> QED BY <1>5, <2>6 DEF Solo
<1> QED BY <1>6, <1>7

\* The callback of a boot that finds the firmware up posts the reply itself.
LEMMA NestedPostSolo ==
  ASSUME Inv, Shape', NEW t \in Threads, Solo(t), NestedPost(t), UNCHANGED env
  PROVE  Solo(t)'
<1>1. /\ Thread(t) /\ pc[t] = "nested" /\ Running(t) /\ Shape /\ Mail /\ Held(t) /\ Alone(t)
      /\ UNCHANGED <<resume_work, boot_status, prev, rmb, isr, env, atx, arx>>
      /\ UNCHANGED <<chan, mbox, isr, complete>> /\ Calling(t)
  BY DEF Inv, Solo, Thread, Callback, NestedPost, driver, mbox, chan, In, Calling, Sends
<1>2. Silent' /\ Empty'
  BY <1>1, Resting, StillSilent DEF Empty
<1>3. /\ UNCHANGED todo /\ Running(t)' /\ pc'[t] \in {"nestedwake", "nestedreset_failed"}
      /\ c_state' = c_state \/ c_state' \notin Waiting
      /\ pc'[t] = "nestedwake" => c_state' \notin Waiting
  BY <1>1, ReplyNames DEF NestedPost, Goto, Running, Shape, Typed, Waiting
<1>4. Held(t)'
  BY <1>1, <1>2, <1>3, GoesOn
<1>5. Alone(t)'
  BY <1>1, <1>3, StillAlone
<1> QED BY <1>4, <1>5 DEF Solo

\* It sets the flag nobody waits for ...
LEMMA NestedWakeSolo ==
  ASSUME Inv, Shape', NEW t \in Threads, Solo(t), NestedWake(t), UNCHANGED env
  PROVE  Solo(t)'
<1>1. /\ Thread(t) /\ pc[t] = "nestedwake" /\ Running(t) /\ Shape /\ Mail /\ Held(t) /\ Alone(t)
      /\ UNCHANGED <<resume_work, boot_status, c_state, prev, rmb, smb, boot_req, admirq, isr, env, atx, arx>>
      /\ Calling(t) /\ Head(todo[t]) = "boot" /\ Goto(t, "nestedreset")
      /\ complete' = [complete EXCEPT !["BOOT_COMPLETE_RECEIVED"] = TRUE]
  BY DEF Inv, Solo, Thread, Callback, NestedWake, driver, mbox, chan, In, Calling, Sends
<1>2. Silent /\ Empty
  BY <1>1, Resting DEF Empty
<1>3. UNCHANGED todo /\ Running(t)' /\ pc'[t] = "nestedreset"
  BY <1>1 DEF Goto, Running, Shape, Typed
<1>4. Calling(t)' /\ Expects(t, "BOOT_COMPLETE_RECEIVED")' /\ ~Expects(t, "ADMIN_IPC_MSG_RECEIVED")'
  BY <1>1, <1>3, SendFacts DEF Calling, Expects, WaitOf
<1>5. \A e \in Replies : ~Flying(e)' /\ (complete'[e] <=> e = "BOOT_COMPLETE_RECEIVED")
  BY <1>1, <1>2 DEF Silent, Flying, Asked, Answered, Posting, Waking, Inv, Control
<1>6. Replying(t)'
  BY <1>3, <1>4, <1>5 DEF Replying, Once, Wanted, Flying
<1>7. c_state \notin Waiting
  BY <1>1 DEF Held, Owned, Waits
<1>8. Owned(t)'
  BY <1>1, <1>3, <1>4, <1>7 DEF Held, Owned, Waits, Faultless
<1>9. ~Flying("ADMIN_IPC_MSG_RECEIVED")' /\ ~complete'["ADMIN_IPC_MSG_RECEIVED"]
  BY <1>5 DEF Replies
<1>10. Framed(t)'
  BY <1>1, <1>2, <1>4, <1>9, EmptySeq DEF Framed, Empty, Flying, Answered
<1>11. Alone(t)'
  BY <1>1, <1>3, StillAlone
<1> QED BY <1>6, <1>8, <1>10, <1>11 DEF Solo, Held

\* ... and clears it.
LEMMA NestedResetSolo ==
  ASSUME Inv, Shape', NEW t \in Threads, Solo(t), NestedReset(t), UNCHANGED env
  PROVE  Solo(t)'
<1>1. /\ Thread(t) /\ pc[t] \in {"nestedreset", "nestedreset_failed"} /\ Running(t) /\ Shape /\ Mail /\ Held(t)
      /\ UNCHANGED <<resume_work, boot_status, c_state, prev, rmb, smb, boot_req, admirq, isr, env, atx, arx>>
      /\ complete' = [complete EXCEPT !["BOOT_COMPLETE_RECEIVED"] = FALSE] /\ Alone(t)
  BY DEF Inv, Solo, Thread, Callback, NestedReset, driver, mbox, chan
<1>2. Head(todo[t]) = "boot" /\ Calling(t) /\ WaitOf(t) = "BOOT_COMPLETE_RECEIVED"
  BY <1>1, SendFacts DEF Shape, PlacedAt, Calling, Sends
<1>3. /\ \A e \in Replies : ~Flying(e) /\ (complete[e] => e = "BOOT_COMPLETE_RECEIVED")
      /\ arx = <<>>
  BY <1>1, <1>2 DEF Held, Replying, Wanted, Expects, Framed
<1>4. atx = <<>>
  BY <1>1, <1>3, NoFrame
<1>5. Silent' /\ Empty'
  BY <1>1, <1>3, <1>4 DEF Silent, Empty, Flying, Asked, Answered, Posting, Waking, Inv, Control
<1>6. Faultless'
  BY <1>1 DEF Held, Owned, Faultless
<1>7. CASE pc[t] = "nestedreset"
  <2>1. pc'[t] = "post"
    BY <1>1, <1>7 DEF NestedReset, Done, Shape, Typed
  <2>2. Settled'
    BY <1>1, <1>2, <1>7 DEF Held, Owned, Waits, Settled
  <2>3. Held(t)'
    BY <1>5, <1>6, <2>1, <2>2, Ended
  <2>4. Alone(t)'
    BY <1>1, <1>2, StillAlone
  <2> QED BY <2>3, <2>4 DEF Solo
<1>8. CASE pc[t] = "nestedreset_failed"
  <2>1. pc'[t] = "restore" /\ UNCHANGED todo /\ Running(t)'
    BY <1>1, <1>8 DEF NestedReset, Goto, Shape, Typed, Running
  <2>2. Held(t)'
    BY <1>1, <1>2, <1>5, <1>8, <2>1, GoesOn
  <2>3. Alone(t)'
    BY <1>1, <1>2, StillAlone
  <2> QED BY <2>2, <2>3 DEF Solo
<1> QED BY <1>1, <1>7, <1>8

\* A boot command is written to an empty mailbox.
LEMMA MailboxSendSolo ==
  ASSUME Inv, Shape', NEW t \in Threads, Solo(t), MailboxSend(t), UNCHANGED env
  PROVE  Solo(t)'
<1>1. /\ Thread(t) /\ pc[t] = "callback" /\ Running(t) /\ Shape /\ Mail /\ Held(t) /\ Alone(t)
      /\ UNCHANGED <<resume_work, boot_status, c_state, prev, rmb, admirq, isr, atx, arx, complete, env>>
      /\ UNCHANGED boot_req /\ Head(todo[t]) = "cmd" /\ Calling(t)
  BY DEF Inv, Solo, Thread, Callback, MailboxSend, driver, mbox, chan, In, Calling, Sends
<1>2. Silent /\ Empty
  BY <1>1, Resting DEF Held, Owned
<1>3. smb = NoMsg
  BY <1>2 DEF Silent, Flying, Asked, Replies
<1>4. UNCHANGED todo /\ Running(t)' /\ pc'[t] = "wait"
  BY <1>1, <1>3 DEF MailboxSend, Goto, Running, Shape, Typed
<1>5. Alone(t)'
  BY <1>1, <1>4, StillAlone
<1>6. Expects(t, "BOOT_CMD_MSG_RECEIVED")'
  BY <1>1, <1>4, SendFacts DEF Calling, Expects, WaitOf
<1>7. \A e \in Replies : Asked(e)' => e = "BOOT_CMD_MSG_RECEIVED"
  BY <1>1, <1>2 DEF Silent, Flying, Asked, Empty
<1>8. /\ \A e \in Replies : Asked(e)' => Expects(t, e)'
      /\ ~Asked("ADMIN_IPC_MSG_RECEIVED")'
  BY <1>6, <1>7 DEF Replies
<1>9. Len(atx') <= 1 /\ arx' = <<>>
  BY <1>1, <1>2, EmptySeq DEF Empty
<1>10. Held(t)'
  BY <1>1, <1>2, <1>4, <1>8, <1>9, Begins
<1> QED BY <1>5, <1>10 DEF Solo

\* An admin message, or the one to enter SC7, is written to an empty ring.
LEMMA FrameSendSolo ==
  ASSUME Inv, Shape', NEW t \in Threads, Solo(t), AdminSend(t) \/ Sc7Send(t), UNCHANGED env
  PROVE  Solo(t)'
<1>1. /\ Thread(t) /\ pc[t] = "callback" /\ Running(t) /\ Shape /\ Mail /\ Held(t) /\ Alone(t)
      /\ UNCHANGED <<resume_work, boot_status, c_state, prev, rmb, smb, admirq, isr, arx, complete, env>>
      /\ UNCHANGED boot_req /\ Head(todo[t]) \in {"admin", "sc7"} /\ Calling(t)
  BY DEF Inv, Solo, Thread, Callback, AdminSend, Sc7Send, driver, mbox, chan, In, Calling, Sends
<1>2. Silent /\ Empty /\ ~Stranded
  BY <1>1, Resting, StrandedStep DEF Post
<1>3. CASE UNCHANGED atx /\ Goto(t, "restore")
  <2>1. UNCHANGED todo /\ Running(t)' /\ pc'[t] = "restore"
    BY <1>1, <1>3 DEF Goto, Running, Shape, Typed
  <2>2. Silent' /\ Empty'
    BY <1>1, <1>2, <1>3, StillSilent DEF chan, mbox, Empty
  <2>3. Held(t)'
    BY <1>1, <2>1, <2>2, GoesOn
  <2>4. Alone(t)'
    BY <1>1, <2>1, StillAlone
  <2> QED BY <2>3, <2>4 DEF Solo
<1>4. CASE atx' = Append(atx, Msg(Head(todo[t]), Tag(t))) /\ Goto(t, "wait")
  <2>1. UNCHANGED todo /\ Running(t)' /\ pc'[t] = "wait"
    BY <1>1, <1>4 DEF Goto, Running, Shape, Typed
  <2>2. Alone(t)'
    BY <1>1, <2>1, StillAlone
  <2>3. atx' = <<Msg(Head(todo[t]), Tag(t))>> /\ Len(atx') = 1 /\ atx'[1].kind = Head(todo[t])
    BY <1>2, <1>4, MsgFacts DEF Empty
  <2>4. /\ Expects(t, "ADMIN_IPC_MSG_RECEIVED")' <=> Head(todo[t]) = "admin"
        /\ Expects(t, "SC7_ENTERED_RECEIVED")' <=> Head(todo[t]) = "sc7"
    BY <1>1, <2>1, SendFacts DEF Calling, Expects, WaitOf
  <2>5. \A e \in Replies : Asked(e)' => Expects(t, e)'
    BY <1>1, <1>2, <2>3, <2>4 DEF Silent, Flying, Asked, Empty
  <2>6. Asked("ADMIN_IPC_MSG_RECEIVED")' => atx' = Own(t)'
    BY <2>1, <2>3 DEF Asked, Own, Tag
  <2>7. Held(t)'
    BY <1>1, <1>2, <2>1, <2>3, <2>5, <2>6, Begins DEF Empty
  <2> QED BY <2>2, <2>7 DEF Solo
<1> QED BY <1>3, <1>4 DEF AdminSend, Sc7Send, In

\* Without memory for the message the machine is stranded.
LEMMA NoMemorySolo ==
  ASSUME Inv, Shape', Calm, NEW t \in Threads, Solo(t), Sc7NoMemory(t), UNCHANGED env
  PROVE  Solo(t)'
<1>1. /\ Thread(t) /\ pc[t] = "callback" /\ Running(t) /\ Shape /\ Mail /\ Held(t) /\ Alone(t)
      /\ UNCHANGED <<resume_work, boot_status, c_state, rmb, isr, atx, arx>> /\ "nomem" \in env
      /\ UNCHANGED <<chan, mbox, isr, complete>> /\ Head(todo[t]) = "sc7" /\ Calling(t) /\ Done(t)
  BY DEF Inv, Solo, Thread, Callback, Sc7NoMemory, driver, mbox, chan, In, Calling, Sends
<1>2. Silent /\ Empty /\ Faultless
  BY <1>1, Resting DEF Held, Owned
<1>3. Silent' /\ Empty' /\ Faultless'
  BY <1>1, <1>2, StillSilent DEF Empty, Faultless
<1>4. pc'[t] = "post" /\ pm = "entering" /\ t = "pm"
  <2>1. Head(todo[t]) \in Menu(t)
    BY <1>1, ListedTail DEF Shape, Running
  <2> QED BY <1>1, <2>1, MenuFacts DEF Menu, Done, Shape, Typed, Threads
<1>5. c_state = "SC7_ENTER_WFI"
  BY <1>1, Names DEF Held, Owned, Waits, Calm
<1>6. \A u \in Threads \ {t} : pc'[u] \in {"post", "failed"}
  BY <1>1, Others DEF Alone, Shape, PlacedAt, Running
<1>7. Stranded'
  BY <1>1, <1>4, <1>5, <1>6 DEF Stranded, Alone
<1>8. Held(t)'
  BY <1>3, <1>4, <1>7, Ended DEF Settled
<1>9. Alone(t)'
  BY <1>1, <1>7, AloneStep
<1> QED BY <1>8, <1>9 DEF Solo

\* The resume work is queued when the system has woken up and nobody runs.
LEMMA ScheduleSolo ==
  ASSUME Inv, Shape', NEW t \in Threads, Solo(t), ScheduleResume(t), UNCHANGED env
  PROVE  Solo(t)'
<1>1. /\ Thread(t) /\ pc[t] = "callback" /\ Running(t) /\ Shape /\ Mail /\ Held(t) /\ Alone(t)
      /\ UNCHANGED <<boot_status, c_state, rmb, isr, atx, arx>> /\ resume_work'
      /\ UNCHANGED <<chan, mbox, isr, complete>> /\ Head(todo[t]) = "exit" /\ ~Calling(t) /\ Done(t)
  BY DEF Inv, Solo, Thread, Callback, ScheduleResume, mbox, chan, In, Calling, Sends
<1>2. Silent /\ Empty /\ Faultless /\ Settled
  BY <1>1, Resting DEF Held, Owned
<1>3. ~Stranded
  BY <1>1, StrandedStep DEF Post
<1>4. Silent' /\ Empty' /\ Faultless' /\ Settled'
  BY <1>1, <1>2, <1>3, StillSilent DEF Empty, Faultless, Settled
<1>5. ListedIn(Menu(t), todo[t]) /\ todo[t] # <<>>
  BY <1>1 DEF Shape, Running
<1>6. pc'[t] = "post" /\ ~Running(t)' /\ pm = "exiting" /\ t = "pm"
  <2>1. Head(todo[t]) \in Menu(t) /\ Tail(todo[t]) = <<>>
    BY <1>1, <1>5, ListedTail DEF Finals
  <2> QED BY <1>1, <2>1, MenuFacts DEF Menu, Done, Shape, Typed, Threads, Running
<1>7. "BOOT_DONE" \notin boot_status
  BY <1>1, <1>3, <1>6 DEF Alone, Asleep
<1>8. UNCHANGED pm /\ \A u \in Threads \ {t} : Running(u)' = Running(u)
  BY <1>1, Others
<1>9. Alone(t)'
  BY <1>1, <1>6, <1>7, <1>8 DEF Alone, Asleep
<1>10. Held(t)'
  BY <1>4, <1>6, Ended
<1> QED BY <1>9, <1>10 DEF Solo

\* Where a wake-up has come, nothing else is under way; it is the thread's own, and
\* an admin RPC's answer is there.
LEMMA Told ==
  ASSUME NEW t \in Threads, Shape, Held(t), pc[t] \in {"wait", "woken", "consume"}, complete[WaitOf(t)]
  PROVE  /\ Calling(t) /\ WaitOf(t) \in Replies /\ c_state \notin Waiting
         /\ \A e \in Replies : ~Flying(e) /\ (complete[e] => e = WaitOf(t))
         /\ Expects(t, "ADMIN_IPC_MSG_RECEIVED") => arx # <<>>
<1>1. Calling(t)
  BY DEF Shape, PlacedAt, Calling, Running
<1>2. WaitOf(t) \in Replies
  BY <1>1, SendFacts
<1>3. c_state \notin Waiting
  BY <1>2 DEF Held, Owned
<1>4. \A e \in Replies : ~Flying(e) /\ (complete[e] => e = WaitOf(t))
  BY <1>2 DEF Held, Replying, Once, Wanted, Expects
<1>5. Expects(t, "ADMIN_IPC_MSG_RECEIVED") => arx # <<>>
  BY DEF Held, Framed, Expects
<1> QED BY <1>1, <1>2, <1>3, <1>4, <1>5

\* A calm wait ends when it is woken, a woken thread finds the flag set.
LEMMA AwakenedSolo ==
  ASSUME Inv, Shape', Calm, NEW t \in Threads, Solo(t), WaitReturns(t) \/ Recheck(t), UNCHANGED env
  PROVE  Solo(t)'
<1>1. /\ Thread(t) /\ pc[t] \in {"wait", "woken"} /\ Running(t) /\ Shape /\ Mail /\ Held(t) /\ Alone(t)
      /\ UNCHANGED <<boot_status, c_state, prev, rmb, smb, boot_req, admirq, isr, atx, arx, complete>>
      /\ UNCHANGED <<env, resume_work>>
  BY DEF Inv, Solo, Thread, Callback, WaitReturns, Recheck, driver, mbox, chan
<1>2. complete[WaitOf(t)]
  <2>1. CASE WaitReturns(t)
    BY <2>1 DEF WaitReturns, Calm
  <2>2. CASE Recheck(t)
    BY <1>1, <2>2 DEF Recheck, Held, Owned, Waits, Shape, PlacedAt, Calling
  <2> QED BY <2>1, <2>2
<1>3. /\ Calling(t) /\ WaitOf(t) \in Replies /\ c_state \notin Waiting
      /\ \A e \in Replies : ~Flying(e) /\ (complete[e] => e = WaitOf(t))
      /\ Expects(t, "ADMIN_IPC_MSG_RECEIVED") => arx # <<>>
  BY <1>1, <1>2, Told
<1>4. UNCHANGED todo /\ Running(t)' /\ pc'[t] \in {"woken", "consume"}
  BY <1>1, <1>2 DEF WaitReturns, Recheck, Goto, Running, Shape, Typed
<1>5. Calling(t)' /\ WaitOf(t)' = WaitOf(t) /\ Head(todo[t])' = Head(todo[t]) /\ Own(t)' = Own(t)
  BY <1>3, <1>4 DEF Calling, WaitOf, Own, Tag
<1>6. \A e \in Replies : ~Flying(e)'
  BY <1>1, <1>3 DEF Flying, Asked, Answered, Posting, Waking
<1>7. Replying(t)'
  BY <1>1, <1>3, <1>4, <1>5, <1>6 DEF Replying, Once, Wanted, Flying, Expects
<1>8. Owned(t)'
  BY <1>1, <1>2, <1>3, <1>4, <1>5 DEF Held, Owned, Waits, Faultless
<1>9. ~Flying("ADMIN_IPC_MSG_RECEIVED")'
  BY <1>6 DEF Replies
<1>10. Framed(t)'
  BY <1>1, <1>3, <1>4, <1>5, <1>9 DEF Held, Framed, Flying, Answered, Expects
<1>11. Alone(t)'
  BY <1>1, <1>4, StillAlone
<1> QED BY <1>7, <1>8, <1>10, <1>11 DEF Solo, Held

\* It takes the flag back, and only the answer in the ring is left.
LEMMA ConsumeSolo ==
  ASSUME Inv, Shape', NEW t \in Threads, Solo(t), Consume(t), UNCHANGED env
  PROVE  Solo(t)'
<1>1. /\ Thread(t) /\ pc[t] = "consume" /\ Running(t) /\ Shape /\ Mail /\ Held(t) /\ Alone(t)
      /\ UNCHANGED <<boot_status, c_state, prev, rmb, smb, boot_req, admirq, isr, atx, arx>>
      /\ UNCHANGED <<env, resume_work>> /\ complete' = [complete EXCEPT ![WaitOf(t)] = FALSE]
  BY DEF Inv, Solo, Thread, Callback, Consume, driver, mbox, chan
<1>2. complete[WaitOf(t)]
  BY <1>1 DEF Held, Owned, Waits, Shape, PlacedAt, Calling
<1>3. /\ Calling(t) /\ WaitOf(t) \in Replies /\ c_state \notin Waiting
      /\ \A e \in Replies : ~Flying(e) /\ (complete[e] => e = WaitOf(t))
      /\ Expects(t, "ADMIN_IPC_MSG_RECEIVED") => arx # <<>>
  BY <1>1, <1>2, Told
<1>4. UNCHANGED todo /\ Running(t)' /\ pc'[t] = "answered"
  BY <1>1 DEF Consume, Goto, Running, Shape, Typed
<1>5. Calling(t)' /\ WaitOf(t)' = WaitOf(t) /\ Head(todo[t])' = Head(todo[t]) /\ Own(t)' = Own(t)
  BY <1>3, <1>4 DEF Calling, WaitOf, Own, Tag
<1>6. Silent'
  BY <1>1, <1>3 DEF Silent, Flying, Asked, Answered, Posting, Waking, Inv, Control
<1>7. atx' = <<>>
  BY <1>1, <1>3, NoFrame
<1>8. Waits(t)' /\ Faultless'
  BY <1>1, <1>3, <1>4, <1>5 DEF Held, Owned, Waits, Faultless
<1>9. /\ arx' # <<>> => Expects(t, "ADMIN_IPC_MSG_RECEIVED")' /\ arx' = Own(t)' /\ pc'[t] = "answered"
      /\ Expects(t, "ADMIN_IPC_MSG_RECEIVED")' => arx' # <<>>
  BY <1>1, <1>3, <1>4, <1>5 DEF Held, Framed, Expects
<1>10. Held(t)'
  BY <1>1, <1>3, <1>6, <1>7, <1>8, <1>9, Unheld
<1>11. Alone(t)'
  BY <1>1, <1>4, StillAlone
<1> QED BY <1>10, <1>11 DEF Solo

\* A call that has had its reply: nothing else is under way, and the machine waits
\* for nobody.
LEMMA Replied ==
  ASSUME Inv, NEW t \in Threads, Solo(t), pc[t] = "answered"
  PROVE  /\ Calling(t) /\ Silent /\ Faultless /\ c_state \notin Waiting /\ atx = <<>>
         /\ IF Head(todo[t]) = "admin" THEN arx = Own(t) /\ arx # <<>> /\ Tail(arx) = <<>> ELSE arx = <<>>
<1>1. Calling(t)
  BY DEF Inv, Shape, PlacedAt, Calling, Running
<1>2. Silent /\ atx = <<>> /\ Faultless /\ c_state \notin Waiting
  BY <1>1, Resting DEF Inv, Solo, Held, Owned, Waits
<1>3. Expects(t, "ADMIN_IPC_MSG_RECEIVED") <=> Head(todo[t]) = "admin"
  BY <1>1, SendFacts DEF Expects
<1>4. Head(todo[t]) # "admin" => arx = <<>>
  BY <1>3 DEF Solo, Held, Framed
<1>5. Head(todo[t]) = "admin" => arx = Own(t) /\ arx # <<>>
  BY <1>3 DEF Solo, Held, Framed
<1>6. Tail(Own(t)) = <<>>
  BY DEF Own
<1> QED BY <1>1, <1>2, <1>4, <1>5, <1>6

\* Boot commands and boots whose reply has come.
LEMMA AnsweredSolo ==
  ASSUME Inv, Shape', NEW t \in Threads, Solo(t), BootAnswered(t) \/ CmdAnswered(t) \/ AdminAnswered(t),
         UNCHANGED env
  PROVE  Solo(t)'
<1>1. /\ Thread(t) /\ pc[t] = "answered" /\ Running(t) /\ Shape /\ Mail /\ Held(t) /\ Alone(t)
      /\ UNCHANGED <<boot_status, c_state, prev, rmb, smb, boot_req, admirq, isr, atx, complete>>
      /\ UNCHANGED <<env, resume_work>> /\ Head(todo[t]) \in {"boot", "cmd", "admin"}
  BY DEF Inv, Solo, Thread, Callback, BootAnswered, CmdAnswered, AdminAnswered, driver, mbox, chan, In
<1>2. /\ Calling(t) /\ Silent /\ Faultless /\ c_state \notin Waiting /\ atx = <<>>
      /\ IF Head(todo[t]) = "admin" THEN arx = Own(t) /\ arx # <<>> /\ Tail(arx) = <<>> ELSE arx = <<>>
  BY <1>1, Replied
<1>3. arx' = <<>>
  <2>1. CASE AdminAnswered(t)
    BY <1>2, <2>1 DEF AdminAnswered, In
  <2>2. CASE BootAnswered(t) \/ CmdAnswered(t)
    <3>1. Head(todo[t]) # "admin" /\ UNCHANGED chan
      BY <2>2 DEF BootAnswered, CmdAnswered, In
    <3> QED BY <1>2, <3>1 DEF chan
  <2> QED BY <2>1, <2>2
<1>4. Silent' /\ Empty' /\ Faultless' /\ c_state' \notin Waiting
  BY <1>1, <1>2, <1>3 DEF Silent, Empty, Faultless, Flying, Asked, Answered, Posting, Waking
<1>5. Alone(t)'
  BY <1>1, StillAlone
<1>6. CASE Done(t)
  <2>1. pc'[t] = "post"
    BY <1>1, <1>6 DEF Done, Shape, Typed
  <2> QED BY <1>4, <1>5, <2>1, Ended DEF Solo, Settled
<1>7. CASE Goto(t, "restore")
  <2>1. pc'[t] = "restore" /\ UNCHANGED todo
    BY <1>1, <1>7 DEF Goto, Shape, Typed
  <2>2. Held(t)'
    BY <1>1, <1>2, <1>4, <2>1, GoesOn
  <2> QED BY <1>5, <2>2 DEF Solo
<1> QED BY <1>6, <1>7 DEF BootAnswered, CmdAnswered, AdminAnswered

\* An entry into SC7: from here on the engine is not booted.
LEMMA Sc7AnsweredSolo ==
  ASSUME Inv, Shape', NEW t \in Threads, Solo(t), Sc7Answered(t), UNCHANGED env
  PROVE  Solo(t)'
<1>1. /\ Thread(t) /\ pc[t] = "answered" /\ Running(t) /\ Shape /\ Mail /\ Held(t) /\ Alone(t)
      /\ UNCHANGED <<c_state, prev, rmb, smb, boot_req, admirq, isr, atx, arx, complete>>
      /\ UNCHANGED <<env, resume_work>> /\ Head(todo[t]) = "sc7" /\ Done(t)
      /\ boot_status' = boot_status \ {"BOOT_DONE"}
  BY DEF Inv, Solo, Thread, Callback, Sc7Answered, driver, mbox, chan, In
<1>2. Silent /\ Faultless /\ c_state \notin Waiting /\ atx = <<>> /\ arx = <<>>
  BY <1>1, Replied
<1>3. Silent' /\ Empty' /\ Faultless' /\ c_state' \notin Waiting
  BY <1>1, <1>2 DEF Silent, Empty, Faultless, Flying, Asked, Answered, Posting, Waking
<1>4. ListedIn(Menu(t), todo[t]) /\ todo[t] # <<>>
  BY <1>1 DEF Shape, Running
<1>5. pc'[t] = "post" /\ ~Running(t)' /\ t = "pm"
  <2>1. Head(todo[t]) \in Menu(t) /\ Tail(todo[t]) = <<>>
    BY <1>1, <1>4, ListedTail DEF Finals
  <2> QED BY <1>1, <2>1, MenuFacts DEF Menu, Done, Shape, Typed, Threads, Running
<1>6. Held(t)'
  BY <1>3, <1>5, Ended DEF Settled
<1>7. UNCHANGED pm /\ \A u \in Threads \ {t} : Running(u)' = Running(u)
  BY <1>1, Others
<1>8. Alone(t)'
  BY <1>1, <1>5, <1>7 DEF Alone, Asleep
<1> QED BY <1>6, <1>8 DEF Solo

\* The rest of a boot flow; at its end the engine is booted and nobody runs.
LEMMA FlowSolo ==
  ASSUME Inv, Shape', NEW t \in Threads, Solo(t), Flow(t), UNCHANGED env
  PROVE  Solo(t)'
<1>1. /\ Thread(t) /\ pc[t] \in {"post", "handshake"} /\ Running(t) /\ Shape /\ Mail /\ Held(t) /\ Alone(t)
      /\ UNCHANGED <<c_state, prev, rmb, smb, boot_req, admirq, isr, complete>>
      /\ UNCHANGED <<env, resume_work>> /\ Head(todo[t]) \in {"cmdsdone", "reset", "bootdone"}
  BY DEF Inv, Solo, Thread, Flow, CmdsDone, ChannelReset, ChannelReady, BootDone, driver, mbox, chan, In
<1>2. ~Calling(t)
  BY <1>1 DEF Calling, Sends
<1>3. Silent /\ Empty /\ Settled /\ Faultless
  BY <1>1, <1>2, Resting DEF Held, Owned
<1>4. ~Stranded
  <2>1. SUFFICES ASSUME Stranded PROVE FALSE
    OBVIOUS
  <2>2. Post(t)
    BY <1>1, <2>1, StrandedStep
  <2> QED BY <1>1, <2>2 DEF Post
<1>5. Empty'
  BY <1>3 DEF Flow, CmdsDone, ChannelReset, ChannelReady, BootDone, chan, Empty
<1>6. Silent' /\ Faultless' /\ c_state' \notin Waiting
  BY <1>1, <1>3, <1>4, <1>5 DEF Silent, Empty, Faultless, Settled, Flying, Asked, Answered, Posting, Waking
<1>7. Held(t)'
  <2>1. CASE Goto(t, "handshake")
    <3>1. pc'[t] = "handshake" /\ ~Calling(t)'
      BY <1>1, <1>2, <2>1 DEF Goto, Shape, Typed, Calling, Running
    <3> QED BY <1>5, <1>6, <3>1, Unheld DEF Empty, Waits
  <2>2. CASE Done(t)
    <3>1. pc'[t] = "post"
      BY <1>1, <2>2 DEF Done, Shape, Typed
    <3> QED BY <1>5, <1>6, <3>1, Ended DEF Settled
  <2> QED BY <2>1, <2>2 DEF Flow, CmdsDone, ChannelReset, ChannelReady, BootDone
<1>8. CASE ~BootDone(t)
  <2>1. "BOOT_DONE" \in boot_status' <=> "BOOT_DONE" \in boot_status
    BY <1>8 DEF Flow, CmdsDone, ChannelReset, ChannelReady
  <2>2. Alone(t)'
    BY <1>1, <2>1, StillAlone
  <2> QED BY <1>7, <2>2 DEF Solo
<1>9. CASE BootDone(t)
  <2>1. ListedIn(Menu(t), todo[t]) /\ todo[t] # <<>> /\ Head(todo[t]) = "bootdone" /\ Done(t)
    BY <1>1, <1>9 DEF Shape, Running, BootDone, In
  <2>2. Head(todo[t]) \in Menu(t) /\ Tail(todo[t]) = <<>>
    BY <2>1, ListedTail DEF Finals
  <2>3. t \in Workers /\ t # "pm" /\ t \notin Clients
    BY <2>1, <2>2, DceAssumption DEF Menu, Workers
  <2>4. ~Running(t)'
    BY <1>1, <2>1, <2>2 DEF Done, Running, Shape, Typed
  <2>5. UNCHANGED pm /\ \A u \in Threads \ {t} : Running(u)' = Running(u)
    BY <1>1, Others
  <2>6. pm \notin {"entering", "entered"} /\ ~resume_work
    BY <1>1, <2>3 DEF Alone
  <2>7. ~Running("pm")'
    BY <1>1, <2>3, <2>5 DEF Alone, Threads
  <2>8. Alone(t)'
    BY <1>1, <2>4, <2>5, <2>6, <2>7 DEF Alone, Asleep
  <2> QED BY <1>7, <2>8 DEF Solo
<1> QED BY <1>8, <1>9

\* Every step of a thread.
LEMMA ThreadSolo ==
  ASSUME Inv, Shape', Calm, NEW t \in Threads, Solo(t), Thread(t), UNCHANGED env
  PROVE  Solo(t)'
BY PostSolo, RestoreSolo, BootCheckSolo, NestedPostSolo, NestedWakeSolo, NestedResetSolo, MailboxSendSolo,
   FrameSendSolo, NoMemorySolo, ScheduleSolo, AwakenedSolo, ConsumeSolo, AnsweredSolo, Sc7AnsweredSolo,
   FlowSolo DEF Thread, Callback

-----------------------------------------------------------------------------
(* Work, clients and system suspend.                                       *)

\* When the one thread does not run, nobody does and nothing is under way.
LEMMA Idle ==
  ASSUME Inv, NEW t \in Threads, Solo(t), ~Running(t)
  PROVE  /\ \A u \in Threads : ~Running(u) /\ pc[u] \in {"post", "failed"}
         /\ Silent /\ Empty /\ Settled /\ Faultless
<1>1. \A u \in Threads : ~Running(u) /\ pc[u] \in {"post", "failed"}
  BY DEF Inv, Solo, Alone, Shape, PlacedAt, Running
<1>2. ~Calling(t)
  BY DEF Calling
<1>3. Silent /\ Empty /\ Settled /\ Faultless
  BY <1>1, <1>2, Resting DEF Inv, Solo, Held, Owned
<1> QED BY <1>1, <1>3

\* A thread that starts when nobody runs.
LEMMA Started ==
  ASSUME Inv, Shape', NEW t \in Threads, Solo(t), ~Running(t), NEW u \in Threads, NEW q, Start(u, q), Silent',
         UNCHANGED <<env, c_state, boot_status, isr, atx, arx>>, rmb' = rmb \/ rmb' = NoMsg
  PROVE  /\ Held(u)' /\ (Stranded => Stranded')
         /\ \A v \in Threads \ {u} : ~Running(v)'
<1>1. /\ \A v \in Threads : ~Running(v) /\ pc[v] \in {"post", "failed"}
      /\ Empty /\ Settled /\ Faultless /\ Typed
  BY Idle DEF Inv, Shape
<1>2. pc'[u] = "post" /\ \A v \in Threads \ {u} : pc'[v] = pc[v] /\ todo'[v] = todo[v]
  BY <1>1 DEF Start, Typed
<1>3. Stranded => Stranded'
  BY <1>1, <1>2 DEF Stranded
<1>4. Empty' /\ Settled' /\ Faultless'
  BY <1>1, <1>3, MsgFacts DEF Empty, Settled, Faultless
<1>5. Held(u)'
  BY <1>2, <1>4, Ended
<1> QED BY <1>1, <1>2, <1>3, <1>5 DEF Running

\* The resume work starts when the worker has been idle; so has everyone.
LEMMA StartResumeSolo ==
  ASSUME Inv, Shape', NEW t \in Threads, Solo(t), StartResume, UNCHANGED env
  PROVE  Solo("resume")'
<1>1. /\ "resume" \in Threads /\ Start("resume", BootFlow) /\ resume_work /\ ~resume_work' /\ "resume" # "pm"
      /\ UNCHANGED <<env, c_state, boot_status, pm, isr, atx, arx, rmb>>
      /\ UNCHANGED <<chan, mbox, isr, complete>> /\ "pm" \in Threads /\ "resume" \notin Clients
  BY DceAssumption DEF StartResume, Threads, Workers, caller, chan, mbox
<1>2. ~Running(t) /\ pm \notin {"entering", "entered"} /\ "BOOT_DONE" \notin boot_status
  BY <1>1 DEF Solo, Alone
<1>3. Silent'
  BY <1>1, <1>2, Idle, StillSilent
<1>4. Held("resume")' /\ \A v \in Threads \ {"resume"} : ~Running(v)'
  BY <1>1, <1>2, <1>3, Started
<1>5. Alone("resume")'
  BY <1>1, <1>2, <1>4 DEF Alone, Asleep
<1> QED BY <1>4, <1>5 DEF Solo

\* A calm client calls when nobody else does.
LEMMA CallAdminSolo ==
  ASSUME Inv, Shape', Calm, NEW t \in Threads, Solo(t), NEW c \in Clients, ClientCalls(c), UNCHANGED env
  PROVE  Solo(c)'
<1>1. /\ c \in Threads /\ Start(c, Calls("admin", NRpc)) /\ c # "pm" /\ c \notin Workers
      /\ UNCHANGED <<env, c_state, boot_status, pm, isr, atx, arx, rmb, resume_work>>
      /\ UNCHANGED <<chan, mbox, isr, complete>> /\ "pm" \in Threads /\ pm = "awake"
      /\ Quiet /\ ~resume_work
  BY DceAssumption DEF ClientCalls, CallAdmin, Threads, Workers, driver, chan, mbox, Calm
<1>2. ~Running(t)
  BY <1>1 DEF Quiet
<1>3. Silent'
  BY <1>1, <1>2, Idle, StillSilent
<1>4. Held(c)' /\ \A v \in Threads \ {c} : ~Running(v)'
  BY <1>1, <1>2, <1>3, Started
<1>5. Alone(c)'
  BY <1>1, <1>2, <1>4 DEF Alone, Asleep
<1> QED BY <1>4, <1>5 DEF Solo

\* A suspend begins when the clients are frozen; the engine is booted, so no worker
\* runs either.
LEMMA EnterSc7Solo ==
  ASSUME Inv, Shape', Calm, NEW t \in Threads, Solo(t), EnterSc7, UNCHANGED env
  PROVE  Solo("pm")'
<1>1. /\ "pm" \in Threads /\ "pm" \notin Clients /\ "pm" \notin Workers
      /\ UNCHANGED <<env, c_state, boot_status, isr, atx, arx, rmb, resume_work>>
      /\ UNCHANGED <<chan, mbox, isr, complete>> /\ pm = "awake" /\ pm' = "entering"
      /\ "BOOT_DONE" \in boot_status /\ \A c \in Clients : ~Running(c)
      /\ Start("pm", <<"admin", "sc7">>)
  BY DceAssumption DEF EnterSc7, Threads, Workers, driver, chan, mbox, Calm
<1>2. ~Running("pm")
  <2>1. ListedIn({}, todo["pm"])
    BY <1>1 DEF Inv, Shape, Menu
  <2> QED BY <2>1, NoCalls DEF Running
<1>3. ~Running(t) /\ ~resume_work
  BY <1>1, <1>2 DEF Solo, Alone, Threads
<1>4. Silent'
  BY <1>1, <1>3, Idle, StillSilent
<1>5. Held("pm")' /\ \A v \in Threads \ {"pm"} : ~Running(v)'
  BY <1>1, <1>3, <1>4, Started
<1>6. todo'["pm"] = <<"admin", "sc7">> /\ Running("pm")'
  BY <1>1 DEF Start, Inv, Shape, Typed, Running
<1>7. Alone("pm")'
  BY <1>1, <1>3, <1>5, <1>6 DEF Alone, Asleep
<1> QED BY <1>5, <1>7 DEF Solo

\* The system sleeps when nobody runs and nothing is under way, so that the power
\* loss takes nothing with it.
LEMMA SleepSolo ==
  ASSUME Inv, Shape', NEW t \in Threads, Solo(t), SleepAndWake, UNCHANGED env
  PROVE  Solo("pm")'
<1>1. /\ "pm" \in Threads /\ "pm" \notin Clients /\ "pm" \notin Workers
      /\ UNCHANGED <<env, c_state, boot_status, isr, atx, arx, resume_work, complete>>
      /\ rmb' = NoMsg /\ smb' = NoMsg /\ ~boot_req' /\ ~admirq'
      /\ pm = "entered" /\ pm' = "exiting" /\ Start("pm", <<"exit">>)
  BY DceAssumption DEF SleepAndWake, Threads, Workers, driver
<1>2. ~Running("pm")
  <2>1. ListedIn({}, todo["pm"])
    BY <1>1 DEF Inv, Shape, Menu
  <2> QED BY <2>1, NoCalls DEF Running
<1>3. ~Running(t) /\ ~resume_work
  BY <1>1, <1>2 DEF Solo, Alone
<1>4. Silent'
  BY <1>1, <1>3, Idle DEF Silent, Flying, Asked, Answered, Posting, Waking
<1>5. Held("pm")' /\ (Stranded => Stranded') /\ \A v \in Threads \ {"pm"} : ~Running(v)'
  BY <1>1, <1>3, <1>4, Started
<1>6. "BOOT_DONE" \notin boot_status \/ Stranded
  BY <1>1 DEF Solo, Alone, Asleep
<1>7. Alone("pm")'
  BY <1>1, <1>3, <1>5, <1>6 DEF Alone
<1> QED BY <1>5, <1>7 DEF Solo

\* The suspend path returns.
LEMMA ReturnSolo ==
  ASSUME Inv, NEW t \in Threads, Solo(t), Sc7Entered \/ Resumed, UNCHANGED env
  PROVE  Solo(t)'
<1>1. /\ UNCHANGED <<env, c_state, prev, todo, pc, boot_status, resume_work, complete, isr>>
      /\ UNCHANGED <<smb, rmb, boot_req, atx, arx, admirq>>
  BY DEF Sc7Entered, Resumed, driver, chan, mbox
<1>2. Held(t)'
  BY <1>1 DEF Solo, Held, Replying, Once, Wanted, Flying, Asked, Answered, Posting, Waking, Expects, Calling,
     Running, WaitOf, Owned, Waits, Faultless, Stranded, Framed, Own, Tag
<1>3. Stranded' <=> Stranded
  BY <1>1 DEF Stranded
<1>4. \A u \in Threads : Running(u)' <=> Running(u)
  BY <1>1 DEF Running
<1>5. "pm" \in Threads
  BY DEF Threads
<1>6. CASE Sc7Entered
  <2>1. /\ pm = "entering" /\ ~Running("pm")
        /\ pm' = IF pc["pm"] = "failed" THEN "awake" ELSE "entered"
    BY <1>6 DEF Sc7Entered
  <2>2. ~Running(t) /\ ~resume_work
    BY <2>1 DEF Solo, Alone
  <2>3. pm' = "entered" => "BOOT_DONE" \notin boot_status \/ Stranded
    BY <2>1 DEF Solo, Alone, Asleep
  <2>4. Alone(t)'
    BY <1>1, <1>3, <1>4, <1>5, <2>1, <2>2, <2>3 DEF Solo, Alone, Asleep
  <2> QED BY <1>2, <2>4 DEF Solo
<1>7. CASE Resumed
  <2>1. pm' = "awake"
    BY <1>7 DEF Resumed
  <2>2. Alone(t)'
    BY <1>1, <1>4, <2>1 DEF Solo, Alone, Asleep
  <2> QED BY <1>2, <2>2 DEF Solo
<1> QED BY <1>6, <1>7

-----------------------------------------------------------------------------
(* The interrupt thread and the firmware: the threads stay where they are. *)

Still == UNCHANGED <<env, prev, todo, pc, pm, boot_status, resume_work>>

\* What is said of the threads is the same.
LEMMA StillFacts ==
  ASSUME Still, NEW t \in Threads, Solo(t), Stranded => Stranded'
  PROVE  /\ Alone(t)' /\ (Calling(t)' <=> Calling(t)) /\ WaitOf(t)' = WaitOf(t) /\ Own(t)' = Own(t)
         /\ Head(todo[t])' = Head(todo[t]) /\ \A e : Expects(t, e)' <=> Expects(t, e)
<1>1. \A u : Running(u)' <=> Running(u)
  BY DEF Still, Running
<1>2. Alone(t)'
  BY <1>1 DEF Still, Solo, Alone, Asleep
<1> QED BY <1>1, <1>2 DEF Still, Calling, WaitOf, Own, Tag, Expects

\* Where something flies to the thread, it waits.
LEMMA Flown ==
  ASSUME NEW t \in Threads, Solo(t), NEW e \in Replies, Flying(e)
  PROVE  /\ Expects(t, e) /\ pc[t] = "wait" /\ ~complete[e] /\ ~Stranded
         /\ \A f \in Replies : Flying(f) \/ complete[f] => f = e
<1>1. Expects(t, e) /\ pc[t] = "wait" /\ ~complete[e]
  BY DEF Solo, Held, Replying, Once, Wanted
<1>2. \A f \in Replies : Flying(f) \/ complete[f] => f = e
  BY <1>1 DEF Solo, Held, Replying, Wanted, Expects
<1>3. ~Stranded
  BY <1>1 DEF Stranded
<1> QED BY <1>1, <1>2, <1>3

\* A reply goes one step on its way, or is dropped: the flags and the rings stay, and
\* the state does, or stops waiting.
LEMMA Relayed ==
  ASSUME Still, NEW t \in Threads, Solo(t), UNCHANGED <<complete, atx, arx>>,
         c_state' = c_state \/ (c_state' \notin Waiting /\ (pc[t] # "callback" \/ "faults" \in env)),
         Stranded => Stranded', Stranded' => Stranded, Faultless',
         \A e \in Replies : Flying(e)' => Flying(e),
         \A e \in Replies : /\ Asked(e)' => ~Answered(e)' /\ ~Posting(e)' /\ ~Waking(e)'
                            /\ Answered(e)' => ~Posting(e)' /\ ~Waking(e)'
                            /\ Waking(e)' => c_state' \notin Waiting,
         admirq' \/ Posting("ADMIN_IPC_MSG_RECEIVED")' \/ Waking("ADMIN_IPC_MSG_RECEIVED")' => arx # <<>>
  PROVE  Solo(t)'
<1>1. /\ Alone(t)' /\ (Calling(t)' <=> Calling(t)) /\ WaitOf(t)' = WaitOf(t) /\ Own(t)' = Own(t)
      /\ Head(todo[t])' = Head(todo[t]) /\ \A e : Expects(t, e)' <=> Expects(t, e)
  BY StillFacts
<1>2. pc'[t] = pc[t] /\ prev'[t] = prev[t]
  BY DEF Still
<1>3. Replying(t)'
  BY <1>1, <1>2 DEF Solo, Held, Replying, Once, Wanted
<1>4. Waits(t)'
  BY <1>1, <1>2 DEF Solo, Held, Owned, Waits, Still
<1>5. \A e \in Replies : complete'[e] => c_state' \notin Waiting
  BY DEF Solo, Held, Owned
<1>6. (c_state \in Waiting /\ ~Stranded)' =>
        (Calling(t) /\ pc[t] # "post" /\ StateFor(EventOf(Head(todo[t]))) = c_state)'
  BY <1>1, <1>2 DEF Solo, Held, Owned
<1>7. Owned(t)'
  BY <1>4, <1>5, <1>6 DEF Owned
<1>8. Asked("ADMIN_IPC_MSG_RECEIVED")' <=> Asked("ADMIN_IPC_MSG_RECEIVED")
  BY DEF Asked
<1>9. Framed(t)'
  BY <1>1, <1>2, <1>8 DEF Solo, Held, Framed
<1> QED BY <1>1, <1>3, <1>7, <1>9 DEF Solo, Held

\* The interrupt thread takes what the boot mailbox holds, or a doorbell.
LEMMA IsrTakesSolo ==
  ASSUME Inv, NEW t \in Threads, Solo(t), IsrMailbox \/ IsrAdmin, UNCHANGED env
  PROVE  Solo(t)'
<1>1. /\ Still /\ UNCHANGED <<c_state, complete, atx, arx, smb, boot_req>> /\ isr.step = "off"
      /\ (Stranded' <=> Stranded) /\ UNCHANGED pc
  BY DEF IsrMailbox, IsrAdmin, Still, caller, driver, chan, mbox, Stranded
<1>2. \A e \in Replies : ~Posting(e) /\ ~Waking(e) /\ Once(e) /\ (Asked(e)' <=> Asked(e))
  BY <1>1 DEF Posting, Waking, Solo, Held, Replying, Asked
<1>3. CASE IsrMailbox
  <2> DEFINE e == EventFor(rmb.kind)
  <2>1. /\ rmb # NoMsg /\ rmb' = NoMsg /\ isr'.step = "post" /\ isr'.event = e /\ admirq' = admirq
    BY <1>3 DEF IsrMailbox, chan
  <2>2. rmb \in Messages({"ready", "sc7", "abort", "ack", "err"})
    BY <2>1 DEF Inv, Mail, Boxed
  <2>3. /\ e \in {"BOOT_COMPLETE_RECEIVED", "SC7_ENTERED_RECEIVED", "ABORT_RECEIVED", "BOOT_CMD_MSG_RECEIVED"}
        /\ (e = "ABORT_RECEIVED" => rmb.kind = "abort")
    BY <2>2, MsgFacts, ReplyNames
  <2> HIDE DEF e
  <2>4. Faultless'
    BY <1>1, <2>1, <2>3, MsgFacts DEF Faultless, Solo, Held, Owned, Still
  <2>5. \A f \in Replies : /\ Posting(f)' => Answered(f) /\ f = e
                           /\ ~Waking(f)' /\ (Answered(f)' => f = "ADMIN_IPC_MSG_RECEIVED" /\ Answered(f))
    BY <2>1 DEF Posting, Waking, Answered, e
  <2>6. \A f \in Replies : Flying(f)' => Flying(f)
    BY <1>2, <2>5 DEF Flying
  <2>7. \A f \in Replies : /\ Asked(f)' => ~Answered(f)' /\ ~Posting(f)' /\ ~Waking(f)'
                           /\ Answered(f)' => ~Posting(f)' /\ ~Waking(f)'
                           /\ Waking(f)' => c_state' \notin Waiting
    BY <1>2, <2>3, <2>5 DEF Once
  <2>8. admirq' \/ Posting("ADMIN_IPC_MSG_RECEIVED")' \/ Waking("ADMIN_IPC_MSG_RECEIVED")' => arx # <<>>
    BY <2>1, <2>3 DEF Posting, Waking, Solo, Held, Framed
  <2> QED BY <1>1, <2>4, <2>6, <2>7, <2>8, Relayed
<1>4. CASE IsrAdmin
  <2> DEFINE e == "ADMIN_IPC_MSG_RECEIVED"
  <2>1. /\ admirq /\ ~admirq' /\ UNCHANGED rmb
        /\ (isr' = isr \/ (isr' = [step |-> "post", event |-> e] /\ arx # <<>>))
    BY <1>4 DEF IsrAdmin, mbox
  <2>2. Faultless'
    BY <1>1, <2>1 DEF Faultless, Solo, Held, Owned, Still
  <2>3. \A f \in Replies : /\ Posting(f)' => Answered(f) /\ f = e /\ arx # <<>>
                           /\ ~Waking(f)' /\ (Answered(f)' => f # e /\ Answered(f))
    <3>1. rmb # NoMsg => EventFor(rmb.kind) # e
      BY ReplyNames, MsgFacts DEF Inv, Mail, Boxed
    <3> QED BY <1>1, <2>1, <3>1 DEF Posting, Waking, Answered
  <2>4. \A f \in Replies : Flying(f)' => Flying(f)
    BY <1>2, <2>3 DEF Flying
  <2>5. \A f \in Replies : /\ Asked(f)' => ~Answered(f)' /\ ~Posting(f)' /\ ~Waking(f)'
                           /\ Answered(f)' => ~Posting(f)' /\ ~Waking(f)'
                           /\ Waking(f)' => c_state' \notin Waiting
    BY <1>2, <2>3 DEF Once
  <2>6. admirq' \/ Posting(e)' \/ Waking(e)' => arx # <<>>
    BY <2>1, <2>3 DEF Replies
  <2> QED BY <1>1, <2>2, <2>4, <2>5, <2>6, Relayed
<1> QED BY <1>3, <1>4

\* It posts a reply, which the machine takes as the end of its waiting, or an abort,
\* which ends it too.
LEMMA IsrPostSolo ==
  ASSUME Inv, Calm, NEW t \in Threads, Solo(t), IsrPost, UNCHANGED env
  PROVE  Solo(t)'
<1> DEFINE e == isr.event
<1>1. /\ Still /\ UNCHANGED <<complete, atx, arx, smb, rmb, boot_req, admirq>> /\ isr.step = "post"
      /\ e \in Replies \cup {"ABORT_RECEIVED"} /\ (e = "ABORT_RECEIVED" => "faults" \in env)
      /\ UNCHANGED <<pc, boot_status>>
  BY DEF IsrPost, Still, caller, driver, chan, mbox, Inv, Interrupt, Solo, Held, Owned, Faultless
<1>2. /\ \/ c_state' = c_state
         \/ c_state' \notin Waiting /\ c_state' = StateFor(e)
      /\ isr' \in {[step |-> "off", event |-> "none"], [isr EXCEPT !.step = "wake"]}
      /\ isr' = [isr EXCEPT !.step = "wake"] => e \in Replies /\ c_state' \notin Waiting
  BY <1>1, ReplyNames DEF IsrPost
<1>3. /\ isr'.step \in {"off", "wake"} /\ (isr'.step = "wake" => isr'.event = e /\ e \in Replies)
      /\ isr'.event # "ABORT_RECEIVED"
  <2>1. "ABORT_RECEIVED" \notin Replies
    BY DEF Replies
  <2> QED BY <1>1, <1>2, <2>1 DEF Inv, Interrupt
<1>4. isr'.step = "wake" => c_state' \notin Waiting
  BY <1>2
<1>5. \A f \in Replies : (Asked(f)' <=> Asked(f)) /\ (Answered(f)' <=> Answered(f)) /\ ~Posting(f)'
                         /\ (Waking(f)' => Posting(f) /\ f = e)
  BY <1>1, <1>3 DEF Asked, Answered, Posting, Waking
<1>6. \A f \in Replies : Flying(f)' => Flying(f)
  BY <1>5 DEF Flying
<1>7. \A f \in Replies : /\ Asked(f)' => ~Answered(f)' /\ ~Posting(f)' /\ ~Waking(f)'
                         /\ Answered(f)' => ~Posting(f)' /\ ~Waking(f)'
                         /\ Waking(f)' => c_state' \notin Waiting
  <2> TAKE f \in Replies
  <2>1. Once(f)
    BY DEF Solo, Held, Replying
  <2>2. Waking(f)' => c_state' \notin Waiting
    BY <1>4 DEF Waking
  <2> QED BY <1>5, <2>1, <2>2 DEF Once
<1>8. e \in Replies => pc[t] = "wait"
  <2>1. ASSUME e \in Replies PROVE Flying(e)
    BY <1>1 DEF Flying, Posting
  <2> QED BY <2>1, Flown
<1>9. ~Stranded
  BY <1>1, <1>8 DEF Stranded, Calm
<1>10. ~Stranded'
  <2>1. CASE e \in Replies
    BY <1>1, <1>8, <2>1 DEF Stranded
  <2>2. CASE e = "ABORT_RECEIVED"
    BY <1>1, <2>2 DEF Stranded, Calm, Still
  <2> QED BY <1>1, <2>1, <2>2
<1>11. admirq' \/ Posting("ADMIN_IPC_MSG_RECEIVED")' \/ Waking("ADMIN_IPC_MSG_RECEIVED")' => arx # <<>>
  BY <1>1, <1>5 DEF Solo, Held, Framed, Replies
<1>12. Faultless'
  BY <1>1, <1>3 DEF Faultless, Solo, Held, Owned, Still
<1>13. c_state' = c_state \/ (c_state' \notin Waiting /\ (pc[t] # "callback" \/ "faults" \in env))
  BY <1>1, <1>2, <1>8
<1> QED BY <1>1, <1>6, <1>7, <1>9, <1>10, <1>11, <1>12, <1>13, Relayed

\* And it wakes the thread that waits for it.
LEMMA IsrWakeSolo ==
  ASSUME Inv, NEW t \in Threads, Solo(t), IsrWake, UNCHANGED env
  PROVE  Solo(t)'
<1> DEFINE e == isr.event
<1>1. /\ Still /\ UNCHANGED <<atx, arx, smb, rmb, boot_req, admirq, c_state>> /\ isr.step = "wake"
      /\ e \in Replies /\ isr' = [step |-> "off", event |-> "none"]
      /\ complete' = [complete EXCEPT ![e] = TRUE] /\ (Stranded' <=> Stranded)
  BY DEF IsrWake, Still, caller, driver, chan, mbox, Inv, Interrupt, Stranded
<1>2. Waking(e) /\ Flying(e)
  BY <1>1 DEF Waking, Flying
<1>3. /\ Expects(t, e) /\ pc[t] = "wait" /\ ~complete[e] /\ ~Stranded
      /\ \A f \in Replies : Flying(f) \/ complete[f] => f = e
  BY <1>1, <1>2, Flown
<1>4. ~Asked(e) /\ ~Answered(e) /\ ~Posting(e) /\ c_state \notin Waiting
  <2>1. Once(e) /\ c_state \notin Waiting
    BY <1>1, <1>2 DEF Solo, Held, Replying, Owned
  <2>2. ~Posting(e)
    BY <1>1 DEF Posting
  <2> QED BY <1>2, <2>1, <2>2 DEF Once
<1>5. \A f \in Replies : ~Flying(f)' /\ (complete'[f] <=> f = e)
  BY <1>1, <1>3, <1>4 DEF Flying, Asked, Answered, Posting, Waking, Inv, Control
<1>6. /\ Alone(t)' /\ (Calling(t)' <=> Calling(t)) /\ WaitOf(t)' = WaitOf(t) /\ Own(t)' = Own(t)
      /\ Head(todo[t])' = Head(todo[t]) /\ \A f : Expects(t, f)' <=> Expects(t, f)
  BY <1>1, StillFacts
<1>7. pc'[t] = "wait" /\ prev'[t] = prev[t]
  BY <1>1, <1>3 DEF Still
<1>8. Replying(t)'
  <2> SUFFICES ASSUME NEW f \in Replies PROVE (Once(f) /\ Wanted(t, f))'
    BY DEF Replying
  <2>1. ~Flying(f)' /\ (complete'[f] => Expects(t, f)')
    BY <1>3, <1>5, <1>6
  <2> QED BY <1>7, <2>1 DEF Once, Wanted, Flying
<1>9. Faultless' /\ Waits(t)'
  BY <1>1, <1>6, <1>7 DEF Faultless, Solo, Held, Owned, Waits, Still
<1>10. Owned(t)'
  BY <1>1, <1>4, <1>9 DEF Owned
<1>11. /\ ~Flying("ADMIN_IPC_MSG_RECEIVED")'
       /\ complete'["ADMIN_IPC_MSG_RECEIVED"] => e = "ADMIN_IPC_MSG_RECEIVED"
  BY <1>5 DEF Replies
<1>12. complete'["ADMIN_IPC_MSG_RECEIVED"] => arx # <<>>
  BY <1>2, <1>11 DEF Solo, Held, Framed
<1>13. Framed(t)'
  BY <1>1, <1>6, <1>7, <1>11, <1>12 DEF Solo, Held, Framed, Flying, Answered
<1> QED BY <1>6, <1>8, <1>10, <1>13 DEF Solo, Held

\* The firmware comes up, boots, takes a command, or gives up.
LEMMA FwMailSolo ==
  ASSUME Inv, NEW t \in Threads, Solo(t), FwBoot \/ FwReady \/ FwCommand("ack") \/ FwRefuse \/ FwAbort,
         UNCHANGED env
  PROVE  Solo(t)'
<1>1. /\ Still /\ UNCHANGED <<c_state, complete, atx, arx, admirq, isr>> /\ (Stranded' <=> Stranded)
  BY DEF FwBoot, FwReady, FwCommand, FwRefuse, FwAbort, Still, caller, driver, chan, Stranded
<1> DEFINE Kept == /\ smb' = smb \/ smb' = NoMsg
                   /\ boot_req' = boot_req \/ ~boot_req'
           Answer(e) == Asked(e) /\ ~Asked(e)' /\ EventFor(rmb'.kind) = e /\ e # "ADMIN_IPC_MSG_RECEIVED"
<1>2. Kept
  BY DEF FwBoot, FwReady, FwCommand, FwRefuse, FwAbort, mbox
<1>3. \/ UNCHANGED rmb
      \/ rmb = NoMsg /\ \E e \in Replies : Answer(e) /\ rmb'.kind # "abort"
      \/ rmb = NoMsg /\ EventFor(rmb'.kind) = "ABORT_RECEIVED" /\ "faults" \in env
  <2>1. CASE FwBoot
    BY <2>1 DEF FwBoot, mbox
  <2>2. CASE FwReady
    <3>1. rmb = NoMsg /\ rmb'.kind = "ready" /\ boot_req /\ ~boot_req'
      BY <2>2, MsgFacts DEF FwReady, IrqMsg
    <3>2. Answer("BOOT_COMPLETE_RECEIVED") /\ "BOOT_COMPLETE_RECEIVED" \in Replies
      BY <3>1, ReplyNames DEF Asked, Replies
    <3> QED BY <3>1, <3>2
  <2>3. CASE FwCommand("ack") \/ FwRefuse
    <3>1. rmb = NoMsg /\ rmb'.kind \in {"ack", "err"} /\ smb # NoMsg /\ smb' = NoMsg
      BY <2>3, MsgFacts DEF FwCommand, FwRefuse
    <3>2. Answer("BOOT_CMD_MSG_RECEIVED") /\ "BOOT_CMD_MSG_RECEIVED" \in Replies
      BY <3>1, ReplyNames DEF Asked, Replies
    <3> QED BY <3>1, <3>2
  <2>4. CASE FwAbort
    BY <2>4, MsgFacts, ReplyNames DEF FwAbort, IrqMsg
  <2> QED BY <2>1, <2>2, <2>3, <2>4
<1>4. \A f \in Replies : (Asked(f)' => Asked(f)) /\ (Posting(f)' <=> Posting(f)) /\ (Waking(f)' <=> Waking(f))
  BY <1>1, <1>2 DEF Asked, Posting, Waking
<1>5. \A f \in Replies : Answered(f)' => Answered(f) \/ Answer(f)
  <2>1. "ABORT_RECEIVED" \notin Replies
    BY DEF Replies
  <2> QED BY <1>1, <1>3, <2>1 DEF Answered
<1>6. \A f \in Replies : Flying(f)' => Flying(f)
  BY <1>4, <1>5 DEF Flying
<1>7. \A f \in Replies : /\ Asked(f)' => ~Answered(f)' /\ ~Posting(f)' /\ ~Waking(f)'
                         /\ Answered(f)' => ~Posting(f)' /\ ~Waking(f)'
                         /\ Waking(f)' => c_state' \notin Waiting
  <2> TAKE f \in Replies
  <2>1. Once(f) /\ (Waking(f) => c_state \notin Waiting)
    BY DEF Solo, Held, Replying, Owned
  <2> QED BY <1>1, <1>4, <1>5, <2>1 DEF Once
<1>8. Faultless'
  <2>1. \/ EventFor(rmb'.kind) = "ABORT_RECEIVED" /\ "faults" \in env
        \/ rmb'.kind # "abort" \/ UNCHANGED rmb
    BY <1>3
  <2> QED BY <1>1, <2>1 DEF Faultless, Solo, Held, Owned, Still
<1>9. admirq' \/ Posting("ADMIN_IPC_MSG_RECEIVED")' \/ Waking("ADMIN_IPC_MSG_RECEIVED")' => arx # <<>>
  BY <1>1 DEF Solo, Held, Framed, Posting, Waking
<1> QED BY <1>1, <1>6, <1>7, <1>8, <1>9, Relayed

\* The frame in the ring is the only one, and a request under way.
LEMMA OneFrame ==
  ASSUME Inv, NEW t \in Threads, Solo(t), atx # <<>>
  PROVE  /\ Len(atx) = 1 /\ Tail(atx) = <<>> /\ Head(atx) = atx[1]
         /\ Head(atx).kind = "admin" => atx = Own(t) /\ arx = <<>> /\ Asked("ADMIN_IPC_MSG_RECEIVED")
         /\ Head(atx).kind = "sc7" => Asked("SC7_ENTERED_RECEIVED")
<1>1. /\ atx \in Seq(Messages({"admin", "sc7"})) /\ Len(atx) <= 1
  BY DEF Inv, Mail, Solo, Held, Framed
<1>2. /\ Head(atx) = atx[1] /\ Len(Tail(atx)) = Len(atx) - 1 /\ Len(atx) \in Nat \ {0}
      /\ Tail(atx) \in Seq(Messages({"admin", "sc7"}))
  BY <1>1, TailFacts
<1>3. Len(atx) = 1 /\ Tail(atx) = <<>>
  BY <1>1, <1>2, EmptySeq
<1>4. Head(atx).kind = "admin" => Asked("ADMIN_IPC_MSG_RECEIVED")
  BY <1>2 DEF Asked
<1>5. Head(atx).kind = "sc7" => Asked("SC7_ENTERED_RECEIVED")
  BY <1>2 DEF Asked
<1> QED BY <1>2, <1>3, <1>4, <1>5 DEF Solo, Held, Framed

\* The firmware answers the RPC in progress.
LEMMA FwAdminSolo ==
  ASSUME Inv, NEW t \in Threads, Solo(t), FwAdmin, UNCHANGED env
  PROVE  Solo(t)'
<1> DEFINE e == "ADMIN_IPC_MSG_RECEIVED"
<1>1. /\ Still /\ UNCHANGED <<c_state, complete, rmb, smb, boot_req, isr>> /\ (Stranded' <=> Stranded)
      /\ atx # <<>> /\ Head(atx).kind = "admin" /\ atx' = Tail(atx) /\ arx' = Append(arx, Head(atx)) /\ admirq'
  BY DEF FwAdmin, Still, caller, driver, mbox, Stranded
<1>2. atx = Own(t) /\ arx = <<>> /\ Asked(e) /\ Tail(atx) = <<>> /\ e \in Replies
  BY <1>1, OneFrame DEF Replies
<1>3. Flying(e)
  BY <1>2 DEF Flying
<1>4. /\ Expects(t, e) /\ pc[t] = "wait" /\ ~complete[e] /\ ~Stranded
      /\ \A f \in Replies : Flying(f) \/ complete[f] => f = e
  BY <1>2, <1>3, Flown
<1>5. /\ Alone(t)' /\ (Calling(t)' <=> Calling(t)) /\ WaitOf(t)' = WaitOf(t) /\ Own(t)' = Own(t)
      /\ Head(todo[t])' = Head(todo[t]) /\ \A f : Expects(t, f)' <=> Expects(t, f)
  BY <1>1, StillFacts
<1>6. atx' = <<>> /\ arx' = Own(t)' /\ arx' # <<>>
  BY <1>1, <1>2, <1>5 DEF Own
<1>7. \A f \in Replies : /\ ~Asked(f)' /\ (Answered(f)' => Answered(f) \/ f = e)
                         /\ (Posting(f)' <=> Posting(f)) /\ (Waking(f)' <=> Waking(f))
  <2>1. \A f \in Replies : Asked(f) => f = e
    BY <1>4 DEF Flying
  <2> QED BY <1>1, <1>6, <2>1 DEF Asked, Answered, Posting, Waking, Replies
<1>8. ~Posting(e) /\ ~Waking(e)
  BY <1>2 DEF Solo, Held, Replying, Once
<1>9. Replying(t)'
  <2> SUFFICES ASSUME NEW f \in Replies PROVE (Once(f) /\ Wanted(t, f))'
    BY DEF Replying
  <2>1. Once(f) /\ Wanted(t, f) /\ (f # e => ~Flying(f) /\ ~complete[f])
    BY <1>4 DEF Solo, Held, Replying
  <2>2. f # e => ~Flying(f)' /\ ~complete'[f]
    BY <1>1, <1>7, <2>1 DEF Flying
  <2>3. ~Asked(e)' /\ ~Posting(e)' /\ ~Waking(e)' /\ ~complete'[e] /\ Expects(t, e)' /\ pc'[t] = "wait"
    BY <1>1, <1>2, <1>4, <1>5, <1>7, <1>8 DEF Still
  <2> QED BY <2>2, <2>3 DEF Once, Wanted, Flying
<1>10. Owned(t)'
  BY <1>1, <1>4, <1>5, <1>7 DEF Solo, Held, Owned, Waits, Faultless, Still
<1>11. Framed(t)'
  <2>1. ~Asked(e)' /\ Expects(t, e)' /\ pc'[t] = "wait" /\ Len(atx') <= 1
    BY <1>1, <1>2, <1>4, <1>5, <1>6, <1>7, EmptySeq DEF Still
  <2> QED BY <1>6, <2>1 DEF Framed
<1> QED BY <1>5, <1>9, <1>10, <1>11 DEF Solo, Held

\* The firmware gets ready for SC7, and says so in the mailbox.
LEMMA FwSc7Solo ==
  ASSUME Inv, NEW t \in Threads, Solo(t), FwSc7, UNCHANGED env
  PROVE  Solo(t)'
<1> DEFINE e == "SC7_ENTERED_RECEIVED"
<1>1. /\ Still /\ UNCHANGED <<c_state, complete, arx, admirq, smb, boot_req, isr>> /\ (Stranded' <=> Stranded)
      /\ atx # <<>> /\ Head(atx).kind = "sc7" /\ atx' = Tail(atx) /\ rmb = NoMsg /\ rmb'.kind = "sc7"
  BY MsgFacts DEF FwSc7, IrqMsg, Still, caller, driver, Stranded
<1>2. Asked(e) /\ Tail(atx) = <<>> /\ e \in Replies
  BY <1>1, OneFrame DEF Replies
<1>3. Flying(e)
  BY <1>2 DEF Flying
<1>4. /\ Expects(t, e) /\ pc[t] = "wait" /\ ~complete[e] /\ ~Stranded
      /\ \A f \in Replies : Flying(f) \/ complete[f] => f = e
  BY <1>2, <1>3, Flown
<1>5. /\ Alone(t)' /\ (Calling(t)' <=> Calling(t)) /\ WaitOf(t)' = WaitOf(t) /\ Own(t)' = Own(t)
      /\ Head(todo[t])' = Head(todo[t]) /\ \A f : Expects(t, f)' <=> Expects(t, f)
  BY <1>1, StillFacts
<1>6. \A f \in Replies : /\ ~Asked(f)' /\ (Answered(f)' => Answered(f) \/ f = e)
                         /\ (Posting(f)' <=> Posting(f)) /\ (Waking(f)' <=> Waking(f))
  <2>1. \A f \in Replies : Asked(f) => f = e
    BY <1>4 DEF Flying
  <2> QED BY <1>1, <1>2, <2>1, ReplyNames DEF Asked, Answered, Posting, Waking, Replies
<1>7. ~Posting(e) /\ ~Waking(e)
  BY <1>2 DEF Solo, Held, Replying, Once
<1>8. Replying(t)'
  <2> SUFFICES ASSUME NEW f \in Replies PROVE (Once(f) /\ Wanted(t, f))'
    BY DEF Replying
  <2>1. f # e => ~Flying(f) /\ ~complete[f]
    BY <1>4
  <2>2. f # e => ~Flying(f)' /\ ~complete'[f]
    BY <1>1, <1>6, <2>1 DEF Flying
  <2>3. ~Asked(e)' /\ ~Posting(e)' /\ ~Waking(e)' /\ ~complete'[e] /\ Expects(t, e)' /\ pc'[t] = "wait"
    BY <1>1, <1>2, <1>4, <1>5, <1>6, <1>7 DEF Still
  <2> QED BY <2>2, <2>3 DEF Once, Wanted, Flying
<1>9. Owned(t)'
  BY <1>1, <1>4, <1>5, <1>6 DEF Solo, Held, Owned, Waits, Faultless, Still
<1>10. Framed(t)'
  <2>1. ~Asked("ADMIN_IPC_MSG_RECEIVED")' /\ Len(atx') <= 1 /\ pc'[t] = pc[t]
    BY <1>1, <1>2, <1>6, EmptySeq DEF Still, Replies
  <2>2. /\ Posting("ADMIN_IPC_MSG_RECEIVED")' <=> Posting("ADMIN_IPC_MSG_RECEIVED")
        /\ Waking("ADMIN_IPC_MSG_RECEIVED")' <=> Waking("ADMIN_IPC_MSG_RECEIVED")
    BY <1>6 DEF Replies
  <2> QED BY <1>1, <1>5, <2>1, <2>2 DEF Solo, Held, Framed
<1> QED BY <1>5, <1>8, <1>9, <1>10 DEF Solo, Held

-----------------------------------------------------------------------------
(* The theorems.                                                           *)

\* One thread is alone with the machine at first, and after every calm step.
LEMMA CalmInit == Init => CalmInv
<1> SUFFICES ASSUME Init PROVE Solo("boot")
  BY DEF CalmInv, Threads, Workers
<1>1. Inv /\ "boot" \in Threads
  BY InitInv DEF Threads, Workers
<1>2. \A u \in Threads \ {"boot"} : ~Running(u)
  BY DEF Init, Running
<1>3. Alone("boot")
  BY <1>2 DEF Init, Alone, Asleep
<1>4. \A e \in Replies : ~Flying(e) /\ ~complete[e]
  BY DEF Init, Flying, Asked, Answered, Posting, Waking
<1>5. Replying("boot")
  BY <1>4 DEF Replying, Once, Wanted, Flying
<1>6. Owned("boot")
  BY <1>1, <1>4, MsgFacts DEF Init, Owned, Waits, Faultless, Waiting, Flying
<1>7. Framed("boot")
  <2>1. ~Flying("ADMIN_IPC_MSG_RECEIVED") /\ ~complete["ADMIN_IPC_MSG_RECEIVED"]
    BY <1>4 DEF Replies
  <2>2. atx = <<>> /\ arx = <<>> /\ ~admirq /\ pc["boot"] = "post"
    BY <1>1 DEF Init
  <2> QED BY <2>1, <2>2, EmptySeq DEF Framed, Flying
<1> QED BY <1>3, <1>5, <1>6, <1>7 DEF Solo, Held

\* Every calm step leaves one thread alone with the machine, perhaps another one.
LEMMA CalmStep == ASSUME Inv, Inv', CalmInv, Step, UNCHANGED env PROVE CalmInv'
<1> SUFFICES ASSUME Calm PROVE \E t \in Threads : Solo(t)'
  BY DEF CalmInv, Calm
<1>1. PICK t \in Threads : Solo(t)
  BY DEF CalmInv
<1>2. Shape /\ Shape' /\ Alone(t) /\ "pm" \in Threads /\ "resume" \in Threads /\ Clients \subseteq Threads
  BY <1>1 DEF Inv, Solo, Threads, Workers
<1>3. CASE \E u \in Threads : Thread(u)
  <2>1. Thread(t)
    BY <1>2, <1>3, TheOne
  <2> QED BY <1>1, <1>2, <2>1, ThreadSolo
<1>4. CASE StartResume
  BY <1>1, <1>2, <1>4, StartResumeSolo
<1>5. CASE \E c \in Clients : ClientCalls(c)
  BY <1>1, <1>2, <1>5, CallAdminSolo
<1>6. CASE EnterSc7
  BY <1>1, <1>2, <1>6, EnterSc7Solo
<1>7. CASE SleepAndWake
  BY <1>1, <1>2, <1>7, SleepSolo
<1>8. CASE Sc7Entered \/ Resumed
  BY <1>1, <1>8, ReturnSolo
<1>9. CASE Isr
  BY <1>1, <1>9, IsrTakesSolo, IsrPostSolo, IsrWakeSolo DEF Isr
<1>10. CASE Firmware \/ FwRefuse \/ FwAbort
  BY <1>1, <1>10, FwMailSolo, FwAdminSolo, FwSc7Solo DEF Firmware
<1> QED BY <1>3, <1>4, <1>5, <1>6, <1>7, <1>8, <1>9, <1>10 DEF Step, Power

\* Callers that keep out of each other's way find, whatever the firmware and the
\* memory do, one call at a time under way.
THEOREM CalmInvariance == Spec => []CalmInv
<1>1. ASSUME Inv, Inv', CalmInv, [Next]_vars PROVE CalmInv'
  <2>1. CASE Next
    BY <1>1, <2>1, CalmStep DEF Next
  <2>2. CASE UNCHANGED vars
    <3>1. UNCHANGED <<env, c_state, prev, todo, pc, pm, boot_status, resume_work>>
      BY <2>2 DEF vars, system, caller, driver
    <3>2. UNCHANGED <<complete, isr, smb, rmb, boot_req, atx, arx, admirq>>
      BY <2>2 DEF vars, system, mbox, chan
    <3> QED BY <1>1, <3>1, <3>2 DEF CalmInv, Calm, Solo, Alone, Asleep, Held, Replying, Once,
          Wanted, Flying,
        Asked, Answered, Posting, Waking, Expects, Calling, Running, WaitOf, Owned, Waits, Faultless,
        Stranded, Framed, Own, Tag
  <2> QED BY <1>1, <2>1, <2>2
<1> QED BY <1>1, CalmInit, Invariance, PTL DEF Spec

\* An RPC whose wait has ended finds the answer to its own request, and no wait
\* begins with its wake-up flag left set: dce_ipc_send_message_sync() and
\* dce_wait_interruptible().
THEOREM OwnAnswer == Spec => []OwnResponse
<1>1. Inv /\ CalmInv => OwnResponse
  <2> SUFFICES ASSUME Inv, CalmInv, Calm, NEW t \in Threads
               PROVE  /\ In(t, "admin", "answered") => arx # <<>> /\ Head(arx) = Msg("admin", Tag(t))
                      /\ Running(t) /\ pc[t] = "callback" /\ Head(todo[t]) # "exit" => ~complete[WaitOf(t)]
    BY DEF OwnResponse
  <2>1. PICK u \in Threads : Solo(u)
    BY DEF CalmInv
  <2>2. Running(t) => t = u
    BY <2>1 DEF Solo, Alone
  <2>3. ASSUME In(t, "admin", "answered") PROVE arx # <<>> /\ Head(arx) = Msg("admin", Tag(t))
    <3>1. t = u /\ pc[t] = "answered" /\ Head(todo[t]) = "admin"
      BY <2>2, <2>3 DEF In
    <3>2. arx = Own(t) /\ arx # <<>>
      BY <2>1, <3>1, Replied
    <3> QED BY <3>2 DEF Own
  <2>4. ASSUME Running(t), pc[t] = "callback", Head(todo[t]) # "exit" PROVE ~complete[WaitOf(t)]
    <3>1. t = u /\ Calling(t)
      BY <2>2, <2>4 DEF Inv, Shape, PlacedAt, Calling
    <3>2. Silent
      BY <2>1, <2>4, <3>1, Resting DEF Inv, Solo
    <3> QED BY <3>1, <3>2, SendFacts DEF Silent
  <2> QED BY <2>3, <2>4
<1> QED BY <1>1, Invariance, CalmInvariance, PTL

\* A machine that waits for a reply waits for the reply of a call in progress,
\* though commands are refused and the firmware aborts: dce_fsm_post_event().
THEOREM NobodyForgotten == Spec => []NoOrphanState
<1>1. Inv /\ CalmInv => NoOrphanState
  <2> SUFFICES ASSUME Inv, CalmInv, env \subseteq {"faults"}, c_state \in Waiting
               PROVE  \E t \in Threads :
                        /\ Running(t) /\ pc[t] # "post"
                        /\ Head(todo[t]) \in {"boot", "cmd", "admin", "sc7"}
                        /\ StateFor(EventOf(Head(todo[t]))) = c_state
    BY DEF NoOrphanState
  <2>1. Calm /\ ~Stranded
    BY DEF Calm, Stranded
  <2>2. PICK t \in Threads : Solo(t)
    BY <2>1 DEF CalmInv
  <2>3. Calling(t) /\ pc[t] # "post" /\ StateFor(EventOf(Head(todo[t]))) = c_state
    BY <2>1, <2>2 DEF Solo, Held, Owned
  <2> QED BY <2>3 DEF Calling, Sends
<1> QED BY <1>1, Invariance, CalmInvariance, PTL
-----------------------------------------------------------------------------
(* What DCE_FW_BOOT_DONE and the status of a boot command say, whoever     *)
(* else calls: clients may overlap, be signalled and leave             *)
(* late answers behind.  Of the two workers and the suspend path one at a  *)
(* time makes calls, and it alone uses the boot mailbox.                   *)

System == Workers \cup {"pm"}
Guarded == "early_suspend" \notin env /\ ~({"faults", "nomem"} \subseteq env)

\* Without faults nobody has heard of an abort or a refusal.
FaultFree ==
  "faults" \notin env =>
    /\ c_state # "ABORT" /\ \A u \in Threads : prev[u] # "ABORT"
    /\ isr.event # "ABORT_RECEIVED" /\ rmb.kind \notin {"abort", "err"}

\* A suspend finds no worker running and the clients frozen.
Interlock(t) ==
  /\ \A u \in System \ {t} : ~Running(u)
  /\ resume_work => ~Running(t)
  /\ "BOOT_DONE" \in boot_status => ~resume_work /\ (Running(t) => t \notin Workers)
  /\ pm # "awake" => \A c \in Clients : ~Running(c)
  /\ pm \in {"entering", "entered"} => ~resume_work /\ (Running(t) => t = "pm")
  /\ pm = "entering" /\ Running("pm") =>
       "BOOT_DONE" \in boot_status /\ todo["pm"] \in {<<"admin", "sc7">>, <<"sc7">>}
  /\ Asleep => "BOOT_DONE" \notin boot_status \/ Stranded

\* The replies that come by the boot mailbox: each is at one place at a time, and
\* on its way to t, which waits for it.
Letters == {"BOOT_COMPLETE_RECEIVED", "BOOT_CMD_MSG_RECEIVED", "SC7_ENTERED_RECEIVED"}
Listed7 == {i \in 1..Len(atx) : atx[i].kind = "sc7"}
Requested(e) ==
  \/ e = "BOOT_COMPLETE_RECEIVED" /\ boot_req
  \/ e = "BOOT_CMD_MSG_RECEIVED" /\ smb # NoMsg
  \/ e = "SC7_ENTERED_RECEIVED" /\ Listed7 # {}
Mailed(e) == rmb # NoMsg /\ EventFor(rmb.kind) = e
Underway(e) == Requested(e) \/ Mailed(e) \/ Posting(e) \/ Waking(e)
Posted(t, e) ==
  /\ Requested(e) => ~Mailed(e) /\ ~Posting(e) /\ ~Waking(e)
  /\ Mailed(e) => ~Posting(e) /\ ~Waking(e)
  /\ Underway(e) => ~complete[e] /\ Expects(t, e) /\ pc[t] = "wait"
  /\ complete[e] => Expects(t, e) /\ pc[t] \in {"wait", "woken", "consume", "nestedreset"}
Correspondence(t) == (\A i, k \in Listed7 : i = k) /\ \A e \in Letters : Posted(t, e)
Hushed == \A e \in Letters : ~Underway(e) /\ ~complete[e]

\* The boot command in progress is the one that the mailbox and its status are about.
Acked == "BOOT_CMD_MSG_RECEIVED"
Status(t) == Running(t) /\ Head(todo[t]) = "cmd" /\ pc[t] \in {"woken", "consume", "answered"}
Stamped(t) ==
  "faults" \notin env =>
    /\ smb # NoMsg => smb.tag = Tag(t)
    /\ rmb.kind = "ack" => rmb.tag = Tag(t)
    /\ Posting(Acked) \/ Waking(Acked) \/ complete[Acked] \/ Status(t) => ack.tag = Tag(t)

\* The worker is past dce_ipc_channel_reset().
Opened(t) == Running(t) /\ t \in Workers /\ \A i \in 1..Len(todo[t]) : todo[t][i] # "reset"
Ready == fw # "off" /\ fwcmds = NCmds /\ synced
Booted(t) == "nomem" \notin env /\ ("BOOT_DONE" \in boot_status \/ Opened(t)) => Ready

\* The machine waits for the answer to ENTER_SC7 when its callback begins.
Committed ==
  "faults" \notin env /\ Running("pm") /\ pc["pm"] = "callback" /\ Head(todo["pm"]) = "sc7" =>
    c_state = "SC7_ENTER_WFI"

Sole(t) == Interlock(t) /\ Correspondence(t) /\ Stamped(t) /\ Booted(t)
BootInv == Guarded => Committed /\ \E t \in System : Sole(t)

-----------------------------------------------------------------------------
(* Without faults.                                                         *)

\* A step without faults brings no abort and no refusal.
LEMMA FaultFreeStep == ASSUME Inv, FaultFree, Step, UNCHANGED env PROVE FaultFree'
<1> SUFFICES ASSUME "faults" \notin env
             PROVE  /\ c_state' # "ABORT" /\ \A u \in Threads : prev'[u] # "ABORT"
                    /\ isr'.event # "ABORT_RECEIVED" /\ rmb'.kind \notin {"abort", "err"}
  BY DEF FaultFree
<1>1. /\ c_state # "ABORT" /\ \A u \in Threads : prev[u] # "ABORT"
      /\ isr.event # "ABORT_RECEIVED" /\ rmb.kind \notin {"abort", "err"}
      /\ prev \in [Threads -> States]
      /\ isr \in [step : {"off", "post", "wake"}, event : Replies \cup {"ABORT_RECEIVED", "none"}]
  BY DEF FaultFree, Inv, Control, Interrupt
<1>2. ASSUME NEW t \in Threads, Thread(t) PROVE UNCHANGED <<isr, rmb>>
  <2>1. Inward(t) => UNCHANGED <<isr, rmb>>
    BY DEF Inward, BootCheck, NestedPost, NestedWake, NestedReset, mbox, Sc7NoMemory, ScheduleResume, Recheck,
       Consume, WaitReturns, BootAnswered, CmdAnswered, Sc7Answered, CmdsDone, ChannelReset, BootDone, Post,
       Restore
  <2>2. Outward(t) => UNCHANGED <<isr, rmb>>
    BY DEF Outward, MailboxSend, AdminSend, Sc7Send, AdminAnswered, ChannelReady, mbox
  <2> QED BY <1>2, <2>1, <2>2, ThreadSteps
<1>3. ASSUME NEW t \in Threads, Post(t)
      PROVE  c_state' # "ABORT" /\ \A u \in Threads : prev'[u] # "ABORT"
  <2>1. StateFor(EventOf(Head(todo[t]))) # "ABORT"
    <3>1. Head(todo[t]) \in {"start", "boot", "cmd", "admin", "sc7", "exit"}
      BY <1>3 DEF Post
    <3> QED BY <3>1, Names
  <2> QED BY <1>1, <1>3, <2>1 DEF Post
<1>4. ASSUME NEW t \in Threads, Restore(t) \/ NestedPost(t)
      PROVE  c_state' # "ABORT" /\ \A u \in Threads : prev'[u] # "ABORT"
  BY <1>1, <1>4, ReplyNames DEF Restore, NestedPost
<1>5. ASSUME NEW t \in Threads, Thread(t), ~Post(t), ~Restore(t), ~NestedPost(t)
      PROVE  UNCHANGED <<c_state, prev>>
  BY <1>5, ThreadSteps DEF Inward, Outward, BootCheck, NestedWake, NestedReset, Sc7NoMemory, ScheduleResume,
     Recheck, Consume, WaitReturns, BootAnswered, CmdAnswered, Sc7Answered, CmdsDone, ChannelReset, BootDone,
     MailboxSend, AdminSend, Sc7Send, AdminAnswered, ChannelReady
<1>6. CASE \E t \in Threads : Thread(t)
  BY <1>1, <1>2, <1>3, <1>4, <1>5, <1>6
<1>7. CASE StartResume \/ Sc7Entered \/ Resumed \/ FwBoot \/ EnterSc7 \/ FwAdmin \/ (\E c \in Clients : ClientCalls(c))
  <2>1. UNCHANGED <<c_state, prev, isr, rmb>>
    BY <1>7 DEF StartResume, Sc7Entered, Resumed, FwBoot, EnterSc7, FwAdmin, ClientCalls, CallAdmin, mbox
  <2> QED BY <1>1, <2>1
<1>8. CASE SleepAndWake
  <2>1. UNCHANGED <<c_state, prev, isr>> /\ rmb' = NoMsg
    BY <1>8 DEF SleepAndWake
  <2> QED BY <1>1, <2>1, MsgFacts
<1>9. CASE IsrMailbox
  <2>1. rmb \in Messages({"ready", "sc7", "abort", "ack", "err"}) /\ rmb' = NoMsg
    BY <1>9 DEF IsrMailbox, Inv, Mail, Boxed
  <2>2. rmb.kind \in {"ready", "sc7", "ack"}
    BY <1>1, <2>1, MsgFacts
  <2>3. isr'.event # "ABORT_RECEIVED" /\ UNCHANGED <<c_state, prev>>
    BY <1>9, <2>2, ReplyNames DEF IsrMailbox
  <2> QED BY <1>1, <2>1, <2>3, MsgFacts
<1>10. CASE IsrAdmin \/ IsrWake
  <2>1. isr'.event # "ABORT_RECEIVED" /\ UNCHANGED <<c_state, prev, rmb>>
    BY <1>1, <1>10 DEF IsrAdmin, IsrWake, mbox
  <2> QED BY <1>1, <2>1
<1>11. CASE IsrPost
  <2>1. isr.event \in Replies
    BY <1>1, <1>11 DEF IsrPost, Inv, Interrupt
  <2>2. StateFor(isr.event) # "ABORT"
    BY <2>1 DEF StateFor, Replies
  <2>3. c_state' # "ABORT" /\ isr'.event # "ABORT_RECEIVED" /\ UNCHANGED <<prev, rmb>>
    BY <1>1, <1>11, <2>2 DEF IsrPost, mbox
  <2> QED BY <1>1, <2>3
<1>12. CASE FwReady \/ FwCommand("ack") \/ FwSc7
  <2>1. rmb'.kind \in {"ready", "ack", "sc7"} /\ UNCHANGED <<c_state, prev, isr>>
    BY <1>12, MsgFacts DEF FwReady, FwCommand, FwSc7, IrqMsg
  <2> QED BY <1>1, <2>1
<1>13. ~FwRefuse /\ ~FwAbort
  BY DEF FwRefuse, FwAbort
<1> QED BY <1>6, <1>7, <1>8, <1>9, <1>10, <1>11, <1>12, <1>13 DEF Step, Power, Isr, Firmware

-----------------------------------------------------------------------------
(* The replies that come by the mailbox.                                   *)

\* Where a thread waits for nothing, none is under way;
LEMMA Hushes ==
  ASSUME NEW t, Correspondence(t), pc[t] \notin {"wait", "woken", "consume", "nestedreset"}
  PROVE  Hushed
BY DEF Correspondence, Posted, Hushed

\* and where none is, it is as well for any thread.
LEMMA Unposted == ASSUME NEW t, Hushed' PROVE Correspondence(t)'
<1>1. Listed7' = {}
  BY DEF Hushed, Underway, Requested, Letters
<1> QED BY <1>1 DEF Correspondence, Posted, Hushed, Underway

\* Steps that leave the mailbox alone, and the requests in the ring.
LEMMA StillHushed ==
  ASSUME Hushed, UNCHANGED <<boot_req, smb, rmb, isr>>, Listed7' \subseteq Listed7,
         \A e \in Letters : complete'[e] => complete[e]
  PROVE  Hushed'
BY DEF Hushed, Underway, Requested, Mailed, Posting, Waking

\* A thread that has no boot command's reply to come has nothing to be stamped.
LEMMA Unstamped ==
  ASSUME NEW t, ~Underway(Acked)', ~complete'[Acked], ~Status(t)'
  PROVE  Stamped(t)'
<1>1. ~(rmb'.kind = "ack")
  <2>1. SUFFICES ASSUME rmb'.kind = "ack" PROVE FALSE
    OBVIOUS
  <2>2. rmb' # NoMsg /\ EventFor(rmb'.kind) = Acked
    BY <2>1, MsgFacts, ReplyNames DEF Acked
  <2> QED BY <2>2 DEF Underway, Mailed
<1>2. smb' = NoMsg /\ ~Posting(Acked)' /\ ~Waking(Acked)'
  BY DEF Underway, Requested, Acked
<1> QED BY <1>1, <1>2 DEF Stamped

\* ENTER_SC7 among the frames, as frames are added and taken.
LEMMA ListedFacts ==
  ASSUME Mail
  PROVE  /\ \A m : atx' = Append(atx, m) /\ m.kind # "sc7" => Listed7' = Listed7
         /\ \A m : atx' = Append(atx, m) /\ m.kind = "sc7" /\ Listed7 = {} => Listed7' = {Len(atx) + 1}
         /\ atx' = <<>> => Listed7' = {}
         /\ atx # <<>> /\ atx' = Tail(atx) => \A i \in Listed7' : i + 1 \in Listed7 /\ i \in Nat
         /\ atx # <<>> /\ Head(atx).kind = "sc7" => 1 \in Listed7
<1> DEFINE n == Len(atx)
<1>1. n \in Nat /\ atx \in Seq(Messages({"admin", "sc7"}))
  BY LenProperties DEF Mail
<1>2. ASSUME NEW m, atx' = Append(atx, m)
      PROVE  Len(atx') = n + 1 /\ \A i \in 1..(n + 1) : atx'[i] = IF i = n + 1 THEN m ELSE atx[i]
  BY <1>1, <1>2
<1>3. ASSUME NEW m, atx' = Append(atx, m), m.kind # "sc7" PROVE Listed7' = Listed7
  <2>1. \A i : i \in Listed7' <=> i \in Listed7
    BY <1>1, <1>2, <1>3 DEF Listed7
  <2> QED BY <2>1 DEF Listed7
<1>4. ASSUME NEW m, atx' = Append(atx, m), m.kind = "sc7", Listed7 = {} PROVE Listed7' = {n + 1}
  <2>1. \A i \in 1..n : atx[i].kind # "sc7"
    BY <1>4 DEF Listed7
  <2>2. \A i : i \in Listed7' <=> i = n + 1
    BY <1>1, <1>2, <1>4, <2>1 DEF Listed7
  <2> QED BY <2>2 DEF Listed7
<1>5. atx' = <<>> => Listed7' = {}
  BY DEF Listed7
<1>6. ASSUME atx # <<>>, atx' = Tail(atx), NEW i \in Listed7' PROVE i + 1 \in Listed7 /\ i \in Nat
  <2>1. /\ Len(Tail(atx)) = n - 1 /\ n \in Nat \ {0} /\ \A k \in 1..(n - 1) : Tail(atx)[k] = atx[k + 1]
    BY <1>1, <1>6, TailFacts
  <2>2. i \in 1..(n - 1) /\ Tail(atx)[i].kind = "sc7"
    BY <1>6, <2>1 DEF Listed7
  <2>3. i + 1 \in 1..n /\ atx[i + 1].kind = "sc7" /\ i \in Nat
    BY <2>1, <2>2
  <2> QED BY <2>3 DEF Listed7
<1>7. atx # <<>> /\ Head(atx).kind = "sc7" => 1 \in Listed7
  <2>1. SUFFICES ASSUME atx # <<>>, Head(atx).kind = "sc7" PROVE 1 \in Listed7
    OBVIOUS
  <2>2. Head(atx) = atx[1] /\ n \in Nat \ {0}
    BY <1>1, <2>1, TailFacts
  <2> QED BY <2>1, <2>2 DEF Listed7
<1> HIDE DEF n
<1> QED BY <1>3, <1>4, <1>5, <1>6, <1>7 DEF n

-----------------------------------------------------------------------------
(* The mailbox, as the thread that alone may use it goes on.               *)

\* Who the threads are.
LEMMA Casting ==
  /\ System \subseteq Threads /\ Clients \subseteq Threads /\ Threads = System \cup Clients
  /\ System \cap Clients = {} /\ "pm" \in System /\ "pm" \notin Workers /\ Workers \subseteq System
BY DceAssumption DEF System, Threads, Workers

\* Steps that wait for nothing, and ask for nothing of the mailbox.
Aside(t) ==
  \/ Post(t) \/ Restore(t) \/ NestedPost(t) \/ AdminSend(t) \/ Sc7NoMemory(t) \/ ScheduleResume(t)
  \/ BootAnswered(t) \/ CmdAnswered(t) \/ AdminAnswered(t) \/ Sc7Answered(t) \/ Flow(t)

\* Such a step leaves the mailbox at rest.
LEMMA AsideStep ==
  ASSUME Inv, NEW t \in Threads, Thread(t), Correspondence(t), Aside(t)
  PROVE  Correspondence(t)' /\ Stamped(t)'
<1>1. /\ pc[t] \notin {"wait", "woken", "consume", "nestedreset"}
      /\ UNCHANGED <<boot_req, smb, rmb, isr, complete>>
  <2>1. CASE Post(t) \/ Restore(t) \/ NestedPost(t) \/ AdminSend(t) \/ Sc7NoMemory(t) \/ ScheduleResume(t)
    BY <2>1 DEF Post, Restore, NestedPost, AdminSend, Sc7NoMemory, ScheduleResume, mbox, In
  <2>2. CASE BootAnswered(t) \/ CmdAnswered(t) \/ AdminAnswered(t) \/ Sc7Answered(t) \/ Flow(t)
    BY <2>2 DEF BootAnswered, CmdAnswered, AdminAnswered, Sc7Answered, Flow, CmdsDone, ChannelReset,
       ChannelReady, BootDone, mbox, In
  <2> QED BY <2>1, <2>2 DEF Aside
<1>2. Hushed
  BY <1>1, Hushes
<1>3. \/ UNCHANGED atx \/ atx' = <<>>
      \/ \E m : atx' = Append(atx, m) /\ m.kind # "sc7"
  BY MsgFacts DEF Aside, Post, Restore, NestedPost, AdminSend, Sc7NoMemory, ScheduleResume, BootAnswered,
     CmdAnswered, AdminAnswered, Sc7Answered, Flow, CmdsDone, ChannelReset, ChannelReady, BootDone, chan
<1>4. Listed7' \subseteq Listed7
  <2>1. CASE UNCHANGED atx
    BY <2>1 DEF Listed7
  <2>2. CASE ~UNCHANGED atx
    BY <1>3, <2>2, ListedFacts DEF Inv
  <2> QED BY <2>1, <2>2
<1>5. Hushed'
  BY <1>1, <1>2, <1>4, StillHushed
<1>6. pc'[t] \in {"post", "failed", "callback", "nestedwake", "nestedreset_failed", "restore", "wait",
                  "handshake"}
  BY DEF Aside, Post, Restore, NestedPost, AdminSend, Sc7NoMemory, ScheduleResume, BootAnswered,
     CmdAnswered, AdminAnswered, Sc7Answered, Flow, CmdsDone, ChannelReset, ChannelReady, BootDone,
     Goto, Done, Fail, Inv, Shape, Typed
<1>7. Stamped(t)'
  BY <1>1, <1>5, <1>6, Unstamped DEF Hushed, Letters, Acked, Status
<1> QED BY <1>5, <1>7, Unposted

\* A request: nothing is under way but its reply, for which t waits.
LEMMA Asks ==
  ASSUME Inv, NEW t, NEW e \in Letters, Hushed, UNCHANGED <<rmb, isr, complete>>,
         \A f \in Letters : Requested(f)' => f = e, \A i, k \in Listed7' : i = k,
         Expects(t, e)', pc'[t] = "wait"
  PROVE  Correspondence(t)'
<1>1. \A f \in Letters : ~Mailed(f)' /\ ~Posting(f)' /\ ~Waking(f)' /\ ~complete'[f]
  BY DEF Hushed, Underway, Mailed, Posting, Waking
<1> QED BY <1>1 DEF Correspondence, Posted, Underway

\* Boots, boot commands and entries into SC7 ask for a reply by the mailbox.
LEMMA AskStep ==
  ASSUME Inv, NEW t \in Threads, Thread(t), Correspondence(t),
         BootCheck(t) \/ MailboxSend(t) \/ Sc7Send(t), UNCHANGED env
  PROVE  Correspondence(t)' /\ Stamped(t)'
<1>1. /\ pc[t] = "callback" /\ Running(t) /\ Head(todo[t]) \in {"boot", "cmd", "sc7"} /\ Calling(t)
      /\ UNCHANGED <<rmb, isr, complete, todo>> /\ Mail
  BY DEF BootCheck, MailboxSend, Sc7Send, mbox, chan, In, Goto, Calling, Sends, Inv
<1>2. Hushed /\ ~boot_req /\ smb = NoMsg /\ Listed7 = {}
  <2>1. Hushed
    BY <1>1, Hushes
  <2> QED BY <2>1 DEF Hushed, Underway, Requested, Letters
<1>3. Running(t)' /\ Calling(t)' /\ WaitOf(t)' = WaitOf(t) /\ Tag(t)' = Tag(t)
  BY <1>1 DEF Calling, Running, WaitOf, Tag
<1>4. pc'[t] \in {"nested", "wait", "restore"}
  BY <1>1 DEF BootCheck, MailboxSend, Sc7Send, Goto, Inv, Shape, Typed
<1>5. ~Status(t)' /\ UNCHANGED <<rmb, isr, complete>> /\ "BOOT_CMD_MSG_RECEIVED" \in Letters
  BY <1>1, <1>4 DEF Status, Letters
<1>6. CASE UNCHANGED <<boot_req, smb, atx>>
  <2>1. Hushed'
    BY <1>1, <1>2, <1>6, StillHushed DEF Listed7
  <2>2. ~Underway(Acked)' /\ ~complete'[Acked]
    BY <2>1 DEF Hushed, Letters, Acked
  <2> QED BY <1>5, <2>1, <2>2, Unposted, Unstamped
<1>7. CASE BootCheck(t) /\ ~UNCHANGED <<boot_req, smb, atx>>
  <2>1. boot_req' /\ UNCHANGED <<smb, atx>> /\ pc'[t] = "wait" /\ Head(todo[t]) = "boot"
    BY <1>1, <1>2, <1>7 DEF BootCheck, chan, Goto, Inv, Shape, Typed, Control, In
  <2>2. Expects(t, "BOOT_COMPLETE_RECEIVED")'
    BY <1>1, <1>3, <2>1, SendFacts DEF Expects
  <2>3. \A f \in Letters : Requested(f)' => f = "BOOT_COMPLETE_RECEIVED"
    BY <1>2, <2>1 DEF Requested, Letters, Listed7
  <2>4. Correspondence(t)'
    BY <1>1, <1>2, <2>1, <2>2, <2>3, Asks DEF Letters, Listed7
  <2>5. ~Underway(Acked)' /\ ~complete'[Acked]
    BY <1>1, <1>2, <2>1 DEF Hushed, Letters, Acked, Underway, Requested, Mailed, Posting, Waking
  <2> QED BY <1>5, <2>4, <2>5, Unstamped
<1>8. CASE MailboxSend(t) /\ ~UNCHANGED <<boot_req, smb, atx>>
  <2>1. smb' = Msg("cmd", Tag(t)) /\ UNCHANGED <<boot_req, atx>> /\ pc'[t] = "wait" /\ Head(todo[t]) = "cmd"
    BY <1>1, <1>2, <1>8 DEF MailboxSend, chan, Goto, Inv, Shape, Typed, In
  <2>2. Expects(t, "BOOT_CMD_MSG_RECEIVED")'
    BY <1>1, <1>3, <2>1, SendFacts DEF Expects
  <2>3. \A f \in Letters : Requested(f)' => f = "BOOT_CMD_MSG_RECEIVED"
    BY <1>2, <2>1 DEF Requested, Letters, Listed7
  <2>4. Correspondence(t)'
    BY <1>1, <1>2, <2>1, <2>2, <2>3, Asks DEF Letters, Listed7
  <2>5. ~Mailed(Acked) /\ ~Posting(Acked) /\ ~Waking(Acked) /\ ~complete[Acked]
    BY <1>2 DEF Hushed, Letters, Acked, Underway
  <2>6. rmb.kind # "ack"
    BY <2>5, MsgFacts, ReplyNames DEF Mailed, Acked
  <2>7. Stamped(t)'
    BY <1>1, <1>3, <1>5, <2>1, <2>5, <2>6, MsgFacts DEF Stamped, Posting, Waking
  <2> QED BY <2>4, <2>7
<1>9. CASE Sc7Send(t) /\ ~UNCHANGED <<boot_req, smb, atx>>
  <2>1. atx' = Append(atx, Msg("sc7", Tag(t))) /\ UNCHANGED <<boot_req, smb>> /\ pc'[t] = "wait"
        /\ Head(todo[t]) = "sc7"
    BY <1>1, <1>2, <1>9 DEF Sc7Send, mbox, Goto, Inv, Shape, Typed, In
  <2>2. Expects(t, "SC7_ENTERED_RECEIVED")'
    BY <1>1, <1>3, <2>1, SendFacts DEF Expects
  <2>3. \A f \in Letters : Requested(f)' => f = "SC7_ENTERED_RECEIVED"
    BY <1>2, <2>1 DEF Requested, Letters
  <2>4. Listed7' = {Len(atx) + 1}
    BY <1>1, <1>2, <2>1, ListedFacts, MsgFacts
  <2>5. Correspondence(t)'
    BY <1>1, <1>2, <2>1, <2>2, <2>3, <2>4, Asks DEF Letters
  <2>6. ~Underway(Acked)' /\ ~complete'[Acked]
    BY <1>1, <1>2, <2>1 DEF Hushed, Letters, Acked, Underway, Requested, Mailed, Posting, Waking
  <2> QED BY <1>5, <2>5, <2>6, Unstamped
<1> QED BY <1>6, <1>7, <1>8, <1>9

\* A boot that posts its reply itself sets the flag, and takes it back.
LEMMA NestedStep ==
  ASSUME Inv, NEW t \in Threads, Thread(t), Correspondence(t), NestedWake(t) \/ NestedReset(t)
  PROVE  Correspondence(t)' /\ Stamped(t)'
<1> DEFINE b == "BOOT_COMPLETE_RECEIVED"
<1>1. /\ Running(t) /\ Calling(t) /\ Head(todo[t]) = "boot" /\ Mail
      /\ UNCHANGED <<boot_req, smb, rmb, isr, atx>> /\ b \in Letters /\ Acked \in Letters /\ b # Acked
      /\ \A e : Expects(t, e) <=> e = b
  <2>1. Running(t) /\ Head(todo[t]) = "boot" /\ UNCHANGED <<boot_req, smb, rmb, isr, atx>>
    BY DEF NestedWake, NestedReset, In, mbox, chan, Inv, Shape, PlacedAt
  <2>2. Calling(t)
    BY <2>1 DEF Calling, Sends
  <2> QED BY <2>1, <2>2, SendFacts DEF Expects, Inv, Letters, Acked
<1>2. \A e \in Letters : ~Underway(e) /\ (complete[e] => e = b)
  <2>1. pc[t] \in {"nestedwake", "nestedreset", "nestedreset_failed"}
    BY DEF NestedWake, NestedReset, In
  <2> QED BY <1>1, <2>1 DEF Correspondence, Posted
<1>3. \A e \in Letters : ~Underway(e)'
  BY <1>1, <1>2 DEF Underway, Requested, Mailed, Posting, Waking, Listed7
<1>4. CASE NestedWake(t)
  <2>1. pc'[t] = "nestedreset" /\ UNCHANGED todo /\ complete' = [complete EXCEPT ![b] = TRUE]
    BY <1>4 DEF NestedWake, Goto, Inv, Shape, Typed
  <2>2. \A e \in Letters : complete'[e] => e = b
    BY <1>2, <2>1 DEF Inv, Control
  <2>3. \A e : Expects(t, e)' <=> e = b
    BY <1>1, <2>1 DEF Expects, Calling, Running, WaitOf
  <2>4. Listed7' = {}
    BY <1>3 DEF Underway, Requested, Letters
  <2>5. Correspondence(t)'
    BY <1>3, <2>1, <2>2, <2>3, <2>4 DEF Correspondence, Posted, Underway
  <2>6. ~Status(t)'
    BY <2>1 DEF Status
  <2> QED BY <1>1, <1>3, <2>2, <2>5, <2>6, Unstamped
<1>5. CASE NestedReset(t)
  <2>1. complete' = [complete EXCEPT ![b] = FALSE] /\ pc'[t] \in {"post", "restore"}
    BY <1>5 DEF NestedReset, Done, Goto, Inv, Shape, Typed
  <2>2. Hushed'
    BY <1>2, <1>3, <2>1 DEF Hushed, Inv, Control, Letters, Replies
  <2>3. ~Status(t)'
    BY <2>1 DEF Status
  <2> QED BY <1>1, <2>2, <2>3, Unposted, Unstamped DEF Hushed
<1> QED BY <1>4, <1>5

\* A wait that nobody interrupts ends with the reply, and its flag is taken back.
LEMMA WaitStep ==
  ASSUME Inv, NEW t \in System, Thread(t), Correspondence(t), Stamped(t),
         WaitReturns(t) \/ Recheck(t) \/ Consume(t), UNCHANGED env
  PROVE  Correspondence(t)' /\ Stamped(t)'
<1>1. /\ Running(t) /\ pc[t] \in {"wait", "woken", "consume"} /\ t \in Threads /\ t \notin Clients
      /\ UNCHANGED <<boot_req, smb, rmb, isr, atx, ack, todo>>
      /\ (pc[t] = "wait" => complete[WaitOf(t)])
  BY Casting DEF WaitReturns, Recheck, Consume, Goto, mbox, chan, driver
<1>2. Calling(t) /\ (Head(todo[t]) = "cmd" <=> WaitOf(t) = Acked) /\ WaitOf(t) \in Replies
  <2>1. Calling(t)
    BY <1>1 DEF Inv, Shape, PlacedAt, Calling
  <2> QED BY <2>1, SendFacts DEF Acked
<1>3. \A e \in Letters : ~Underway(e) /\ (complete[e] => e = WaitOf(t))
  BY <1>1 DEF Correspondence, Posted, Expects
<1>4. /\ \A e \in Letters : ~Underway(e)' /\ (Expects(t, e)' <=> e = WaitOf(t))
      /\ Listed7' = {} /\ Tag(t)' = Tag(t)
  <2>1. \A e \in Letters : ~Underway(e)'
    BY <1>1, <1>3 DEF Underway, Requested, Mailed, Posting, Waking, Listed7
  <2>2. \A e \in Letters : Expects(t, e)' <=> e = WaitOf(t)
    BY <1>1, <1>2 DEF Expects, Calling, Running, WaitOf
  <2>3. Listed7' = {}
    BY <2>1 DEF Underway, Requested, Letters
  <2> QED BY <1>1, <2>1, <2>2, <2>3 DEF Tag
<1>5. /\ pc'[t] \in {"woken", "consume", "answered", "restore"}
      /\ \A e \in Letters : complete'[e] => complete[e] /\ pc'[t] \in {"woken", "consume"}
  <2>1. CASE WaitReturns(t)
    BY <1>1, <2>1 DEF WaitReturns, Goto, Inv, Shape, Typed
  <2>2. CASE Recheck(t)
    <3>1. /\ UNCHANGED complete /\ pc'[t] \in {"consume", "answered", "restore"}
          /\ complete[WaitOf(t)] => pc'[t] = "consume"
      BY <1>1, <2>2 DEF Recheck, Goto, Inv, Shape, Typed
    <3> QED BY <1>3, <3>1
  <2>3. CASE Consume(t)
    <3>1. complete' = [complete EXCEPT ![WaitOf(t)] = FALSE] /\ pc'[t] = "answered"
      BY <1>1, <2>3 DEF Consume, Goto, Inv, Shape, Typed
    <3> QED BY <1>2, <1>3, <3>1 DEF Inv, Control, Letters, Replies
  <2> QED BY <2>1, <2>2, <2>3
<1>6. Correspondence(t)'
  BY <1>3, <1>4, <1>5 DEF Correspondence, Posted, Underway
<1>7. Acked \in Letters /\ smb = NoMsg /\ rmb.kind # "ack" /\ ~Posting(Acked)' /\ ~Waking(Acked)'
  <2>1. Acked \in Letters
    BY DEF Acked, Letters
  <2>2. ~Requested(Acked) /\ ~Mailed(Acked)
    BY <1>3, <2>1 DEF Underway
  <2> QED BY <1>4, <2>1, <2>2, MsgFacts, ReplyNames DEF Underway, Requested, Mailed, Acked
<1>8. ASSUME "faults" \notin env, complete'[Acked] \/ Status(t)' PROVE ack.tag = Tag(t)
  <2>1. complete[Acked] \/ Status(t)
    BY <1>1, <1>2, <1>5, <1>7, <1>8 DEF Status, Running
  <2> QED BY <1>8, <2>1 DEF Stamped
<1>9. Stamped(t)'
  BY <1>1, <1>4, <1>7, <1>8, MsgFacts DEF Stamped
<1> QED BY <1>6, <1>9

\* Every step of a worker, or of the suspend path.
LEMMA LetterStep ==
  ASSUME Inv, NEW t \in System, Thread(t), Correspondence(t), Stamped(t), UNCHANGED env
  PROVE  Correspondence(t)' /\ Stamped(t)'
BY AsideStep, AskStep, NestedStep, WaitStep, Casting DEF Thread, Callback, Aside

-----------------------------------------------------------------------------
(* What decides about boots and suspends, as the thread goes on.           *)

\* In a stranded machine a step of no worker is a refused request.
LEMMA StrandedCall ==
  ASSUME Shape, NEW t \in Threads, t \notin Workers, Stranded, Thread(t), UNCHANGED env
  PROVE  Stranded' /\ Fail(t)
<1>1. pc[t] = "post" /\ Running(t) /\ ListedIn(Menu(t), todo[t]) /\ todo[t] # <<>>
  BY Others DEF Stranded, Shape, Running
<1>2. Head(todo[t]) \in {"admin", "sc7", "exit"}
  BY <1>1, ListedTail DEF Menu
<1>3. Post(t)
  BY <1>1, <1>2, ThreadSteps DEF Inward, Outward, BootCheck, NestedPost, NestedWake, NestedReset,
     Sc7NoMemory, ScheduleResume, Recheck, Consume, WaitReturns, BootAnswered, CmdAnswered, Sc7Answered,
     CmdsDone, ChannelReset, BootDone, Restore, MailboxSend, AdminSend, Sc7Send, AdminAnswered,
     ChannelReady, In
<1>4. ~Accepted(c_state, EventOf(Head(todo[t])))
  <2>1. EventOf(Head(todo[t])) \in Requests \cup {"SC7_EXIT_RECEIVED"}
    BY <1>2, Names DEF Sends
  <2> QED BY <2>1, Names DEF Stranded, Accepted, Requests, Replies, Waiting
<1>5. Fail(t) /\ UNCHANGED c_state
  BY <1>3, <1>4 DEF Post
<1>6. UNCHANGED boot_status
  BY <1>3 DEF Post, driver
<1>7. \A u \in Threads : pc'[u] \in {"post", "failed"}
  BY <1>5, Others DEF Fail, Shape, Typed, Stranded
<1> QED BY <1>5, <1>6, <1>7 DEF Stranded

\* What is left of a suspend's calls.
LEMMA SuspendLeft ==
  ASSUME Shape, NEW t \in System, Interlock(t), Thread(t), pm = "entering", Running("pm")'
  PROVE  todo'["pm"] \in {<<"admin", "sc7">>, <<"sc7">>} /\ Running("pm") /\ t = "pm"
<1>1. t \in Threads /\ "pm" \in Threads /\ "pm" \in System
  BY Casting
<1>2. t = "pm" /\ Running("pm")
  BY <1>1, Others DEF Interlock
<1>3. todo["pm"] \in {<<"admin", "sc7">>, <<"sc7">>} /\ todo'["pm"] \in {todo["pm"], Tail(todo["pm"]), <<>>}
  BY <1>1, <1>2, Others DEF Interlock
<1>4. Tail(<<"admin", "sc7">>) = <<"sc7">> /\ Tail(<<"sc7">>) = <<>> /\ todo'["pm"] # <<>>
  BY DEF Running
<1>5. CASE todo["pm"] = <<"admin", "sc7">>
  BY <1>2, <1>3, <1>4, <1>5
<1>6. CASE todo["pm"] = <<"sc7">>
  BY <1>2, <1>3, <1>4, <1>6
<1> QED BY <1>3, <1>5, <1>6

\* A step that does not touch what decides about boots and suspends.
LEMMA LockStep ==
  ASSUME Shape, NEW t \in System, Interlock(t), Thread(t), UNCHANGED <<env, resume_work>>,
         "BOOT_DONE" \in boot_status' <=> "BOOT_DONE" \in boot_status,
         pm = "entering" /\ t = "pm" /\ ~Running(t)' /\ pc'[t] # "failed" => Stranded'
  PROVE  Interlock(t)'
<1>1. /\ \A u \in Threads \ {t} : Running(u)' = Running(u) /\ pc'[u] = pc[u]
      /\ UNCHANGED pm /\ Running(t) /\ t \in Threads /\ "pm" \in Threads
  BY Others, Casting
<1>2. "BOOT_DONE" \in boot_status /\ Stranded => Stranded'
  BY <1>1, StrandedCall DEF Interlock
<1>3. pm = "entering" /\ Running("pm")' =>
        "BOOT_DONE" \in boot_status' /\ todo'["pm"] \in {<<"admin", "sc7">>, <<"sc7">>}
  BY SuspendLeft DEF Interlock
<1>4. Asleep' => "BOOT_DONE" \notin boot_status' \/ Stranded'
  BY <1>1, <1>2 DEF Asleep, Interlock
<1>5. \A u \in System \ {t} : ~Running(u)'
  BY <1>1, Casting DEF Interlock
<1>6. pm # "awake" => \A c \in Clients : ~Running(c)'
  BY <1>1, Casting DEF Interlock
<1> QED BY <1>1, <1>3, <1>4, <1>5, <1>6 DEF Interlock

\* The same where the step is not the last one of a suspend.
LEMMA StillLocked ==
  ASSUME Shape, NEW t \in System, Interlock(t), Thread(t), UNCHANGED <<env, resume_work>>,
         "BOOT_DONE" \in boot_status' <=> "BOOT_DONE" \in boot_status,
         Head(todo[t]) = "sc7" => Running(t)' \/ pc'[t] = "failed"
  PROVE  Interlock(t)'
<1>1. ASSUME pm = "entering", t = "pm", ~Running(t)', pc'[t] # "failed" PROVE FALSE
  <2>1. Running("pm") /\ "pm" \in Threads
    BY <1>1, Others, Casting
  <2>2. todo["pm"] \in {<<"admin", "sc7">>, <<"sc7">>} /\ todo'["pm"] = Tail(todo["pm"]) /\ todo'["pm"] = <<>>
    BY <1>1, <2>1, Others DEF Interlock, Running
  <2>3. Tail(<<"admin", "sc7">>) # <<>> /\ Head(<<"sc7">>) = "sc7"
    OBVIOUS
  <2>4. Head(todo["pm"]) = "sc7"
    BY <2>2, <2>3
  <2> QED BY <1>1, <2>4
<1> QED BY <1>1, LockStep

\* The calls that end a suspend or a boot, and the one that leads to the next boot.
Ending(t) == Sc7NoMemory(t) \/ Sc7Answered(t) \/ ScheduleResume(t) \/ BootDone(t)

\* All other steps leave the decision alone.
LEMMA UndecidedStep ==
  ASSUME Inv, NEW t \in System, Interlock(t), Thread(t), ~Ending(t), UNCHANGED env
  PROVE  Interlock(t)'
<1>1. t \in Threads /\ Shape
  BY Casting DEF Inv
<1>2. UNCHANGED resume_work /\ ("BOOT_DONE" \in boot_status' <=> "BOOT_DONE" \in boot_status)
  <2>1. Inward(t) => UNCHANGED resume_work /\ ("BOOT_DONE" \in boot_status' <=> "BOOT_DONE" \in boot_status)
    BY DEF Inward, BootCheck, NestedPost, NestedWake, NestedReset, driver, Ending,
       Recheck, Consume, WaitReturns, BootAnswered, CmdAnswered, CmdsDone, ChannelReset,
       Post, Restore
  <2>2. Outward(t) => UNCHANGED <<resume_work, boot_status>>
    BY DEF Outward, MailboxSend, AdminSend, Sc7Send, AdminAnswered, ChannelReady, driver
  <2> QED BY <1>1, <2>1, <2>2, ThreadSteps
<1>3. Head(todo[t]) = "sc7" => Running(t)' \/ pc'[t] = "failed"
  <2>1. SUFFICES ASSUME Head(todo[t]) = "sc7" PROVE UNCHANGED todo \/ Fail(t)
    <3>1. Running(t)
      BY <1>1, ThreadMoves
    <3> QED BY <1>1, <2>1, <3>1 DEF Running, Fail, Shape, Typed
  <2>2. EventOf(Head(todo[t])) # "FSM_START" /\ PlacedAt(todo[t], pc[t])
    BY <1>1, <2>1, Names DEF Sends, Requests, Shape
  <2>3. Post(t) => UNCHANGED todo \/ Fail(t)
    BY <2>2 DEF Post, Goto
  <2>4. ~NestedReset(t)
    BY <2>1, <2>2 DEF NestedReset, PlacedAt
  <2>5. Inward(t) => UNCHANGED todo \/ Fail(t)
    BY <2>1, <2>3, <2>4 DEF Inward, Ending, BootCheck, NestedPost, NestedWake, Recheck, Consume, WaitReturns,
       BootAnswered, CmdAnswered, CmdsDone, ChannelReset, Restore, In, Goto
  <2>6. Outward(t) => UNCHANGED todo
    BY <2>1 DEF Outward, MailboxSend, AdminSend, Sc7Send, AdminAnswered, ChannelReady, In, Goto
  <2> QED BY <1>1, <2>5, <2>6, ThreadSteps
<1> QED BY <1>1, <1>2, <1>3, StillLocked

\* A last call is the only one left, and the suspend path makes those of a suspend.
LEMMA LastCall ==
  ASSUME Inv, NEW t \in System, Thread(t), Done(t), Head(todo[t]) \in Finals
  PROVE  /\ ~Running(t)' /\ pc'[t] = "post"
         /\ Head(todo[t]) = "sc7" => t = "pm" /\ pm = "entering"
         /\ Head(todo[t]) = "exit" => t = "pm" /\ pm = "exiting"
         /\ Head(todo[t]) = "bootdone" => t \in Workers
<1>1. t \in Threads /\ Running(t) /\ ListedIn(Menu(t), todo[t]) /\ todo[t] # <<>>
  BY Casting, Others DEF Inv, Shape, Running
<1>2. Head(todo[t]) \in Menu(t) /\ Tail(todo[t]) = <<>>
  BY <1>1, ListedTail
<1>3. ~Running(t)' /\ pc'[t] = "post"
  BY <1>1, <1>2 DEF Done, Running, Inv, Shape, Typed
<1> QED BY <1>2, <1>3 DEF Menu, System, CallNames, Workers

\* The ends of suspends and boots.
LEMMA EndingLocked ==
  ASSUME Inv, Guarded, Committed, NEW t \in System, Interlock(t), Thread(t), Ending(t), UNCHANGED env
  PROVE  Interlock(t)'
<1>1. /\ t \in Threads /\ "pm" \in Threads /\ "pm" \in System /\ Running(t) /\ UNCHANGED pm
      /\ \A u \in Threads \ {t} : Running(u)' = Running(u) /\ pc'[u] = pc[u] /\ todo'[u] = todo[u]
      /\ System \subseteq Threads /\ Clients \subseteq Threads \ {t}
  BY Casting, Others DEF Inv
<1>2. /\ Done(t) /\ Head(todo[t]) \in Finals
      /\ Sc7NoMemory(t) \/ Sc7Answered(t) => Head(todo[t]) = "sc7"
      /\ ScheduleResume(t) => Head(todo[t]) = "exit"
      /\ BootDone(t) => Head(todo[t]) = "bootdone"
  BY DEF Ending, Sc7NoMemory, Sc7Answered, ScheduleResume, BootDone, In, Finals
<1>3. /\ ~Running(t)' /\ pc'[t] = "post"
      /\ Head(todo[t]) = "sc7" => t = "pm" /\ pm = "entering"
      /\ Head(todo[t]) = "exit" => t = "pm" /\ pm = "exiting"
      /\ Head(todo[t]) = "bootdone" => t \in Workers
  BY <1>2, LastCall
<1>4. \A u \in System : ~Running(u)'
  BY <1>1, <1>3 DEF Interlock
<1>5. pm # "awake" => \A c \in Clients : ~Running(c)'
  BY <1>1 DEF Interlock
<1>6. CASE Sc7NoMemory(t)
  <2>1. /\ UNCHANGED <<c_state, boot_status, resume_work>> /\ "nomem" \in env /\ pc[t] = "callback"
        /\ t = "pm" /\ pm = "entering" /\ Head(todo[t]) = "sc7"
    BY <1>2, <1>3, <1>6 DEF Sc7NoMemory, driver, In
  <2>2. "BOOT_DONE" \in boot_status /\ c_state = "SC7_ENTER_WFI"
    BY <1>1, <2>1 DEF Interlock, Committed, Guarded
  <2>3. \A u \in Threads : pc'[u] \in {"post", "failed"}
    <3>1. \A u \in Threads \ {t} : ~Running(u)
      BY <1>1, <2>1, Casting DEF Interlock
    <3> QED BY <1>1, <1>3, <3>1 DEF Inv, Shape, PlacedAt, Running
  <2>4. Stranded'
    BY <2>1, <2>2, <2>3 DEF Stranded
  <2> QED BY <1>1, <1>3, <1>4, <1>5, <2>1, <2>4 DEF Interlock
<1>7. CASE Sc7Answered(t)
  <2>1. "BOOT_DONE" \notin boot_status' /\ UNCHANGED resume_work /\ t = "pm" /\ pm = "entering"
    BY <1>2, <1>3, <1>7 DEF Sc7Answered
  <2> QED BY <1>1, <1>3, <1>4, <1>5, <2>1 DEF Interlock
<1>8. CASE ScheduleResume(t)
  <2>1. UNCHANGED boot_status /\ t = "pm" /\ pm = "exiting" /\ pc[t] = "callback"
    BY <1>2, <1>3, <1>8 DEF ScheduleResume, In
  <2>2. ~Stranded
    BY <1>1, <2>1 DEF Stranded
  <2>3. "BOOT_DONE" \notin boot_status
    BY <1>1, <2>1, <2>2 DEF Interlock, Asleep
  <2> QED BY <1>1, <1>3, <1>4, <1>5, <2>1, <2>3 DEF Interlock, Asleep
<1>9. CASE BootDone(t)
  <2>1. UNCHANGED resume_work /\ t \in Workers /\ t # "pm"
    BY <1>2, <1>3, <1>9, Casting DEF BootDone
  <2>2. pm \notin {"entering", "entered"} /\ ~resume_work
    BY <1>1, <2>1 DEF Interlock
  <2> QED BY <1>1, <1>3, <1>4, <1>5, <2>1, <2>2 DEF Interlock, Asleep
<1> QED BY <1>6, <1>7, <1>8, <1>9 DEF Ending

\* A callback begins with the state that its post has set.
LEMMA CallbackBegins ==
  ASSUME Shape, NEW t \in Threads, Thread(t), pc'[t] = "callback"
  PROVE  UNCHANGED todo /\ c_state' = StateFor(EventOf(Head(todo[t])))
<1>1. Typed
  BY DEF Shape
<1>2. ~Outward(t)
  BY <1>1 DEF Outward, MailboxSend, AdminSend, Sc7Send, AdminAnswered, ChannelReady, Goto, Done, Typed
<1>3. Inward(t) => Post(t)
  BY <1>1 DEF Inward, BootCheck, NestedPost, NestedWake, NestedReset, Sc7NoMemory, ScheduleResume, Recheck,
     Consume, WaitReturns, BootAnswered, CmdAnswered, Sc7Answered, CmdsDone, ChannelReset, BootDone, Restore,
     Goto, Done, Fail, Typed
<1>4. Post(t)
  BY <1>2, <1>3, ThreadSteps
<1> QED BY <1>1, <1>4 DEF Post, Goto, Done, Fail, Typed

\* A worker or the suspend path goes on: the machine is as its callbacks expect.
LEMMA CommittedStep ==
  ASSUME Inv, NEW t \in System, Interlock(t), Thread(t), UNCHANGED env
  PROVE  Committed'
<1>1. /\ t \in Threads /\ "pm" \in Threads /\ "pm" \in System /\ Shape /\ Running(t)
      /\ \A u \in Threads \ {t} : Running(u)' = Running(u)
  BY Casting, Others DEF Inv
<1>2. CASE t = "pm"
  <2>1. pc'["pm"] = "callback" => UNCHANGED todo /\ c_state' = StateFor(EventOf(Head(todo["pm"])))
    BY <1>1, <1>2, CallbackBegins
  <2> QED BY <2>1, Names DEF Committed
<1>3. CASE t # "pm"
  BY <1>1, <1>3 DEF Interlock, Committed
<1> QED BY <1>2, <1>3

\* A step other than the handshake's last leaves no worker further on than it was.
LEMMA OpenedStep ==
  ASSUME Inv, NEW t \in System, Thread(t), ~ChannelReady(t)
  PROVE  Opened(t)' => Opened(t)
<1> SUFFICES ASSUME Opened(t)' PROVE Opened(t)
  OBVIOUS
<1>1. t \in Threads /\ Running(t) /\ Typed /\ todo[t] \in Seq(CallNames) /\ todo[t] # <<>>
  BY Casting, Others DEF Inv, Shape, Typed, Running
<1>2. \/ UNCHANGED todo
      \/ todo'[t] = Tail(todo[t]) /\ Done(t)
  <2>1. (\E s \in Steps : Goto(t, s)) \/ Done(t) \/ Fail(t)
    BY <1>1, ThreadMoves DEF Inv
  <2>2. ~Fail(t)
    BY <1>1 DEF Fail, Opened, Running, Typed
  <2> QED BY <1>1, <2>1, <2>2 DEF Goto, Done, Typed
<1>3. CASE UNCHANGED todo
  BY <1>1, <1>3 DEF Opened
<1>4. CASE todo'[t] = Tail(todo[t]) /\ Done(t)
  <2>1. Head(todo[t]) # "reset"
    <3>1. pc'[t] = "post"
      BY <1>1, <1>4 DEF Done, Typed
    <3>2. SUFFICES ASSUME Head(todo[t]) = "reset" PROVE FALSE
      OBVIOUS
    <3>3. pc[t] \in {"post", "handshake"}
      BY <1>1, <3>2 DEF Inv, Shape, PlacedAt, Sends, Steps, Typed
    <3>4. ~Outward(t)
      BY <3>2 DEF Outward, MailboxSend, AdminSend, Sc7Send, AdminAnswered, In
    <3>5. ~Inward(t)
      BY <1>1, <3>1, <3>2, <3>3 DEF Inward, BootCheck, NestedPost, NestedWake, NestedReset, Sc7NoMemory,
         ScheduleResume, Recheck, Consume, WaitReturns, BootAnswered, CmdAnswered, Sc7Answered, CmdsDone,
         ChannelReset, BootDone, Post, Restore, In, Goto, Typed
    <3> QED BY <3>4, <3>5, ThreadSteps
  <2> DEFINE q == todo[t]
             n == Len(q)
             p == Tail(q)
  <2>2. /\ Len(p) = n - 1 /\ n \in Nat \ {0} /\ \A i \in 1..(n - 1) : p[i] = q[i + 1]
        /\ q[1] # "reset"
    BY <1>1, <2>1, TailFacts
  <2>3. t \in Workers /\ \A i \in 1..Len(p) : p[i] # "reset"
    BY <1>4 DEF Opened
  <2> HIDE DEF p, n
  <2>4. ASSUME NEW i \in 1..n PROVE q[i] # "reset"
    <3>1. CASE i = 1
      BY <2>2, <3>1
    <3>2. CASE i # 1
      <4>1. i - 1 \in 1..(n - 1) /\ q[(i - 1) + 1] = q[i]
        BY <2>2, <3>2
      <4> QED BY <2>2, <2>3, <4>1
    <3> QED BY <3>1, <3>2
  <2> QED BY <1>1, <2>3, <2>4 DEF Opened, n
<1> QED BY <1>2, <1>3, <1>4

\* DCE_FW_BOOT_DONE is set behind the channel's handshake.
LEMMA BootedStep ==
  ASSUME Inv, NEW t \in System, Interlock(t), Booted(t), Thread(t), UNCHANGED env
  PROVE  Booted(t)'
<1>1. /\ t \in Threads /\ Running(t) /\ ListedIn(Menu(t), todo[t]) /\ todo[t] \in Seq(CallNames) /\ todo[t] # <<>>
  BY Casting, Others DEF Inv, Shape, Typed, Running
<1>2. Head(todo[t]) = todo[t][1] /\ Len(todo[t]) \in Nat \ {0} /\ Head(todo[t]) \in Menu(t)
  BY <1>1, TailFacts, ListedTail
<1>3. CASE ChannelReady(t)
  BY <1>3 DEF ChannelReady, Booted, Ready
<1>4. CASE ChannelReset(t)
  <2>1. Head(todo[t]) = "reset" /\ UNCHANGED <<todo, boot_status>>
    BY <1>4 DEF ChannelReset, In, Goto
  <2>2. ~Opened(t)'
    BY <1>2, <2>1 DEF Opened
  <2>3. t \in Workers
    BY <1>2, <2>1 DEF Menu
  <2> QED BY <1>1, <2>1, <2>2, <2>3 DEF Interlock, Booted
<1>5. CASE BootDone(t)
  <2>1. Head(todo[t]) = "bootdone" /\ UNCHANGED <<fw, fwcmds, synced>>
    BY <1>5 DEF BootDone, In
  <2>2. t \in Workers
    BY <1>2, <2>1 DEF Menu
  <2>3. Len(todo[t]) = 1
    <3>1. Tail(todo[t]) = <<>> /\ Len(Tail(todo[t])) = Len(todo[t]) - 1
      BY <1>1, <2>1, ListedTail, TailFacts DEF Finals
    <3>2. \A q : q = <<>> => Len(q) = 0
      OBVIOUS
    <3>3. Len(Tail(todo[t])) = 0
      BY <3>1, <3>2, Zenon
    <3> QED BY <1>2, <3>1, <3>3
  <2>4. Opened(t)
    BY <1>1, <1>2, <2>1, <2>2, <2>3 DEF Opened
  <2> QED BY <2>1, <2>4 DEF Booted, Ready
<1>6. CASE ~ChannelReady(t) /\ ~ChannelReset(t) /\ ~BootDone(t)
  <2>1. UNCHANGED <<fw, fwcmds, synced>> /\ ("BOOT_DONE" \in boot_status' => "BOOT_DONE" \in boot_status)
    <3>1. Sc7Answered(t) \/ CmdsDone(t) =>
            UNCHANGED <<fw, fwcmds, synced>> /\ ("BOOT_DONE" \in boot_status' => "BOOT_DONE" \in boot_status)
      BY DEF Sc7Answered, CmdsDone
    <3>3. Inward(t) /\ ~Sc7Answered(t) /\ ~CmdsDone(t) => UNCHANGED <<fw, fwcmds, synced, boot_status>>
      BY <1>6 DEF Inward, BootCheck, NestedPost, NestedWake, NestedReset, Sc7NoMemory, ScheduleResume, Recheck,
         Consume, WaitReturns, BootAnswered, CmdAnswered, Post, Restore, driver
    <3>2. Outward(t) => UNCHANGED <<fw, fwcmds, synced, boot_status>>
      BY <1>6 DEF Outward, MailboxSend, AdminSend, Sc7Send, AdminAnswered, driver
    <3> QED BY <3>1, <3>3, <3>2, ThreadSteps
  <2>2. Opened(t)' => Opened(t)
    BY <1>6, OpenedStep
  <2> QED BY <2>1, <2>2 DEF Booted, Ready
<1> QED BY <1>3, <1>4, <1>5, <1>6

\* Every step of the workers and the suspend path.
LEMMA SystemStep ==
  ASSUME Inv, Guarded, Committed, NEW t \in System, Sole(t), NEW u \in System, Thread(u), UNCHANGED env
  PROVE  Sole(t)' /\ Committed'
<1>1. Running(u)
  BY Casting, Others DEF Inv
<1>2. u = t
  BY <1>1 DEF Sole, Interlock
<1> QED BY <1>2, LetterStep, UndecidedStep, EndingLocked, CommittedStep, BootedStep DEF Sole

-----------------------------------------------------------------------------
(* Clients.                                                                *)

\* What t waits for is as it was.
LEMMA KeepLetters ==
  ASSUME NEW t, Correspondence(t), Stamped(t), UNCHANGED <<env, boot_req, smb, rmb, isr, ack>>,
         Listed7' = Listed7, \A e \in Letters : complete'[e] = complete[e], todo'[t] = todo[t], pc'[t] = pc[t]
  PROVE  Correspondence(t)' /\ Stamped(t)'
<1>1. \A e \in Letters : /\ (Requested(e)' <=> Requested(e)) /\ (Mailed(e)' <=> Mailed(e))
                         /\ (Posting(e)' <=> Posting(e)) /\ (Waking(e)' <=> Waking(e))
                         /\ (Expects(t, e)' <=> Expects(t, e))
  BY DEF Requested, Mailed, Posting, Waking, Expects, Calling, Running, WaitOf
<1>2. Correspondence(t)'
  BY <1>1 DEF Correspondence, Posted, Underway
<1>3. Stamped(t)'
  <2>1. Acked \in Letters /\ Tag(t)' = Tag(t) /\ (Status(t)' <=> Status(t))
    BY DEF Acked, Letters, Tag, Status, Running
  <2> QED BY <1>1, <2>1 DEF Stamped
<1> QED BY <1>2, <1>3

\* The boot flag and the firmware are as they were.
LEMMA KeepBooted ==
  ASSUME NEW t, Booted(t), UNCHANGED <<env, boot_status, fwcmds, synced>>, todo'[t] = todo[t],
         fw' = fw \/ fw' # "off"
  PROVE  Booted(t)'
BY DEF Booted, Opened, Running, Ready

\* A client's step is one of an RPC: it leaves the mailbox and the boot alone.
LEMMA ClientMoves ==
  ASSUME Inv, NEW c \in Clients, Thread(c)
  PROVE  /\ UNCHANGED <<pm, boot_status, resume_work, boot_req, smb, rmb, isr, ack, fw, fwcmds, synced>>
         /\ Listed7' = Listed7 /\ \A e \in Letters : complete'[e] = complete[e]
         /\ \A u \in Threads \ {c} : todo'[u] = todo[u] /\ pc'[u] = pc[u] /\ Running(u)' = Running(u)
         /\ Running(c)
<1>1. /\ c \in Threads /\ Running(c) /\ PlacedAt(todo[c], pc[c]) /\ UNCHANGED pm
      /\ ListedIn(Menu(c), todo[c]) /\ todo[c] # <<>> /\ Menu(c) = {"admin"}
      /\ \A u \in Threads \ {c} : todo'[u] = todo[u] /\ pc'[u] = pc[u] /\ Running(u)' = Running(u)
  BY Casting, Others, MenuFacts DEF Inv, Shape, Running
<1>2. Head(todo[c]) = "admin"
  BY <1>1, ListedTail
<1>3. Calling(c) /\ WaitOf(c) = "ADMIN_IPC_MSG_RECEIVED" /\ WaitOf(c) \notin Letters
  <2>1. Calling(c)
    BY <1>1, <1>2 DEF Calling, Sends
  <2> QED BY <1>2, <2>1, SendFacts DEF Letters
<1>4. ~NestedReset(c)
  BY <1>1, <1>2 DEF NestedReset, PlacedAt
<1>5. Inward(c) => Post(c) \/ Restore(c) \/ Recheck(c) \/ Consume(c) \/ WaitReturns(c)
  BY <1>2, <1>4 DEF Inward, BootCheck, NestedPost, NestedWake, Sc7NoMemory, ScheduleResume,
     BootAnswered, CmdAnswered, Sc7Answered, CmdsDone, ChannelReset, BootDone, In
<1>6. Outward(c) => AdminSend(c) \/ AdminAnswered(c)
  BY <1>2 DEF Outward, MailboxSend, Sc7Send, ChannelReady, In
<1>7. UNCHANGED <<boot_status, resume_work, boot_req, smb, rmb, isr, ack, fw, fwcmds, synced>>
  BY <1>5, <1>6, ThreadSteps DEF Post, Restore, Recheck, Consume, WaitReturns, AdminSend, AdminAnswered,
     driver, mbox
<1>8. \A e \in Letters : complete'[e] = complete[e]
  <2>1. UNCHANGED complete \/ complete' = [complete EXCEPT ![WaitOf(c)] = FALSE]
    BY <1>5, <1>6, ThreadSteps DEF Post, Restore, Recheck, Consume, WaitReturns, AdminSend, AdminAnswered
  <2> QED BY <1>3, <2>1 DEF Inv, Control, Letters, Replies
<1>9. Listed7' = Listed7
  <2>1. UNCHANGED atx \/ atx' = Append(atx, Msg("admin", Tag(c)))
    BY <1>5, <1>6, ThreadSteps DEF Post, Restore, Recheck, Consume, WaitReturns, AdminSend, AdminAnswered,
       chan
  <2>2. CASE UNCHANGED atx
    BY <2>2 DEF Listed7
  <2>3. CASE atx' = Append(atx, Msg("admin", Tag(c)))
    BY <2>3, ListedFacts, MsgFacts DEF Inv
  <2> QED BY <2>1, <2>2, <2>3
<1> QED BY <1>1, <1>7, <1>8, <1>9

\* No client calls while the system is going to sleep, or waking up.
LEMMA ClientStep ==
  ASSUME Inv, Guarded, Committed, NEW t \in System, Sole(t), NEW c \in Clients, Thread(c), UNCHANGED env
  PROVE  Sole(t)' /\ Committed'
<1>1. /\ UNCHANGED <<pm, boot_status, resume_work, boot_req, smb, rmb, isr, ack, fw, fwcmds, synced>>
      /\ Listed7' = Listed7 /\ \A e \in Letters : complete'[e] = complete[e]
      /\ \A u \in Threads \ {c} : todo'[u] = todo[u] /\ pc'[u] = pc[u] /\ Running(u)' = Running(u)
      /\ Running(c)
  BY ClientMoves
<1>2. System \subseteq Threads \ {c} /\ "pm" \in System /\ pm = "awake"
  BY <1>1, Casting DEF Sole, Interlock
<1>3. todo["pm"] = <<>>
  <2>1. ListedIn({}, todo["pm"])
    BY <1>2, Casting DEF Inv, Shape, Menu
  <2> QED BY <2>1, NoCalls
<1>4. Interlock(t)'
  <2>1. \A u \in System : Running(u)' = Running(u)
    BY <1>1, <1>2
  <2> QED BY <1>1, <1>2, <2>1 DEF Sole, Interlock, Asleep
<1>5. Correspondence(t)' /\ Stamped(t)'
  <2>1. todo'[t] = todo[t] /\ pc'[t] = pc[t]
    BY <1>1, <1>2
  <2> QED BY <1>1, <2>1, KeepLetters DEF Sole
<1>6. Booted(t)'
  BY <1>1, <1>2, KeepBooted DEF Sole
<1>7. Committed'
  BY <1>1, <1>2, <1>3 DEF Committed, Running
<1> QED BY <1>4, <1>5, <1>6, <1>7 DEF Sole

-----------------------------------------------------------------------------
(* Work, clients and system suspend.                                       *)

\* When t does not run, neither worker nor suspend path does, and nothing is under way.
LEMMA Unoccupied ==
  ASSUME Inv, NEW t \in System, Sole(t), ~Running(t)
  PROVE  /\ \A u \in System : ~Running(u) /\ pc[u] \in {"post", "failed"}
         /\ Hushed
<1>1. \A u \in System : ~Running(u) /\ pc[u] \in {"post", "failed"}
  BY Casting DEF Sole, Interlock, Inv, Shape, PlacedAt, Running
<1>2. Hushed
  BY <1>1, Hushes DEF Sole
<1> QED BY <1>1, <1>2

\* One of them starts.
LEMMA Begun ==
  ASSUME Inv, NEW t \in System, Sole(t), ~Running(t), NEW u \in System, NEW q, Start(u, q), Hushed'
  PROVE  /\ Correspondence(u)' /\ Stamped(u)' /\ todo'[u] = q /\ pc'[u] = "post"
         /\ \A v \in System \ {u} : ~Running(v)'
         /\ \A v \in Threads \ {u} : todo'[v] = todo[v] /\ pc'[v] = pc[v]
<1>1. u \in Threads /\ Typed /\ \A v \in System : ~Running(v) /\ v \in Threads
  BY Unoccupied, Casting DEF Inv, Shape
<1>2. /\ todo'[u] = q /\ pc'[u] = "post"
      /\ \A v \in Threads \ {u} : todo'[v] = todo[v] /\ pc'[v] = pc[v]
  BY <1>1 DEF Start, Typed
<1>3. ~Underway(Acked)' /\ ~complete'[Acked] /\ ~Status(u)'
  BY <1>2 DEF Hushed, Letters, Acked, Status
<1>4. Correspondence(u)' /\ Stamped(u)'
  BY <1>3, Unposted, Unstamped
<1> QED BY <1>1, <1>2, <1>4 DEF Running

\* A step that leaves the mailbox alone leaves it at rest.
LEMMA HushedStill == ASSUME Hushed, UNCHANGED <<chan, mbox, isr, complete>> PROVE Hushed'
<1>1. UNCHANGED <<atx, boot_req, smb, rmb, isr, complete>>
  BY DEF chan, mbox
<1>2. Listed7' \subseteq Listed7
  BY <1>1 DEF Listed7
<1> QED BY <1>1, <1>2, StillHushed

\* A boot flow has the handshake of the channel before it.
LEMMA FlowResets ==
  /\ \E i \in 1..Len(BootFlow) : BootFlow[i] = "reset"
  /\ \E i \in 1..Len(<<"start">> \o BootFlow) : (<<"start">> \o BootFlow)[i] = "reset"
<1> DEFINE a == <<"boot">> \o Calls("cmd", NCmds)
           b == a \o <<"cmdsdone", "reset">>
           c == b \o Calls("admin", NAdmin)
           n == NCmds
<1>1. n \in Nat /\ NAdmin \in Nat
  BY DceAssumption
<1>2. Calls("cmd", NCmds) \in Seq(CallNames) /\ Len(Calls("cmd", NCmds)) = n
  BY <1>1 DEF Calls, CallNames
<1>3. Calls("admin", NAdmin) \in Seq(CallNames) /\ Len(Calls("admin", NAdmin)) = NAdmin
  BY <1>1 DEF Calls, CallNames
<1>4. {<<"boot">>, <<"start">>, <<"bootdone">>, <<"cmdsdone", "reset">>} \subseteq Seq(CallNames)
  BY DEF CallNames
<1> HIDE DEF n
<1>5. a \in Seq(CallNames) /\ Len(a) = n + 1
  BY <1>1, <1>2, <1>4, ConcatProperties
<1> HIDE DEF a
<1>6. b \in Seq(CallNames) /\ Len(b) = n + 3 /\ b[n + 3] = "reset"
  BY <1>1, <1>4, <1>5, ConcatProperties
<1> HIDE DEF b
<1> DEFINE r == Calls("admin", NAdmin)
<1>7. c \in Seq(CallNames) /\ Len(c) = n + 3 + NAdmin /\ c[n + 3] = "reset"
  <2>1. /\ b \o r \in Seq(CallNames) /\ Len(b \o r) = Len(b) + Len(r)
        /\ \A i \in 1..(Len(b) + Len(r)) : (b \o r)[i] = IF i <= Len(b) THEN b[i] ELSE r[i - Len(b)]
    BY <1>3, <1>6, ConcatProperties
  <2>2. n + 3 \in 1..(Len(b) + Len(r)) /\ n + 3 <= Len(b) /\ Len(r) = NAdmin
    BY <1>1, <1>3, <1>6
  <2>3. (b \o r)[n + 3] = "reset"
    BY <1>6, <2>1, <2>2
  <2> QED BY <1>6, <2>1, <2>2, <2>3
<1> HIDE DEF c
<1>8. BootFlow = c \o <<"bootdone">>
  BY DEF BootFlow, a, b, c
<1>9. BootFlow \in Seq(CallNames) /\ Len(BootFlow) = n + 4 + NAdmin /\ BootFlow[n + 3] = "reset"
  <2> DEFINE d == <<"bootdone">>
  <2>1. /\ c \o d \in Seq(CallNames) /\ Len(c \o d) = Len(c) + 1
        /\ \A i \in 1..(Len(c) + 1) : (c \o d)[i] = IF i <= Len(c) THEN c[i] ELSE d[i - Len(c)]
    BY <1>4, <1>7, ConcatProperties
  <2>2. n + 3 \in 1..(Len(c) + 1) /\ n + 3 <= Len(c) /\ Len(c) + 1 = n + 4 + NAdmin
    BY <1>1, <1>7
  <2> QED BY <1>7, <1>8, <2>1, <2>2
<1>10. Len(<<"start">> \o BootFlow) = n + 5 + NAdmin /\ (<<"start">> \o BootFlow)[n + 4] = "reset"
  BY <1>1, <1>4, <1>9, ConcatProperties
<1>11. n + 3 \in 1..(n + 4 + NAdmin) /\ n + 4 \in 1..(n + 5 + NAdmin)
  BY <1>1
<1> QED BY <1>9, <1>10, <1>11

\* The resume work starts when the worker has been idle; the suspend path is, too.
LEMMA StartResumeSole ==
  ASSUME Inv, Guarded, Committed, NEW t \in System, Sole(t), StartResume, UNCHANGED env
  PROVE  Sole("resume")' /\ Committed'
<1>1. /\ "resume" \in System /\ "resume" \in Workers /\ Start("resume", BootFlow) /\ resume_work /\ ~resume_work'
      /\ UNCHANGED <<boot_status, pm, c_state>> /\ UNCHANGED <<chan, mbox, isr, complete>> /\ "resume" # "pm"
      /\ System \subseteq Threads /\ Clients \subseteq Threads \ {"resume"} /\ "pm" \in System
  BY Casting DEF StartResume, System, Workers, caller
<1>2. ~Running(t) /\ pm \notin {"entering", "entered"} /\ "BOOT_DONE" \notin boot_status
  BY <1>1 DEF Sole, Interlock
<1>3. Hushed'
  BY <1>1, <1>2, Unoccupied, HushedStill
<1>4. /\ Correspondence("resume")' /\ Stamped("resume")' /\ todo'["resume"] = BootFlow
      /\ \A v \in System \ {"resume"} : ~Running(v)'
      /\ \A v \in Threads \ {"resume"} : todo'[v] = todo[v] /\ pc'[v] = pc[v]
  BY <1>1, <1>2, <1>3, Begun
<1>5. pm # "awake" => \A c \in Clients : ~Running(c)'
  BY <1>1, <1>4 DEF Sole, Interlock, Running
<1>6. Interlock("resume")'
  BY <1>1, <1>2, <1>4, <1>5 DEF Interlock, Asleep
<1>7. Booted("resume")'
  BY <1>1, <1>2, <1>4, FlowResets DEF Booted, Opened
<1>8. Committed'
  BY <1>1, <1>4 DEF Committed
<1> QED BY <1>4, <1>6, <1>7, <1>8 DEF Sole

\* A client calls, but not in a suspend.
LEMMA CallAdminSole ==
  ASSUME Inv, Guarded, Committed, NEW t \in System, Sole(t), NEW c \in Clients, ClientCalls(c), UNCHANGED env
  PROVE  Sole(t)' /\ Committed'
<1>1. /\ Start(c, Calls("admin", NRpc)) /\ pm = "awake" /\ c \in Threads
      /\ System \subseteq Threads \ {c} /\ "pm" \in System
      /\ UNCHANGED <<pm, boot_status, resume_work, boot_req, smb, rmb, isr, ack, fw, fwcmds, synced>>
      /\ UNCHANGED <<atx, complete, c_state>>
  BY Casting DEF ClientCalls, CallAdmin, driver, chan, mbox
<1>2. \A u \in System : todo'[u] = todo[u] /\ pc'[u] = pc[u]
  BY <1>1 DEF Start, Inv, Shape, Typed
<1>3. \A u \in System : Running(u)' = Running(u)
  BY <1>2 DEF Running
<1>4. todo["pm"] = <<>>
  <2>1. ListedIn({}, todo["pm"])
    BY <1>1, Casting DEF Inv, Shape, Menu
  <2> QED BY <2>1, NoCalls
<1>5. Interlock(t)'
  BY <1>1, <1>3 DEF Sole, Interlock, Asleep
<1>6. Correspondence(t)' /\ Stamped(t)'
  BY <1>1, <1>2, KeepLetters DEF Sole, Listed7
<1>7. Booted(t)'
  BY <1>1, <1>2, KeepBooted DEF Sole
<1>8. Committed'
  BY <1>1, <1>2, <1>4 DEF Committed, Running
<1> QED BY <1>5, <1>6, <1>7, <1>8 DEF Sole

\* A suspend begins when the clients are frozen and the engine is booted.
LEMMA EnterSc7Sole ==
  ASSUME Inv, Guarded, Committed, NEW t \in System, Sole(t), EnterSc7, UNCHANGED env
  PROVE  Sole("pm")' /\ Committed'
<1>1. /\ "pm" \in System /\ "pm" \notin Workers /\ Start("pm", <<"admin", "sc7">>)
      /\ pm = "awake" /\ pm' = "entering" /\ "BOOT_DONE" \in boot_status /\ \A c \in Clients : ~Running(c)
      /\ UNCHANGED <<boot_status, resume_work, fw, fwcmds, synced>> /\ UNCHANGED <<chan, mbox, isr, complete>>
      /\ System \subseteq Threads /\ Clients \subseteq Threads \ {"pm"}
  BY Casting DEF EnterSc7, driver, Guarded
<1>2. todo["pm"] = <<>>
  <2>1. ListedIn({}, todo["pm"])
    BY <1>1 DEF Inv, Shape, Menu
  <2> QED BY <2>1, NoCalls
<1>3. ~Running(t) /\ ~resume_work
  BY <1>1, <1>2 DEF Sole, Interlock, Running, System
<1>4. Hushed'
  BY <1>1, <1>3, Unoccupied, HushedStill
<1>5. /\ Correspondence("pm")' /\ Stamped("pm")' /\ todo'["pm"] = <<"admin", "sc7">> /\ pc'["pm"] = "post"
      /\ \A v \in System \ {"pm"} : ~Running(v)'
      /\ \A v \in Threads \ {"pm"} : todo'[v] = todo[v] /\ pc'[v] = pc[v]
  BY <1>1, <1>3, <1>4, Begun
<1>6. Running("pm")' /\ \A c \in Clients : ~Running(c)'
  BY <1>1, <1>5 DEF Running
<1>7. Interlock("pm")'
  BY <1>1, <1>3, <1>5, <1>6 DEF Interlock, Asleep
<1>8. Booted("pm")'
  BY <1>1 DEF Sole, Booted, Ready
<1>9. Committed'
  BY <1>5 DEF Committed
<1> QED BY <1>5, <1>7, <1>8, <1>9 DEF Sole

\* The system sleeps with nothing in the mailbox, and the engine not booted.
LEMMA SleepSole ==
  ASSUME Inv, Guarded, Committed, NEW t \in System, Sole(t), SleepAndWake, UNCHANGED env
  PROVE  Sole("pm")' /\ Committed'
<1>1. /\ "pm" \in System /\ "pm" \notin Workers /\ Start("pm", <<"exit">>)
      /\ pm = "entered" /\ pm' = "exiting" /\ UNCHANGED <<boot_status, resume_work, c_state, isr, atx, complete>>
      /\ rmb' = NoMsg /\ smb' = NoMsg /\ ~boot_req'
      /\ System \subseteq Threads /\ Clients \subseteq Threads \ {"pm"} /\ Threads = System \cup Clients
  BY Casting DEF SleepAndWake, driver
<1>2. todo["pm"] = <<>>
  <2>1. ListedIn({}, todo["pm"])
    BY <1>1 DEF Inv, Shape, Menu
  <2> QED BY <2>1, NoCalls
<1>3. ~Running(t) /\ ~resume_work
  BY <1>1, <1>2 DEF Sole, Interlock, Running
<1>4. Hushed'
  BY <1>1, <1>3, Unoccupied DEF Hushed, Underway, Requested, Mailed, Posting, Waking, Listed7
<1>5. /\ Correspondence("pm")' /\ Stamped("pm")' /\ todo'["pm"] = <<"exit">> /\ pc'["pm"] = "post"
      /\ \A v \in System \ {"pm"} : ~Running(v)'
      /\ \A v \in Threads \ {"pm"} : todo'[v] = todo[v] /\ pc'[v] = pc[v]
  BY <1>1, <1>3, <1>4, Begun
<1>6. \A c \in Clients : ~Running(c)'
  BY <1>1, <1>5 DEF Sole, Interlock, Running
<1>7. "BOOT_DONE" \notin boot_status \/ Stranded
  BY <1>1 DEF Sole, Interlock, Asleep
<1>8. Stranded => Stranded'
  BY <1>1, <1>5 DEF Stranded
<1>9. "BOOT_DONE" \in boot_status => ~resume_work
  BY <1>3
<1>10. Interlock("pm")'
  BY <1>1, <1>3, <1>5, <1>6, <1>7, <1>8 DEF Interlock
<1>11. Booted("pm")'
  BY <1>1, <1>7 DEF Booted, Opened, Stranded
<1>12. Committed'
  BY <1>5 DEF Committed
<1> QED BY <1>5, <1>10, <1>11, <1>12 DEF Sole

\* The suspend path returns.
LEMMA ReturnSole ==
  ASSUME Inv, Guarded, Committed, NEW t \in System, Sole(t), Sc7Entered \/ Resumed, UNCHANGED env
  PROVE  Sole(t)' /\ Committed'
<1>1. /\ UNCHANGED <<c_state, todo, pc, boot_status, resume_work, complete, isr, ack, synced, fw, fwcmds>>
      /\ UNCHANGED <<smb, rmb, boot_req, atx>> /\ "pm" \in System
  BY Casting DEF Sc7Entered, Resumed, driver, chan, mbox
<1>2. Stranded' <=> Stranded
  BY <1>1 DEF Stranded
<1>3. \A u \in Threads : Running(u)' <=> Running(u)
  BY <1>1 DEF Running
<1>4. Correspondence(t)' /\ Stamped(t)' /\ Booted(t)' /\ Committed'
  <2>1. Correspondence(t)' /\ Stamped(t)'
    BY <1>1, KeepLetters DEF Sole, Listed7
  <2>2. Booted(t)'
    BY <1>1, KeepBooted DEF Sole
  <2> QED BY <1>1, <2>1, <2>2 DEF Committed, Running
<1>5. CASE Sc7Entered
  <2>1. /\ pm = "entering" /\ ~Running("pm")
        /\ pm' = IF pc["pm"] = "failed" THEN "awake" ELSE "entered"
    BY <1>5 DEF Sc7Entered
  <2>2. pm' = "entered" => "BOOT_DONE" \notin boot_status \/ Stranded
    BY <2>1 DEF Sole, Interlock, Asleep
  <2>3. Interlock(t)'
    BY <1>1, <1>2, <1>3, <2>1, <2>2, Casting DEF Sole, Interlock, Asleep
  <2> QED BY <1>4, <2>3 DEF Sole
<1>6. CASE Resumed
  <2>1. pm' = "awake"
    BY <1>6 DEF Resumed
  <2>2. Interlock(t)'
    BY <1>1, <1>3, <2>1, Casting DEF Sole, Interlock, Asleep
  <2> QED BY <1>4, <2>2 DEF Sole
<1> QED BY <1>5, <1>6

-----------------------------------------------------------------------------
(* The interrupt thread and the firmware: the threads stay where they are. *)

Quietly == UNCHANGED <<env, todo, pc, pm, boot_status, resume_work, synced>>

\* What is said of the threads is the same.
LEMMA StillSole ==
  ASSUME Quietly, NEW t \in System, Interlock(t), Booted(t), "BOOT_DONE" \in boot_status /\ Stranded => Stranded',
         fw' # "off" \/ UNCHANGED fw, fwcmds' = fwcmds \/ (fwcmds # NCmds)
  PROVE  /\ Interlock(t)' /\ Booted(t)' /\ Tag(t)' = Tag(t) /\ (Status(t)' <=> Status(t))
         /\ \A e : Expects(t, e)' <=> Expects(t, e)
<1>1. \A u : Running(u)' <=> Running(u)
  BY DEF Quietly, Running
<1>2. Interlock(t)'
  BY <1>1 DEF Quietly, Interlock, Asleep
<1>3. Booted(t)'
  BY <1>1 DEF Quietly, Booted, Opened, Ready
<1>4. \A e : Expects(t, e)' <=> Expects(t, e)
  BY <1>1 DEF Quietly, Expects, Calling, WaitOf
<1> QED BY <1>1, <1>2, <1>3, <1>4 DEF Quietly, Tag, Status

\* A letter goes one step on its way, or is dropped.
LEMMA Forwarded ==
  ASSUME NEW t, Correspondence(t), UNCHANGED <<complete, pc>>, \A e : Expects(t, e)' <=> Expects(t, e),
         \A i, k \in Listed7' : i = k, \A e \in Letters : Underway(e)' => Underway(e),
         \A e \in Letters : /\ Requested(e)' => ~Mailed(e)' /\ ~Posting(e)' /\ ~Waking(e)'
                            /\ Mailed(e)' => ~Posting(e)' /\ ~Waking(e)'
  PROVE  Correspondence(t)'
BY DEF Correspondence, Posted

\* Where a letter is under way, t waits for it, and has no other.
LEMMA Awaited ==
  ASSUME NEW t, Correspondence(t), NEW e \in Letters, Underway(e)
  PROVE  /\ Expects(t, e) /\ pc[t] = "wait" /\ ~complete[e]
         /\ \A f \in Letters : Underway(f) \/ complete[f] => f = e
BY DEF Correspondence, Posted, Expects

\* The thread takes what the boot mailbox holds: the status it stores is that of the
\* command it is for.
LEMMA IsrMailboxSole ==
  ASSUME Inv, FaultFree, Guarded, Committed, NEW t \in System, Sole(t), IsrMailbox, UNCHANGED env
  PROVE  Sole(t)' /\ Committed'
<1>1. /\ Quietly /\ UNCHANGED <<c_state, complete, atx, smb, boot_req, fw, fwcmds, pc>> /\ isr.step = "off"
      /\ rmb # NoMsg /\ rmb' = NoMsg /\ ack' = rmb /\ isr' = [step |-> "post", event |-> EventFor(rmb.kind)]
  BY DEF IsrMailbox, Quietly, caller, chan
<1>2. Stranded' <=> Stranded
  BY <1>1 DEF Stranded, Quietly
<1>3. /\ Interlock(t)' /\ Booted(t)' /\ Tag(t)' = Tag(t) /\ (Status(t)' <=> Status(t))
      /\ \A e : Expects(t, e)' <=> Expects(t, e)
  BY <1>1, <1>2, StillSole DEF Sole
<1>4. Committed'
  BY <1>1 DEF Committed, Quietly, Running
<1> DEFINE g == EventFor(rmb.kind)
<1>5. rmb \in Messages({"ready", "sc7", "abort", "ack", "err"}) /\ isr'.step = "post" /\ isr'.event = g
  BY <1>1 DEF Inv, Mail, Boxed
<1>6. \A e \in Letters : /\ (Requested(e)' <=> Requested(e)) /\ ~Mailed(e)' /\ ~Waking(e)'
                         /\ (Posting(e)' <=> Mailed(e)) /\ ~Posting(e)
  BY <1>1, <1>5 DEF Requested, Listed7, Mailed, Posting, Waking
<1>7. Correspondence(t)'
  <2>1. \A e \in Letters : Underway(e)' => Underway(e)
    BY <1>6 DEF Underway
  <2>2. \A e \in Letters : Requested(e)' => ~Posting(e)'
    BY <1>6 DEF Sole, Correspondence, Posted
  <2>3. \A i, k \in Listed7' : i = k
    BY <1>1 DEF Sole, Correspondence, Listed7
  <2> QED BY <1>1, <1>3, <1>6, <2>1, <2>2, <2>3, Forwarded DEF Sole
<1>8. ASSUME "faults" \notin env PROVE g \in Letters /\ (g = Acked => rmb.kind = "ack")
  <2>1. rmb.kind \in {"ready", "sc7", "ack"}
    BY <1>5, <1>8, MsgFacts DEF FaultFree
  <2>2. CASE rmb.kind = "ready"
    BY <2>2, ReplyNames DEF Letters, Acked
  <2>3. CASE rmb.kind = "sc7"
    BY <2>3, ReplyNames DEF Letters, Acked
  <2>4. CASE rmb.kind = "ack"
    BY <2>4, ReplyNames DEF Letters, Acked
  <2> QED BY <2>1, <2>2, <2>3, <2>4
<1>9. ASSUME "faults" \notin env PROVE pc[t] = "wait" /\ (complete[Acked] => g = Acked) /\ ~complete[g]
  <2>1. g \in Letters /\ Underway(g) /\ Acked \in Letters
    BY <1>1, <1>8, <1>9 DEF Underway, Mailed, Letters, Acked
  <2> QED BY <2>1, Awaited DEF Sole
<1>10. Stamped(t)'
  <2> SUFFICES ASSUME "faults" \notin env
               PROVE  /\ smb' # NoMsg => smb'.tag = Tag(t)
                      /\ rmb'.kind # "ack"
                      /\ Posting(Acked)' \/ Waking(Acked)' \/ complete'[Acked] \/ Status(t) => ack'.tag = Tag(t)
    BY <1>1, <1>3 DEF Stamped, Quietly
  <2>1. ~Status(t) /\ ~complete[Acked]
    BY <1>9 DEF Status
  <2>2. Posting(Acked)' => ack'.tag = Tag(t)
    BY <1>1, <1>5, <1>8 DEF Posting, Sole, Stamped
  <2> QED BY <1>1, <1>5, <2>1, <2>2, MsgFacts DEF Sole, Stamped, Waking
<1> QED BY <1>3, <1>4, <1>7, <1>10 DEF Sole

\* It takes a doorbell of the admin channel.
LEMMA IsrAdminSole ==
  ASSUME Inv, FaultFree, Guarded, Committed, NEW t \in System, Sole(t), IsrAdmin, UNCHANGED env
  PROVE  Sole(t)' /\ Committed'
<1>1. /\ Quietly /\ UNCHANGED <<c_state, complete, atx, smb, rmb, boot_req, fw, fwcmds, pc, ack>> /\ isr.step = "off"
      /\ isr' = isr \/ isr' = [step |-> "post", event |-> "ADMIN_IPC_MSG_RECEIVED"]
  BY DEF IsrAdmin, Quietly, caller, driver, mbox
<1>2. Stranded' <=> Stranded
  BY <1>1 DEF Stranded, Quietly
<1>3. /\ Interlock(t)' /\ Booted(t)' /\ Tag(t)' = Tag(t) /\ (Status(t)' <=> Status(t))
      /\ \A e : Expects(t, e)' <=> Expects(t, e)
  BY <1>1, <1>2, StillSole DEF Sole
<1>4. Committed'
  BY <1>1 DEF Committed, Quietly, Running
<1>5. \A e \in Letters : /\ (Requested(e)' <=> Requested(e)) /\ (Mailed(e)' <=> Mailed(e))
                         /\ ~Posting(e)' /\ ~Waking(e)'
  BY <1>1 DEF Requested, Listed7, Mailed, Posting, Waking, Letters
<1>6. Correspondence(t)'
  <2>1. \A e \in Letters : Underway(e)' => Underway(e)
    BY <1>5 DEF Underway
  <2>2. \A e \in Letters : Requested(e)' => ~Mailed(e)'
    BY <1>5 DEF Sole, Correspondence, Posted
  <2>3. \A i, k \in Listed7' : i = k
    BY <1>1 DEF Sole, Correspondence, Listed7
  <2> QED BY <1>1, <1>3, <1>5, <2>1, <2>2, <2>3, Forwarded DEF Sole
<1>7. Stamped(t)'
  <2>1. ~Posting(Acked)' /\ ~Waking(Acked)'
    BY <1>5 DEF Letters, Acked
  <2> QED BY <1>1, <1>3, <2>1 DEF Sole, Stamped, Quietly
<1> QED BY <1>3, <1>4, <1>6, <1>7 DEF Sole

\* It posts what it has been told.  No reply but its own takes the machine out of an
\* SC7 entry, and without faults no abort does.
LEMMA IsrPostSole ==
  ASSUME Inv, FaultFree, Guarded, Committed, NEW t \in System, Sole(t), IsrPost, UNCHANGED env
  PROVE  Sole(t)' /\ Committed'
<1> DEFINE g == isr.event
<1>1. /\ Quietly /\ UNCHANGED <<complete, atx, smb, rmb, boot_req, fw, fwcmds, pc, ack>> /\ isr.step = "post"
      /\ isr' \in {[step |-> "off", event |-> "none"], [isr EXCEPT !.step = "wake"]}
      /\ (c_state' # c_state => Accepted(c_state, g))
  BY DEF IsrPost, Quietly, caller, driver, mbox, chan
<1>2. /\ isr'.step \in {"off", "wake"} /\ (isr'.step = "wake" => isr'.event = g)
  BY <1>1 DEF Inv, Interrupt
<1>3. ASSUME "faults" \notin env, c_state = "SC7_ENTER_WFI", c_state' # c_state
      PROVE  Expects(t, "SC7_ENTERED_RECEIVED") /\ pc[t] = "wait"
  <2>1. g = "SC7_ENTERED_RECEIVED"
    <3>1. g \in {"SC7_ENTERED_RECEIVED", "ABORT_RECEIVED"}
      BY <1>1, <1>3, Names DEF Accepted, Waiting
    <3> QED BY <1>3, <3>1 DEF FaultFree
  <2>2. Underway("SC7_ENTERED_RECEIVED") /\ "SC7_ENTERED_RECEIVED" \in Letters
    BY <1>1, <2>1 DEF Underway, Posting, Letters
  <2> QED BY <2>2, Awaited DEF Sole
<1>4. Stranded => Stranded'
  <2>1. Stranded => UNCHANGED c_state
    BY <1>3, Casting DEF Stranded, Guarded
  <2> QED BY <1>1, <2>1 DEF Stranded, Quietly
<1>5. /\ Interlock(t)' /\ Booted(t)' /\ Tag(t)' = Tag(t) /\ (Status(t)' <=> Status(t))
      /\ \A e : Expects(t, e)' <=> Expects(t, e)
  BY <1>1, <1>4, StillSole DEF Sole
<1>6. Committed'
  <2>1. SUFFICES ASSUME "faults" \notin env, Running("pm"), pc["pm"] = "callback", Head(todo["pm"]) = "sc7"
                 PROVE  c_state' = "SC7_ENTER_WFI"
    BY <1>1 DEF Committed, Quietly, Running
  <2>2. t = "pm" /\ c_state = "SC7_ENTER_WFI"
    BY <2>1, Casting DEF Sole, Interlock, Committed
  <2> QED BY <1>3, <2>1, <2>2
<1>7. \A e \in Letters : /\ (Requested(e)' <=> Requested(e)) /\ (Mailed(e)' <=> Mailed(e))
                         /\ ~Posting(e)' /\ (Waking(e)' => Posting(e))
  BY <1>1, <1>2 DEF Requested, Listed7, Mailed, Posting, Waking
<1>8. Correspondence(t)'
  <2>1. \A e \in Letters : Underway(e)' => Underway(e)
    BY <1>7 DEF Underway
  <2>2. \A e \in Letters : /\ Requested(e)' => ~Mailed(e)' /\ ~Waking(e)'
                           /\ Mailed(e)' => ~Waking(e)'
    BY <1>7 DEF Sole, Correspondence, Posted
  <2>3. \A i, k \in Listed7' : i = k
    BY <1>1 DEF Sole, Correspondence, Listed7
  <2> QED BY <1>1, <1>5, <1>7, <2>1, <2>2, <2>3, Forwarded DEF Sole
<1>9. Stamped(t)'
  <2>1. ~Posting(Acked)' /\ (Waking(Acked)' => Posting(Acked))
    BY <1>7 DEF Letters, Acked
  <2> QED BY <1>1, <1>5, <2>1 DEF Sole, Stamped, Quietly
<1> QED BY <1>5, <1>6, <1>8, <1>9 DEF Sole

\* It wakes the thread that waits.
LEMMA IsrWakeSole ==
  ASSUME Inv, FaultFree, Guarded, Committed, NEW t \in System, Sole(t), IsrWake, UNCHANGED env
  PROVE  Sole(t)' /\ Committed'
<1> DEFINE g == isr.event
<1>1. /\ Quietly /\ UNCHANGED <<c_state, atx, smb, rmb, boot_req, fw, fwcmds, pc, ack>> /\ isr.step = "wake"
      /\ isr' = [step |-> "off", event |-> "none"] /\ complete' = [complete EXCEPT ![g] = TRUE]
      /\ g \in Replies /\ complete \in [Replies -> BOOLEAN]
  BY DEF IsrWake, Quietly, caller, driver, mbox, chan, Inv, Interrupt, Control
<1>2. Stranded' <=> Stranded
  BY <1>1 DEF Stranded, Quietly
<1>3. /\ Interlock(t)' /\ Booted(t)' /\ Tag(t)' = Tag(t) /\ (Status(t)' <=> Status(t))
      /\ \A e : Expects(t, e)' <=> Expects(t, e)
  BY <1>1, <1>2, StillSole DEF Sole
<1>4. Committed'
  BY <1>1 DEF Committed, Quietly, Running
<1>5. \A e \in Letters : /\ (Requested(e)' <=> Requested(e)) /\ (Mailed(e)' <=> Mailed(e))
                         /\ ~Posting(e)' /\ ~Waking(e)' /\ ~Posting(e) /\ (Waking(e) <=> e = g)
                         /\ (complete'[e] <=> complete[e] \/ e = g)
  BY <1>1 DEF Requested, Listed7, Mailed, Posting, Waking, Letters, Replies
<1>6. \A i, k \in Listed7' : i = k
  BY <1>1 DEF Sole, Correspondence, Listed7
<1>7. \A e \in Letters : Posted(t, e)'
  <2> TAKE e \in Letters
  <2>1. Posted(t, e) /\ (g \in Letters => Underway(g))
    BY <1>1 DEF Sole, Correspondence, Underway, Waking
  <2>2. CASE g \in Letters
    <3>1. Expects(t, g) /\ pc[t] = "wait" /\ ~complete[g] /\ (Underway(e) \/ complete[e] => e = g)
      BY <2>1, <2>2, Awaited DEF Sole
    <3>2. ~Requested(g) /\ ~Mailed(g)
      BY <1>5, <2>2 DEF Sole, Correspondence, Posted
    <3>3. ~Underway(e)' /\ (complete'[e] => e = g)
      BY <1>5, <3>1, <3>2 DEF Underway
    <3> QED BY <1>1, <1>3, <3>1, <3>3 DEF Posted, Underway
  <2>3. CASE g \notin Letters
    <3>1. e # g /\ complete'[e] = complete[e] /\ (Underway(e)' => Underway(e))
      BY <1>1, <1>5, <2>3 DEF Underway, Letters, Replies
    <3> QED BY <1>1, <1>3, <1>5, <2>1, <3>1 DEF Posted
  <2> QED BY <2>2, <2>3
<1>8. Stamped(t)'
  <2>1. ~Posting(Acked)' /\ ~Waking(Acked)' /\ (complete'[Acked] => complete[Acked] \/ Waking(Acked))
    BY <1>5 DEF Letters, Acked
  <2> QED BY <1>1, <1>3, <2>1 DEF Sole, Stamped, Quietly
<1> QED BY <1>3, <1>4, <1>6, <1>7, <1>8 DEF Sole, Correspondence

\* The firmware comes up, or takes a letter, or gives up.
LEMMA FwBoxSole ==
  ASSUME Inv, Guarded, Committed, NEW t \in System, Sole(t),
         FwBoot \/ FwReady \/ FwCommand("ack") \/ FwRefuse \/ FwAbort, UNCHANGED env
  PROVE  Sole(t)' /\ Committed'
<1>1. /\ Quietly /\ UNCHANGED <<c_state, complete, atx, isr, ack, pc>> /\ (fw' # "off" \/ UNCHANGED fw)
      /\ (smb' = smb \/ smb' = NoMsg) /\ (boot_req' = boot_req \/ ~boot_req')
  BY DEF FwBoot, FwReady, FwCommand, FwRefuse, FwAbort, Quietly, caller, driver, chan, mbox
<1>2. fwcmds' = fwcmds \/ fwcmds # NCmds
  <2>1. ASSUME NEW kind, FwCommand(kind) PROVE fwcmds' = fwcmds \/ fwcmds # NCmds
    <3>1. fwcmds \in 0..NCmds /\ NCmds \in Nat
      BY DceAssumption DEF Inv, Control
    <3> QED BY <2>1, <3>1 DEF FwCommand
  <2> QED BY <2>1 DEF FwBoot, FwReady, FwRefuse, FwAbort
<1>3. Stranded' <=> Stranded
  BY <1>1 DEF Stranded, Quietly
<1>4. /\ Interlock(t)' /\ Booted(t)' /\ Tag(t)' = Tag(t) /\ (Status(t)' <=> Status(t))
      /\ \A e : Expects(t, e)' <=> Expects(t, e)
  BY <1>1, <1>2, <1>3, StillSole DEF Sole
<1>5. Committed'
  BY <1>1 DEF Committed, Quietly, Running
<1> DEFINE Taken(e) == Requested(e) /\ ~Requested(e)' /\ rmb = NoMsg /\ EventFor(rmb'.kind) = e
<1>6. \/ UNCHANGED rmb
      \/ rmb = NoMsg /\ \E e \in Letters : Taken(e)
      \/ rmb = NoMsg /\ EventFor(rmb'.kind) = "ABORT_RECEIVED"
  <2>1. CASE FwBoot
    BY <2>1 DEF FwBoot, mbox
  <2>2. CASE FwReady
    <3>1. rmb = NoMsg /\ rmb'.kind = "ready" /\ boot_req /\ ~boot_req'
      BY <2>2, MsgFacts DEF FwReady, IrqMsg
    <3>2. Taken("BOOT_COMPLETE_RECEIVED") /\ "BOOT_COMPLETE_RECEIVED" \in Letters
      BY <3>1, ReplyNames DEF Requested, Letters
    <3> QED BY <3>1, <3>2
  <2>3. CASE FwCommand("ack") \/ FwRefuse
    <3>1. rmb = NoMsg /\ rmb'.kind \in {"ack", "err"} /\ smb # NoMsg /\ smb' = NoMsg
      BY <2>3, MsgFacts DEF FwCommand, FwRefuse
    <3>2. Taken("BOOT_CMD_MSG_RECEIVED") /\ "BOOT_CMD_MSG_RECEIVED" \in Letters
      BY <3>1, ReplyNames DEF Requested, Letters
    <3> QED BY <3>1, <3>2
  <2>4. CASE FwAbort
    BY <2>4, MsgFacts, ReplyNames DEF FwAbort, IrqMsg
  <2> QED BY <2>1, <2>2, <2>3, <2>4
<1>7. \A e \in Letters : /\ (Requested(e)' => Requested(e)) /\ (Mailed(e)' => Mailed(e) \/ Taken(e))
                         /\ (Posting(e)' <=> Posting(e)) /\ (Waking(e)' <=> Waking(e))
  <2>1. \A e \in Letters : (Requested(e)' => Requested(e))
    BY <1>1 DEF Requested, Listed7
  <2>2. \A e \in Letters : (Posting(e)' <=> Posting(e)) /\ (Waking(e)' <=> Waking(e))
    BY <1>1 DEF Posting, Waking
  <2>3. "ABORT_RECEIVED" \notin Letters
    BY DEF Letters
  <2>4. \A e \in Letters : Mailed(e)' => Mailed(e) \/ Taken(e)
    BY <1>6, <2>3 DEF Mailed
  <2> QED BY <2>1, <2>2, <2>4
<1>8. Correspondence(t)'
  <2>1. \A e \in Letters : Underway(e)' => Underway(e)
    BY <1>7 DEF Underway
  <2>2. \A e \in Letters : /\ Requested(e)' => ~Mailed(e)' /\ ~Posting(e)' /\ ~Waking(e)'
                           /\ Mailed(e)' => ~Posting(e)' /\ ~Waking(e)'
    <3> TAKE e \in Letters
    <3>1. Posted(t, e)
      BY DEF Sole, Correspondence
    <3> QED BY <1>7, <3>1 DEF Posted
  <2>3. \A i, k \in Listed7' : i = k
    BY <1>1 DEF Sole, Correspondence, Listed7
  <2> HIDE DEF Taken
  <2> QED BY <1>1, <1>4, <2>1, <2>2, <2>3, Forwarded DEF Sole
<1>9. ASSUME "faults" \notin env, rmb'.kind = "ack" PROVE rmb'.tag = Tag(t)
  <2>1. rmb.kind = "ack" => rmb.tag = Tag(t)
    BY <1>9 DEF Sole, Stamped
  <2>2. smb # NoMsg => smb.tag = Tag(t)
    BY <1>9 DEF Sole, Stamped
  <2>3. CASE UNCHANGED rmb
    BY <1>9, <2>1, <2>3
  <2>4. CASE ~UNCHANGED rmb
    <3>1. FwCommand("ack")
      <4>1. ~FwReady /\ ~FwAbort
        BY <1>9, MsgFacts DEF FwReady, FwAbort, IrqMsg
      <4> QED BY <1>9, <2>4, <4>1 DEF FwBoot, FwRefuse, mbox
    <3> QED BY <2>2, <3>1, MsgFacts DEF FwCommand
  <2> QED BY <2>3, <2>4
<1>10. Stamped(t)'
  <2>1. (Posting(Acked)' <=> Posting(Acked)) /\ (Waking(Acked)' <=> Waking(Acked))
    BY <1>7 DEF Letters, Acked
  <2> HIDE DEF Taken
  <2> QED BY <1>1, <1>4, <1>9, <2>1 DEF Sole, Stamped, Quietly
<1> QED BY <1>4, <1>5, <1>8, <1>10 DEF Sole

\* It takes a frame from the ring: an RPC, or the only ENTER_SC7 there is.
LEMMA FwFrameSole ==
  ASSUME Inv, Guarded, Committed, NEW t \in System, Sole(t), FwAdmin \/ FwSc7, UNCHANGED env
  PROVE  Sole(t)' /\ Committed'
<1> DEFINE s == "SC7_ENTERED_RECEIVED"
<1>1. /\ Quietly /\ UNCHANGED <<c_state, complete, isr, ack, pc, fwcmds, smb, boot_req>> /\ (fw' # "off" \/ UNCHANGED fw)
      /\ atx # <<>> /\ atx' = Tail(atx) /\ Mail
  BY DEF FwAdmin, FwSc7, Quietly, caller, driver, mbox, Inv
<1>2. Stranded' <=> Stranded
  BY <1>1 DEF Stranded, Quietly
<1>3. /\ Interlock(t)' /\ Booted(t)' /\ Tag(t)' = Tag(t) /\ (Status(t)' <=> Status(t))
      /\ \A e : Expects(t, e)' <=> Expects(t, e)
  BY <1>1, <1>2, StillSole DEF Sole
<1>4. Committed'
  BY <1>1 DEF Committed, Quietly, Running
<1>5. \A i \in Listed7' : i + 1 \in Listed7 /\ i \in Nat
  BY <1>1, ListedFacts
<1>6. \A i, k \in Listed7' : i = k
  <2> TAKE i, k \in Listed7'
  <2>1. i + 1 = k + 1
    BY <1>5 DEF Sole, Correspondence
  <2> QED BY <1>5, <2>1
<1>7. CASE FwAdmin
  <2>1. UNCHANGED rmb
    BY <1>7 DEF FwAdmin, mbox
  <2>2. \A e \in Letters : /\ (Requested(e)' => Requested(e)) /\ (Mailed(e)' <=> Mailed(e))
                           /\ (Posting(e)' <=> Posting(e)) /\ (Waking(e)' <=> Waking(e))
    BY <1>1, <1>5, <2>1 DEF Requested, Mailed, Posting, Waking
  <2>3. Correspondence(t)'
    <3>1. \A e \in Letters : Underway(e)' => Underway(e)
      BY <2>2 DEF Underway
    <3>2. \A e \in Letters : /\ Requested(e)' => ~Mailed(e)' /\ ~Posting(e)' /\ ~Waking(e)'
                             /\ Mailed(e)' => ~Posting(e)' /\ ~Waking(e)'
      BY <2>2 DEF Sole, Correspondence, Posted
    <3> QED BY <1>1, <1>3, <1>6, <3>1, <3>2, Forwarded DEF Sole
  <2>4. Stamped(t)'
    <3>1. (Posting(Acked)' <=> Posting(Acked)) /\ (Waking(Acked)' <=> Waking(Acked))
      BY <2>2 DEF Letters, Acked
    <3> QED BY <1>1, <1>3, <2>1, <3>1 DEF Sole, Stamped, Quietly
  <2> QED BY <1>3, <1>4, <2>3, <2>4 DEF Sole
<1>8. CASE FwSc7
  <2>1. rmb = NoMsg /\ rmb'.kind = "sc7" /\ Head(atx).kind = "sc7"
    BY <1>8, MsgFacts DEF FwSc7, IrqMsg
  <2>2. 1 \in Listed7 /\ Requested(s) /\ s \in Letters
    BY <1>1, <2>1, ListedFacts DEF Requested, Letters
  <2>3. Listed7' = {}
    <3>1. SUFFICES ASSUME NEW i \in Listed7' PROVE FALSE
      OBVIOUS
    <3>2. i + 1 = 1 /\ i \in Nat /\ i \in 1..Len(atx')
      BY <1>5, <2>2 DEF Sole, Correspondence, Listed7
    <3> QED BY <3>2
  <2>4. \A e \in Letters : /\ (Requested(e)' => Requested(e) /\ e # s) /\ (Mailed(e)' => e = s)
                           /\ (Posting(e)' <=> Posting(e)) /\ (Waking(e)' <=> Waking(e))
    BY <1>1, <2>1, <2>3, ReplyNames DEF Requested, Mailed, Posting, Waking
  <2>5. Correspondence(t)'
    <3>1. \A e \in Letters : Underway(e)' => Underway(e)
      BY <2>2, <2>4 DEF Underway
    <3>2. \A e \in Letters : /\ Requested(e)' => ~Mailed(e)' /\ ~Posting(e)' /\ ~Waking(e)'
                             /\ Mailed(e)' => ~Posting(e)' /\ ~Waking(e)'
      BY <2>2, <2>4 DEF Sole, Correspondence, Posted
    <3> QED BY <1>1, <1>3, <1>6, <3>1, <3>2, Forwarded DEF Sole
  <2>6. Stamped(t)'
    <3>1. (Posting(Acked)' <=> Posting(Acked)) /\ (Waking(Acked)' <=> Waking(Acked)) /\ rmb'.kind # "ack"
      BY <2>1, <2>4 DEF Letters, Acked
    <3> QED BY <1>1, <1>3, <3>1 DEF Sole, Stamped, Quietly
  <2> QED BY <1>3, <1>4, <2>5, <2>6 DEF Sole
<1> QED BY <1>7, <1>8

-----------------------------------------------------------------------------
(* The theorems.                                                           *)

\* At first the boot worker has not begun.
LEMMA BootInit == Init => BootInv /\ FaultFree
<1> SUFFICES ASSUME Init PROVE BootInv /\ FaultFree
  OBVIOUS
<1>1. "boot" \in System /\ "boot" \in Workers /\ "pm" # "boot" /\ System \subseteq Threads /\ Clients \subseteq Threads \ {"boot"}
  BY Casting DEF System, Workers
<1>2. /\ todo["boot"] = <<"start">> \o BootFlow /\ \A u \in Threads : pc[u] = "post"
      /\ \A u \in Threads \ {"boot"} : todo[u] = <<>>
  BY <1>1 DEF Init
<1>3. Interlock("boot")
  BY <1>1, <1>2 DEF Init, Interlock, Asleep, Running
<1>4. Correspondence("boot")
  <2>1. Listed7 = {}
    BY DEF Init, Listed7
  <2>2. \A e \in Letters : ~Underway(e) /\ ~complete[e]
    BY <2>1 DEF Init, Underway, Requested, Mailed, Posting, Waking, Letters, Replies
  <2> QED BY <2>1, <2>2 DEF Correspondence, Posted, Underway
<1>5. Stamped("boot")
  <2>1. rmb.kind # "ack" /\ ~complete[Acked] /\ ~Posting(Acked) /\ ~Waking(Acked) /\ ~Status("boot")
    BY <1>1, <1>2, MsgFacts DEF Init, Posting, Waking, Status, Acked, Replies
  <2> QED BY <2>1 DEF Init, Stamped
<1>6. Booted("boot")
  BY <1>2, FlowResets DEF Init, Booted, Opened
<1>7. Committed
  <2>1. pc["pm"] = "post"
    BY <1>1, <1>2, Casting
  <2> QED BY <2>1 DEF Committed
<1>8. FaultFree
  <2>1. c_state # "ABORT" /\ \A u \in Threads : prev[u] = "INVALID"
    BY DEF Init
  <2>2. rmb.kind = "none" /\ isr.event = "none"
    BY DEF Init, NoMsg
  <2> QED BY <2>1, <2>2 DEF FaultFree
<1> QED BY <1>1, <1>3, <1>4, <1>5, <1>6, <1>7, <1>8 DEF BootInv, Sole

\* One worker, or the suspend path, makes calls after every step.
LEMMA BootStep == ASSUME Inv, FaultFree, BootInv, Step, UNCHANGED env PROVE BootInv'
<1> SUFFICES ASSUME Guarded PROVE Committed' /\ \E t \in System : Sole(t)'
  BY DEF BootInv, Guarded
<1>1. PICK t \in System : Sole(t)
  BY DEF BootInv
<1>2. Committed /\ "pm" \in System /\ "resume" \in System /\ Threads = System \cup Clients
  BY Casting DEF BootInv, System, Workers
<1>3. CASE \E u \in Threads : Thread(u)
  BY <1>1, <1>2, <1>3, SystemStep, ClientStep
<1>4. CASE StartResume
  BY <1>1, <1>2, <1>4, StartResumeSole
<1>5. CASE \E c \in Clients : ClientCalls(c)
  BY <1>1, <1>2, <1>5, CallAdminSole
<1>6. CASE EnterSc7
  BY <1>1, <1>2, <1>6, EnterSc7Sole
<1>7. CASE SleepAndWake
  BY <1>1, <1>2, <1>7, SleepSole
<1>8. CASE Sc7Entered \/ Resumed
  BY <1>1, <1>2, <1>8, ReturnSole
<1>9. CASE Isr
  BY <1>1, <1>2, <1>9, IsrMailboxSole, IsrAdminSole, IsrPostSole, IsrWakeSole DEF Isr
<1>10. CASE Firmware \/ FwRefuse \/ FwAbort
  BY <1>1, <1>2, <1>10, FwBoxSole, FwFrameSole DEF Firmware
<1> QED BY <1>3, <1>4, <1>5, <1>6, <1>7, <1>8, <1>9, <1>10 DEF Step, Power

\* Whoever else calls, of the workers and the suspend path one at a time does, and
\* the boot mailbox is its own.
THEOREM BootInvariance == Spec => [](BootInv /\ FaultFree)
<1>1. ASSUME Inv, BootInv /\ FaultFree, [Next]_vars PROVE (BootInv /\ FaultFree)'
  <2>1. CASE Next
    BY <1>1, <2>1, BootStep, FaultFreeStep DEF Next
  <2>2. CASE UNCHANGED vars
    <3>1. UNCHANGED <<env, c_state, prev, todo, pc, pm, boot_status, resume_work, ack, synced>>
      BY <2>2 DEF vars, system, caller, driver
    <3>2. UNCHANGED <<complete, isr, smb, rmb, boot_req, atx, fw, fwcmds>>
      BY <2>2 DEF vars, system, mbox, chan
    <3>3. FaultFree'
      BY <1>1, <3>1, <3>2 DEF FaultFree
    <3>4. ASSUME NEW t \in System, Sole(t) PROVE Sole(t)'
      <4>1. Interlock(t)' /\ Booted(t)'
        BY <3>1, <3>2, <3>4 DEF Sole, Interlock, Asleep, Running, Stranded, Booted, Opened, Ready
      <4>2. Correspondence(t)' /\ Stamped(t)'
        BY <3>1, <3>2, <3>4, KeepLetters DEF Sole, Listed7
      <4> QED BY <4>1, <4>2 DEF Sole
    <3>5. Guarded' => Guarded
      BY <3>1 DEF Guarded
    <3>6. Committed => Committed'
      BY <3>1 DEF Committed, Running
    <3> QED BY <1>1, <3>3, <3>4, <3>5, <3>6 DEF BootInv
  <2> QED BY <1>1, <2>1, <2>2
<1> QED BY <1>1, BootInit, Invariance, PTL DEF Spec

\* DCE_FW_BOOT_DONE is set only while the firmware has had all boot commands since it
\* powered up, and the admin channel is established, though clients are interrupted
\* and commands fail: dce_start_boot_flow() and dce_pm_handle_sc7_enter_requested_event().
THEOREM BootedIsTrue == Spec => []BootDoneIsTrue
<1>1. BootInv => BootDoneIsTrue
  BY DEF BootInv, Guarded, Sole, Booted, Ready, BootDoneIsTrue
<1> QED BY <1>1, BootInvariance, PTL

\* The status a woken boot command reads is the answer to that command, though clients
\* make RPCs meanwhile: dce_mailbox_send_cmd_sync() and dce_mailbox_isr().
THEOREM StatusIsOwn == Spec => []OwnStatus
<1>1. Inv /\ BootInv => OwnStatus
  <2> SUFFICES ASSUME Inv, BootInv, env \cap {"early_suspend", "faults"} = {},
                      NEW u \in Threads, In(u, "cmd", "answered")
               PROVE  ack.tag = Tag(u)
    BY DEF OwnStatus
  <2>1. Guarded
    BY DEF Guarded
  <2>2. PICK t \in System : Sole(t)
    BY <2>1 DEF BootInv
  <2>3. u \in Workers
    <3>1. ListedIn(Menu(u), todo[u]) /\ todo[u] # <<>> /\ Head(todo[u]) = "cmd"
      BY DEF In, Running, Inv, Shape
    <3>2. "cmd" \in Menu(u)
      BY <3>1, ListedTail
    <3> QED BY <3>2 DEF Menu
  <2>4. u = t
    BY <2>2, <2>3, Casting DEF Sole, Interlock, In
  <2> QED BY <2>2, <2>4 DEF Sole, Stamped, Status, In
<1> QED BY <1>1, BootInvariance, Invariance, PTL
-----------------------------------------------------------------------------
(* An admin RPC waits for a firmware that has its boot commands: workers   *)
(* send one behind the handshake of the channel, others while the engine   *)
(* is booted.                                                              *)

\* No RPC of a list comes before the handshake.
Ordered(q) == \A i, k \in 1..Len(q) : q[i] = "admin" /\ i < k => q[k] # "reset"
Lacks(q, call) == \A i \in 1..Len(q) : q[i] # call

\* Two lists one after the other.
LEMMA OrderedConcat ==
  ASSUME NEW p \in Seq(CallNames), NEW q \in Seq(CallNames),
         (Lacks(p, "admin") /\ Ordered(q)) \/ (Ordered(p) /\ Lacks(q, "reset"))
  PROVE  Ordered(p \o q)
<1> DEFINE r == p \o q
           m == Len(p)
           n == Len(q)
<1>1. /\ r \in Seq(CallNames) /\ Len(r) = m + n /\ m \in Nat /\ n \in Nat
      /\ \A i \in 1..(m + n) : r[i] = IF i <= m THEN p[i] ELSE q[i - m]
  BY ConcatProperties, LenProperties
<1>2. \A i \in 1..m : p[i] = "admin" => ~Lacks(p, "admin")
  BY DEF Lacks
<1>3. \A k \in 1..n : q[k] = "reset" => ~Lacks(q, "reset")
  BY DEF Lacks
<1>4. ASSUME NEW i \in 1..(m + n), NEW k \in 1..(m + n), r[i] = "admin", i < k, r[k] = "reset"
      PROVE  FALSE
  <2>1. CASE k <= m
    <3>1. i \in 1..m /\ k \in 1..m /\ p[i] = "admin" /\ p[k] = "reset"
      BY <1>1, <1>4, <2>1
    <3>2. Ordered(p)
      BY <1>2, <3>1
    <3> QED BY <1>4, <3>1, <3>2 DEF Ordered
  <2>2. CASE i <= m /\ ~(k <= m)
    <3>1. i \in 1..m /\ k - m \in 1..n /\ p[i] = "admin" /\ q[k - m] = "reset"
      BY <1>1, <1>4, <2>2
    <3> QED BY <1>2, <1>3, <3>1
  <2>3. CASE ~(i <= m)
    <3>1. /\ i - m \in 1..n /\ k - m \in 1..n /\ i - m < k - m
          /\ q[i - m] = "admin" /\ q[k - m] = "reset"
      BY <1>1, <1>4, <2>3
    <3>2. Ordered(q)
      BY <1>3, <3>1
    <3> QED BY <3>1, <3>2 DEF Ordered
  <2> QED BY <1>1, <2>1, <2>2, <2>3
<1> HIDE DEF r
<1>5. Ordered(r)
  BY <1>1, <1>4 DEF Ordered
<1> QED BY <1>5 DEF r

\* The boot flow makes no RPC before it has the channel.
LEMMA FlowOrdered == Ordered(BootFlow) /\ Ordered(<<"start">> \o BootFlow)
<1> DEFINE a == <<"boot">> \o Calls("cmd", NCmds)
           b == a \o <<"cmdsdone", "reset">>
           c == b \o Calls("admin", NAdmin)
<1>1. NCmds \in Nat /\ NAdmin \in Nat
  BY DceAssumption
<1>2. {<<"boot">>, <<"start">>, <<"bootdone">>, <<"cmdsdone", "reset">>, Calls("cmd", NCmds),
       Calls("admin", NAdmin)} \subseteq Seq(CallNames)
  BY <1>1 DEF CallNames, Calls
<1>3. Lacks(<<"start">>, "admin") /\ Lacks(<<"bootdone">>, "reset") /\ Ordered(<<"boot">>)
  BY DEF Lacks, Ordered
<1>4. Lacks(<<"boot">>, "admin") /\ Lacks(Calls("cmd", NCmds), "reset")
      /\ Lacks(Calls("admin", NAdmin), "reset")
  BY <1>1 DEF Lacks, Calls
<1>5. Ordered(<<"cmdsdone", "reset">>) /\ Lacks(Calls("cmd", NCmds), "admin")
  BY <1>1 DEF Lacks, Ordered, Calls
<1>6. a \in Seq(CallNames) /\ Lacks(a, "admin")
  <2>1. /\ a \in Seq(CallNames) /\ Len(a) = 1 + NCmds
        /\ \A i \in 1..(1 + NCmds) : a[i] = IF i <= 1 THEN "boot" ELSE Calls("cmd", NCmds)[i - 1]
    BY <1>1, <1>2, ConcatProperties DEF Calls
  <2> QED BY <1>1, <2>1 DEF Lacks, Calls
<1> HIDE DEF a
<1>7. b \in Seq(CallNames) /\ Ordered(b)
  BY <1>2, <1>5, <1>6, OrderedConcat, ConcatProperties
<1> HIDE DEF b
<1>8. c \in Seq(CallNames) /\ Ordered(c)
  BY <1>2, <1>4, <1>7, OrderedConcat, ConcatProperties
<1> HIDE DEF c
<1>9. BootFlow = c \o <<"bootdone">>
  BY DEF BootFlow, a, b, c
<1>10. BootFlow \in Seq(CallNames) /\ Ordered(BootFlow)
  BY <1>2, <1>3, <1>8, <1>9, OrderedConcat, ConcatProperties
<1> QED BY <1>2, <1>3, <1>10, OrderedConcat

\* What is left of a list is in its order.
LEMMA OrderedTail == ASSUME NEW q \in Seq(CallNames), q # <<>>, Ordered(q) PROVE Ordered(Tail(q))
<1>1. /\ Len(Tail(q)) = Len(q) - 1 /\ Len(q) \in Nat
      /\ \A i \in 1..(Len(q) - 1) : Tail(q)[i] = q[i + 1]
  BY TailFacts
<1> SUFFICES ASSUME NEW i \in 1..Len(Tail(q)), NEW k \in 1..Len(Tail(q)), Tail(q)[i] = "admin", i < k
             PROVE  Tail(q)[k] # "reset"
  BY DEF Ordered
<1>2. i + 1 \in 1..Len(q) /\ k + 1 \in 1..Len(q) /\ i + 1 < k + 1
      /\ Tail(q)[i] = q[i + 1] /\ Tail(q)[k] = q[k + 1]
  BY <1>1
<1> QED BY <1>2 DEF Ordered

\* Clients are at it only while the engine is booted.
Admitted ==
  /\ \A w \in Workers : Ordered(todo[w])
  /\ Guarded => \A c \in Clients : Running(c) => "BOOT_DONE" \in boot_status

LEMMA AdmittedInit == Init => Admitted
<1> SUFFICES ASSUME Init PROVE Admitted
  OBVIOUS
<1>1. Workers \subseteq Threads /\ Clients \subseteq Threads /\ "boot" \notin Clients
  BY DceAssumption DEF Threads, Workers
<1>2. \A t \in Threads : todo[t] = IF t = "boot" THEN <<"start">> \o BootFlow ELSE <<>>
  BY DEF Init
<1>3. Ordered(<<>>)
  BY DEF Ordered
<1> QED BY <1>1, <1>2, <1>3, FlowOrdered DEF Admitted, Running

LEMMA AdmittedStep ==
  ASSUME Inv, BootInv, Admitted, Step, UNCHANGED env
  PROVE  Admitted'
<1>1. /\ Workers \subseteq Threads /\ Clients \subseteq Threads /\ "pm" \in Threads
      /\ "pm" \notin Workers \cup Clients /\ Workers \cap Clients = {} /\ "resume" \in Workers
      /\ todo \in [Threads -> Seq(CallNames)]
  BY DceAssumption DEF Threads, Workers, Inv, Shape, Typed
<1>2. Guarded' <=> Guarded
  BY DEF Guarded
<1>3. CASE \E t \in Threads : Thread(t)
  <2>1. PICK t \in Threads : Thread(t)
    BY <1>3
  <2>2. Running(t) /\ UNCHANGED pm /\ \/ \E s : Goto(t, s)
                                      \/ Done(t)
                                      \/ Fail(t)
    BY <2>1, ThreadMoves DEF Inv, Shape
  <2>3. /\ todo'[t] \in {todo[t], Tail(todo[t]), <<>>}
        /\ \A u \in Threads \ {t} : todo'[u] = todo[u]
    BY <1>1, <2>2 DEF Goto, Done, Fail
  <2>4. ASSUME NEW w \in Workers PROVE Ordered(todo'[w])
    <3>1. Ordered(<<>>)
      BY DEF Ordered
    <3>2. Ordered(Tail(todo[t])) \/ t # w
      BY <1>1, <2>2, OrderedTail DEF Admitted, Running
    <3> QED BY <1>1, <2>3, <3>1, <3>2 DEF Admitted
  <2>5. ASSUME Guarded, NEW c \in Clients, Running(c)' PROVE "BOOT_DONE" \in boot_status'
    <3>1. Running(c)
      BY <1>1, <2>2, <2>3, <2>5 DEF Running
    <3>2. "BOOT_DONE" \in boot_status
      BY <2>5, <3>1 DEF Admitted
    <3>3. pm = "awake"
      BY <2>5, <3>1 DEF BootInv, Sole, Interlock
    <3>4. ~Sc7Answered(t)
      <4>1. Sc7Answered(t) => "sc7" \in Menu(t)
        BY ListedTail DEF Sc7Answered, In, Running, Inv, Shape
      <4> QED BY <3>3, <4>1 DEF Menu
    <3>5. boot_status \subseteq boot_status'
      BY <2>1, <3>4, ThreadSteps DEF Inward, Outward, BootCheck, NestedPost, NestedWake, NestedReset, Sc7NoMemory,
         ScheduleResume, Recheck, Consume, WaitReturns, BootAnswered, CmdAnswered, CmdsDone, ChannelReset,
         BootDone, Post, Restore, MailboxSend, AdminSend, Sc7Send, AdminAnswered, ChannelReady, driver
    <3> QED BY <3>2, <3>5
  <2> QED BY <1>2, <2>4, <2>5 DEF Admitted
<1>4. CASE StartResume
  <2>1. Start("resume", BootFlow) /\ UNCHANGED boot_status
    BY <1>4 DEF StartResume
  <2>2. todo'["resume"] = BootFlow /\ \A u \in Threads \ {"resume"} : todo'[u] = todo[u]
    BY <1>1, <2>1 DEF Start
  <2> QED BY <1>1, <1>2, <2>1, <2>2, FlowOrdered DEF Admitted, Running
<1>5. CASE \E c \in Clients : ClientCalls(c)
  <2>1. PICK c \in Clients : CallAdmin(c)
    BY <1>5 DEF ClientCalls
  <2>2. "BOOT_DONE" \in boot_status' /\ \A u \in Threads \ {c} : todo'[u] = todo[u]
    BY <1>1, <2>1 DEF CallAdmin, Start, driver
  <2> QED BY <1>1, <2>2 DEF Admitted
<1>6. CASE EnterSc7 \/ SleepAndWake
  <2>1. UNCHANGED boot_status /\ \A u \in Threads \ {"pm"} : todo'[u] = todo[u]
    BY <1>1, <1>6 DEF EnterSc7, SleepAndWake, Start, driver
  <2> QED BY <1>1, <1>2, <2>1 DEF Admitted, Running
<1>7. CASE Sc7Entered \/ Resumed \/ Isr \/ Firmware \/ FwRefuse \/ FwAbort
  <2>1. UNCHANGED <<boot_status, todo>>
    BY <1>7 DEF Sc7Entered, Resumed, driver, Isr, IsrMailbox, IsrAdmin, IsrPost, IsrWake, Firmware, FwBoot,
       FwReady, FwCommand, FwAdmin, FwSc7, FwRefuse, FwAbort
  <2> QED BY <1>2, <2>1 DEF Admitted, Running
<1> QED BY <1>3, <1>4, <1>5, <1>6, <1>7 DEF Step, Power

\* An admin RPC waits only for a firmware that has had its boot commands since it
\* powered up, over an established channel, though DCE_FW_BOOTSTRAP_DONE outlives a
\* suspend: dce_admin_send_cmd_*(), dce_start_boot_flow() and dce_pm_enter_sc7().
THEOREM AdminServed == Spec => []AdminAfterBootCmds
<1>1. ASSUME Inv, BootInv, Admitted, [Next]_vars PROVE Admitted'
  <2>1. CASE Next
    BY <1>1, <2>1, AdmittedStep DEF Next
  <2>2. CASE UNCHANGED vars
    BY <1>1, <2>2 DEF vars, system, driver, Admitted, Guarded, Running
  <2> QED BY <1>1, <2>1, <2>2
<1>2. Inv /\ BootInv /\ Admitted => AdminAfterBootCmds
  <2> SUFFICES ASSUME Inv, BootInv, Admitted, env \cap {"early_suspend", "nomem"} = {},
                      NEW u \in Threads, In(u, "admin", "wait")
               PROVE  Ready
    BY DEF AdminAfterBootCmds, Ready
  <2>1. Guarded /\ Running(u) /\ Head(todo[u]) = "admin"
    BY DEF Guarded, In
  <2>2. PICK t \in System : Sole(t)
    BY <2>1 DEF BootInv
  <2>3. CASE u \in Clients
    <3>1. "BOOT_DONE" \in boot_status
      BY <2>1, <2>3 DEF Admitted
    <3> QED BY <2>2, <3>1 DEF Sole, Booted
  <2>4. u \notin Clients => u = t
    BY <2>1, <2>2, Casting DEF Sole, Interlock
  <2>5. CASE u \in Workers
    <3>1. todo[u] \in Seq(CallNames) /\ todo[u] # <<>>
      BY <2>1 DEF Inv, Shape, Typed, Running
    <3>2. Len(todo[u]) \in Nat /\ 1 \in 1..Len(todo[u]) /\ todo[u][1] = "admin"
      BY <2>1, <3>1, EmptySeq
    <3>3. \A k \in 1..Len(todo[u]) : todo[u][k] # "reset"
      <4> TAKE k \in 1..Len(todo[u])
      <4>1. Ordered(todo[u])
        BY <2>5 DEF Admitted
      <4>2. CASE k = 1
        BY <3>2, <4>2
      <4>3. CASE k # 1
        BY <3>2, <4>1, <4>3 DEF Ordered
      <4> QED BY <4>2, <4>3
    <3>4. Opened(u)
      BY <2>1, <2>5, <3>3 DEF Opened
    <3>5. u = t
      BY <2>4, <2>5, Casting
    <3> QED BY <2>2, <3>4, <3>5 DEF Sole, Booted
  <2>6. CASE u = "pm"
    <3>1. "admin" \in Menu("pm")
      BY <2>1, <2>6, ListedTail DEF Inv, Shape, Running
    <3>2. pm = "entering" /\ "pm" \notin Workers
      BY <3>1, Casting DEF Menu
    <3>3. "BOOT_DONE" \in boot_status
      BY <2>1, <2>2, <2>6, <3>2 DEF Sole, Interlock
    <3> QED BY <2>2, <3>3 DEF Sole, Booted
  <2> QED BY <2>3, <2>5, <2>6, Casting DEF System
<1> QED BY <1>1, <1>2, AdmittedInit, BootInvariance, Invariance, PTL DEF Spec
=============================================================================
