------------------------------ MODULE Riot_proofs ------------------------------
(***************************************************************************)
(* Proofs about the two models of the RIOT port.                           *)
(*                                                                         *)
(* About RiotEvents, for any number of events, any length of the queue and *)
(* any number of requests: every event has one owner whatever the Java     *)
(* program does, and under the default program every request gets its own  *)
(* reply and no event is lost but in the known ways.                       *)
(*                                                                         *)
(* About UjUpdate, for packages of any size and any set of versions: the   *)
(* safety properties of its run.  The argument is the order of the steps   *)
(* of an installation, unlink before rename, against the two steps of an   *)
(* abort, and the order of a careful client's requests.                    *)
(***************************************************************************)
EXTENDS RiotEvents, UjUpdate, FiniteSetTheorems, TLAPS

Message == [ev : 0..NE, from : {"isr", "gcoap"}]
PC == {"boot", "run", "recv", "got", "end", "dead"}

Types ==
  /\ event \in [Event -> {Free} \cup [kind : Kinds, pdu : 0..MaxReq]]
  /\ queue \in Seq(Message) /\ Len(queue) <= QueueSize
  /\ waiter \in Seq(Message) /\ last \in Message \cup {NoMessage}
  /\ cur \in 0..NE /\ timers \subseteq Event /\ buf \in 0..MaxReq
  /\ pc \in PC
  /\ g \in [st : {"idle", "reply", "send", "answered"}, ev : 0..NE]

\* A sender waits for room only while the queue is full; an event is held only where
\* it has a use.
States ==
  /\ waiter # <<>> => Len(waiter) = 1 /\ Len(queue) = QueueSize /\ g.st \in {"send", "reply"}
  /\ g.st = "send" => waiter # <<>>
  /\ pc = "recv" => queue = <<>>
  /\ pc \in {"boot", "recv", "got"} => cur = 0
  /\ pc = "boot" => timers = {}
  /\ g.ev # 0 <=> g.st = "answered"

\* Places that hold different events, all allocated.
Once(M) == \A m, n \in DOMAIN M : M[m].ev = M[n].ev => m = n \/ M[m].ev = 0

Apart(P, T, c, r, v) ==
  /\ \A e \in P \ {0} : e \notin T /\ e # c /\ e # r /\ e # v
  /\ \A e \in T \ {0} : e # c /\ e # r /\ e # v
  /\ c # 0 => c # r /\ c # v
  /\ r # 0 => r # v

Allocated(P, T, c, r, v, E) == \A e \in (P \cup T \cup {c, r, v}) \ {0} : E[e] # Free

Own ==
  /\ Once(Messages)
  /\ Apart(Posted, timers, cur, g.ev, Received)
  /\ Allocated(Posted, timers, cur, g.ev, Received, event)

\* The requests the program has not dealt with.
Open == {e \in Event : event[e].kind = "COAP_REQ" /\ (e = cur => ~handled)}

\* The default program has one to answer exactly while the CoAP thread waits for its
\* reply, wherever it is on its way.
Track ==
  prog = "default" =>
    /\ g.st # "reply" => Open = {}
    /\ g.st = "reply" => \E e \in Owned : Open = {e} /\ event[e].pdu = buf
    /\ cur \in Open => last.from = "gcoap"
    /\ Received \in Open => last.from = "gcoap"
    /\ \A n \in DOMAIN Messages : Messages[n].ev \in Open => Messages[n].from = "gcoap"
    /\ timers \cap Open = {}
    /\ g.st = "answered" => event[g.ev] = Ev("COAP_REPLY", buf)

\* There are two programs, and what a timer holds is an event for a timer.
Known == /\ prog \in {"default", "any"}
         /\ \A e \in timers : event[e].kind = "TIMER"

IInv == Types /\ States /\ Own /\ Track /\ Known

-----------------------------------------------------------------------------
(* RiotEvents.  Memory and messages. *)

\* An address that is made use of was free.
LEMMA NewUnused == ASSUME Unused # {} PROVE New \in Event /\ event[New] = Free
BY DEF New, Unused

\* There is one when the environment may make an event.
LEMMA CanMakeUnused == ASSUME CanMake PROVE Unused # {}
<1>1. ASSUME Unused = {} PROVE FALSE
  <2>1. Cardinality(Unused) = 0
    BY <1>1, FS_EmptySet
  <2> QED BY <2>1, EventsAssumption DEF CanMake
<1> QED BY <1>1

\* An event that is made is there, and no other one changes.
LEMMA MakeOK ==
  ASSUME Types, Unused # {}, NEW k \in Kinds, NEW n \in 0..MaxReq
  PROVE  /\ Make(k, n) \in [Event -> {Free} \cup [kind : Kinds, pdu : 0..MaxReq]]
         /\ Make(k, n)[New] = Ev(k, n) /\ Ev(k, n) # Free
         /\ \A e \in Event : e # New => Make(k, n)[e] = event[e]
         /\ New \in Event /\ event[New] = Free /\ New # 0
<1>1. Ev(k, n) \in [kind : Kinds, pdu : 0..MaxReq] /\ Ev(k, n).kind \in Kinds
  BY DEF Ev
<1>2. Ev(k, n) # Free
  BY <1>1 DEF Free, Kinds
<1> QED BY <1>1, <1>2, NewUnused, EventsAssumption DEF Types, Make, Event

\* An event that is freed, or none.
LEMMA FreedOK ==
  ASSUME Types, NEW f \in 0..NE
  PROVE  /\ Freed(f) \in [Event -> {Free} \cup [kind : Kinds, pdu : 0..MaxReq]]
         /\ \A e \in Event : Freed(f)[e] = IF e = f THEN Free ELSE event[e]
BY EventsAssumption DEF Types, Freed, Event

\* A message that is delivered finds no sender waiting, and goes to the receiver or
\* to the end of the queue.
LEMMA DeliverOK ==
  ASSUME Types, States, NEW m \in Message, Deliver(m)
  PROVE  /\ waiter = <<>>
         /\ pc # "boot" => pc' # "boot"
         /\ queue' \in Seq(Message) /\ Len(queue') <= QueueSize
         /\ last' \in Message \cup {NoMessage} /\ pc' \in PC /\ pc' # "recv"
         /\ \/ pc = "recv" /\ pc' = "got" /\ last' = m /\ queue' = queue
            \/ pc # "recv" /\ pc' = pc /\ last' = last /\ queue' = Append(queue, m)
<1>1. Len(queue) \in Nat /\ QueueSize > 0 /\ QueueSize \in Nat
  BY EventsAssumption DEF Types
<1>2. CASE pc = "recv"
  <2>1. Len(queue) = 0
    BY <1>2 DEF States
  <2> QED BY <1>1, <1>2, <2>1 DEF Types, States, Deliver, PC
<1>3. CASE pc # "recv"
  <2>1. /\ Len(queue) < QueueSize /\ queue' = Append(queue, m) /\ last' = last /\ pc' = pc
    BY <1>3 DEF Deliver
  <2>2. queue' \in Seq(Message) /\ Len(queue') = Len(queue) + 1
    BY <2>1 DEF Types
  <2> QED BY <1>1, <1>3, <2>1, <2>2 DEF Types, States
<1> QED BY <1>2, <1>3

-----------------------------------------------------------------------------
(* Types. *)

\* An interrupt's message.
LEMMA InterruptTypes ==
  ASSUME Types, States, NEW m \in Message, FromInterrupt(m), pc # "boot",
         event' \in [Event -> {Free} \cup [kind : Kinds, pdu : 0..MaxReq]],
         timers' \subseteq timers, waiter' = waiter, cur' = cur, g' = g, buf' = buf
  PROVE  Types' /\ States'
<1>1. CASE Deliver(m)
  <2>1. /\ waiter = <<>> /\ pc' # "boot" /\ pc' # "recv" /\ pc' \in PC
        /\ queue' \in Seq(Message) /\ Len(queue') <= QueueSize
        /\ last' \in Message \cup {NoMessage}
        /\ pc' = "got" => pc \in {"recv", "got"}
    BY <1>1, DeliverOK
  <2> QED BY <2>1 DEF Types, States
<1>2. CASE UNCHANGED <<last, pc, queue>>
  BY <1>2 DEF Types, States
<1> QED BY <1>1, <1>2 DEF FromInterrupt

\* A message of the CoAP thread.
LEMMA SendTypes ==
  ASSUME Types, States, NEW m \in Message, NEW st \in {"send", "reply"}, Send(m, st),
         g.st = "idle", pc \notin {"boot", "dead"},
         event' \in [Event -> {Free} \cup [kind : Kinds, pdu : 0..MaxReq]],
         timers' = timers, cur' = cur, buf' \in 0..MaxReq
  PROVE  /\ Types' /\ States' /\ waiter = <<>> /\ g.ev = 0 /\ g'.ev = 0
         /\ g'.st = IF st = "reply" \/ Full THEN st ELSE "idle"
<1>1. waiter = <<>> /\ g.ev = 0
  BY DEF States
<1>2. CASE Deliver(m) /\ g' = (IF st = "reply" THEN [st |-> "reply", ev |-> 0] ELSE g)
           /\ waiter' = waiter
  <2>1. /\ pc' # "boot" /\ pc' # "recv" /\ pc' \in PC
        /\ queue' \in Seq(Message) /\ Len(queue') <= QueueSize
        /\ last' \in Message \cup {NoMessage}
        /\ pc' = "got" => pc \in {"recv", "got"}
    BY <1>2, DeliverOK
  <2>2. /\ g' \in [st : {"idle", "reply", "send", "answered"}, ev : 0..NE] /\ g'.ev = 0
        /\ g'.st = IF st = "reply" THEN "reply" ELSE "idle"
    BY <1>1, <1>2, EventsAssumption DEF Types
  <2>3. ~Full
    BY <1>2 DEF Types, Deliver, Full
  <2> QED BY <1>1, <1>2, <2>1, <2>2, <2>3 DEF Types, States
<1>3. CASE /\ Full /\ waiter' = <<m>> /\ g' = [st |-> st, ev |-> 0]
           /\ UNCHANGED <<queue, last, pc>>
  <2>1. waiter' \in Seq(Message) /\ Len(waiter') = 1
    BY <1>3
  <2>2. /\ g' \in [st : {"idle", "reply", "send", "answered"}, ev : 0..NE] /\ g'.ev = 0
        /\ g'.st = st
    BY <1>3, EventsAssumption
  <2> QED BY <1>1, <1>3, <2>1, <2>2 DEF Types, States, Full
<1> QED BY <1>2, <1>3 DEF Send

\* A message that is there is received; a sender that waited for room is let go.
LEMMA TakeFirstTypes ==
  ASSUME Types, States, TakeFirst, queue # <<>>
  PROVE  /\ queue' \in Seq(Message) /\ Len(queue') <= QueueSize
         /\ waiter' = <<>> /\ last' \in Message
         /\ g' \in [st : {"idle", "reply", "send", "answered"}, ev : 0..NE]
         /\ g'.st # "send" /\ (g'.ev # 0 <=> g'.st = "answered") /\ g'.ev = g.ev
         /\ (g.st # "send" => g' = g) /\ (g.st = "send" => g'.st = "idle")
<1>1. Tail(queue) \in Seq(Message) /\ Len(Tail(queue)) = Len(queue) - 1
      /\ Len(queue) \in Nat /\ Head(queue) \in Message
  BY DEF Types
<1>2. Tail(queue) \o waiter \in Seq(Message)
      /\ Len(Tail(queue) \o waiter) = Len(queue) - 1 + Len(waiter)
  BY <1>1 DEF Types
<1>3. Len(waiter) \in {0, 1} /\ QueueSize \in Nat
  BY EventsAssumption DEF States
<1>4. \/ g' = [st |-> "idle", ev |-> 0] /\ g.st = "send"
      \/ g' = g /\ g.st # "send"
  BY DEF TakeFirst, Idle, States
<1>5. g.st = "send" => g.ev = 0
  BY DEF States
<1>6. queue' = Tail(queue) \o waiter /\ waiter' = <<>> /\ last' = Head(queue)
  BY DEF TakeFirst
<1>7. queue' \in Seq(Message) /\ Len(queue') <= QueueSize
  <2> DEFINE q == Tail(queue) \o waiter
             n == Len(queue)
             k == Len(waiter)
  <2>1. q \in Seq(Message) /\ Len(q) = n - 1 + k /\ n \in Nat /\ k \in {0, 1} /\ n <= QueueSize
    BY <1>1, <1>2, <1>3 DEF Types
  <2>2. queue' = q
    BY <1>6
  <2> HIDE DEF q, n, k
  <2>3. n - 1 + k <= QueueSize
    BY <1>3, <2>1
  <2> QED BY <2>1, <2>2, <2>3
<1>8. 0 \in 0..NE /\ g \in [st : {"idle", "reply", "send", "answered"}, ev : 0..NE]
      /\ (g.ev # 0 <=> g.st = "answered")
  BY EventsAssumption DEF Types, States
<1> QED BY <1>1, <1>4, <1>5, <1>6, <1>7, <1>8

\* What is made and freed has a type, for the kinds the actions make.
LEMMA MadeTypes ==
  ASSUME Types, Unused # {}
  PROVE  /\ \A k \in Kinds, n \in 0..MaxReq :
              Make(k, n) \in [Event -> {Free} \cup [kind : Kinds, pdu : 0..MaxReq]]
         /\ New \in Event /\ New \in 0..NE /\ New # 0
<1>1. \A k \in Kinds, n \in 0..MaxReq :
        Make(k, n) \in [Event -> {Free} \cup [kind : Kinds, pdu : 0..MaxReq]]
  BY MakeOK
<1> QED BY <1>1, NewUnused, EventsAssumption DEF Event

\* Interrupts keep types.
LEMMA InterruptsTyped == ASSUME Types, States, Interrupt PROVE Types' /\ States'
<1>1. CASE GpioInterrupt
  <2>1. New \in 0..NE
        /\ event' \in [Event -> {Free} \cup [kind : Kinds, pdu : 0..MaxReq]]
    BY <1>1, CanMakeUnused, MadeTypes, EventsAssumption DEF GpioInterrupt, Kinds
  <2>2. [ev |-> New, from |-> "isr"] \in Message
    BY <2>1 DEF Message
  <2> QED BY <1>1, <2>1, <2>2, InterruptTypes DEF GpioInterrupt
<1>2. ASSUME NEW e \in timers, TimerFires(e) PROVE Types' /\ States'
  <2>1. e \in 0..NE /\ pc # "boot"
    BY EventsAssumption DEF Types, States, Event
  <2>2. [ev |-> e, from |-> "isr"] \in Message
    BY <2>1 DEF Message
  <2> QED BY <1>2, <2>1, <2>2, InterruptTypes DEF TimerFires, Types
<1>3. CASE TimeoutFires
  <2>1. Timeout \in Message
    BY EventsAssumption DEF Message, Timeout
  <2> QED BY <1>3, <2>1, InterruptTypes DEF TimeoutFires, Types
<1> QED BY <1>1, <1>2, <1>3 DEF Interrupt

\* The CoAP thread makes an event and sends it, or finds no receiver.
LEMMA CoapMakes ==
  ASSUME Types, NEW k \in Kinds, NEW n \in 0..MaxReq, CanMake
  PROVE  /\ Make(k, n) \in [Event -> {Free} \cup [kind : Kinds, pdu : 0..MaxReq]]
         /\ [ev |-> New, from |-> "gcoap"] \in Message
BY CanMakeUnused, MadeTypes DEF Message

\* The CoAP thread keeps types.
LEMMA CoapTyped == ASSUME Types, States, Gcoap PROVE Types' /\ States'
<1>1. CASE HandleRequest
  <2>1. buf' \in 0..MaxReq /\ buf + 1 \in 0..MaxReq /\ "COAP_REQ" \in Kinds
    BY <1>1, EventsAssumption DEF HandleRequest, Types, Kinds
  <2>2. CASE Present /\ event' = Make("COAP_REQ", buf + 1)
             /\ Send([ev |-> New, from |-> "gcoap"], "reply")
    BY <1>1, <2>1, <2>2, CoapMakes, SendTypes DEF HandleRequest, Present
  <2>3. CASE UNCHANGED <<event, queue, last, pc, waiter, g>>
    BY <1>1, <2>1, <2>3 DEF HandleRequest, Types, States
  <2> QED BY <1>1, <2>2, <2>3 DEF HandleRequest
<1>2. CASE Respond
  <2>1. event' \in [Event -> {Free} \cup [kind : Kinds, pdu : 0..MaxReq]]
    BY <1>2, FreedOK DEF Respond, Types
  <2>2. g' = [st |-> "idle", ev |-> 0] /\ g.st = "answered" /\ 0 \in 0..NE
    BY <1>2, EventsAssumption DEF Respond, Idle
  <2> QED BY <1>2, <2>1, <2>2 DEF Respond, Types, States
<1>3. CASE HandleResponse
  <2>1. buf' \in 0..MaxReq /\ buf + 1 \in 0..MaxReq /\ "COAP_RESP" \in Kinds
    BY <1>3, EventsAssumption DEF HandleResponse, Types, Kinds
  <2>2. CASE Present /\ event' = Make("COAP_RESP", buf + 1)
             /\ Send([ev |-> New, from |-> "gcoap"], "send")
    BY <1>3, <2>1, <2>2, CoapMakes, SendTypes DEF HandleResponse, Present
  <2>3. CASE UNCHANGED <<event, queue, last, pc, waiter, g>>
    BY <1>3, <2>1, <2>3 DEF HandleResponse, Types, States
  <2> QED BY <1>3, <2>2, <2>3 DEF HandleResponse
<1>4. CASE PostUpdateReady
  <2>1. buf' \in 0..MaxReq /\ 0 \in 0..MaxReq /\ "UPD_RDY" \in Kinds
    BY <1>4, EventsAssumption DEF PostUpdateReady, Types, Kinds
  <2>2. CASE Present /\ Send([ev |-> New, from |-> "gcoap"], "send")
    BY <1>4, <2>1, <2>2, CoapMakes, SendTypes DEF PostUpdateReady, Present
  <2>3. CASE UNCHANGED <<queue, last, pc, waiter, g>>
    <3>1. event' \in [Event -> {Free} \cup [kind : Kinds, pdu : 0..MaxReq]]
      BY <1>4, <2>1, CoapMakes DEF PostUpdateReady
    <3> QED BY <1>4, <2>1, <2>3, <3>1 DEF PostUpdateReady, Types, States
  <2> QED BY <1>4, <2>2, <2>3 DEF PostUpdateReady
<1> QED BY <1>1, <1>2, <1>3, <1>4 DEF Gcoap

\* The uj thread keeps types.
LEMMA UjTyped == ASSUME Types, States, Uj PROVE Types' /\ States'
<1> DEFINE EType == [Event -> {Free} \cup [kind : Kinds, pdu : 0..MaxReq]]
<1>1. CASE InitEvents
  <2>1. event' \in EType /\ timers' \subseteq Event
    <3>1. CASE UNCHANGED <<event, timers>>
      BY <3>1 DEF Types
    <3>2. CASE CanMake /\ event' = Make("TIMER", 0) /\ timers' = {New}
      BY <3>2, CanMakeUnused, MadeTypes, EventsAssumption DEF Kinds
    <3> QED BY <1>1, <3>1, <3>2 DEF InitEvents
  <2> QED BY <1>1, <2>1 DEF InitEvents, Types, States, PC
<1>2. ASSUME NEW t \in {"zero", "timed", "forever"}, WaitEvent(t) PROVE Types' /\ States'
  <2>1. event' \in EType /\ cur' = 0 /\ 0 \in 0..NE
    BY <1>2, FreedOK, EventsAssumption DEF WaitEvent, Types
  <2>2. CASE queue # <<>>
    <3>1. TakeFirst /\ pc' = "got"
      BY <1>2, <2>2 DEF WaitEvent
    <3>2. /\ queue' \in Seq(Message) /\ Len(queue') <= QueueSize
          /\ waiter' = <<>> /\ last' \in Message
          /\ g' \in [st : {"idle", "reply", "send", "answered"}, ev : 0..NE]
          /\ g'.st # "send" /\ (g'.ev # 0 <=> g'.st = "answered")
      BY <2>2, <3>1, TakeFirstTypes
    <3> QED BY <1>2, <2>1, <3>1, <3>2 DEF WaitEvent, Types, States, PC
  <2>3. CASE queue = <<>>
    <3>1. pc' \in {"run", "recv"} /\ UNCHANGED <<queue, waiter, last, g>>
      BY <1>2, <2>3 DEF WaitEvent
    <3> QED BY <1>2, <2>1, <2>3, <3>1 DEF WaitEvent, Types, States, PC
  <2> QED BY <2>2, <2>3
<1>3. CASE WaitReturns
  <2>1. event' \in EType /\ cur' \in 0..NE
    <3>1. CASE cur' = last.ev /\ UNCHANGED event
      BY <3>1, EventsAssumption DEF Types, Message, NoMessage
    <3>2. CASE cur' = 0 /\ UNCHANGED event
      BY <3>2, EventsAssumption DEF Types
    <3>3. CASE Unused # {} /\ cur' = New /\ event' = Make("GENERIC", 0)
      BY <3>3, MadeTypes, EventsAssumption DEF Kinds
    <3> QED BY <1>3, <3>1, <3>2, <3>3 DEF WaitReturns
  <2> QED BY <1>3, <2>1 DEF WaitReturns, Types, States, PC
<1>4. CASE ReplyEvent
  <2>1. InHand \in 0..MaxReq
    <3>1. CASE Kind(cur) = "COAP_REQ"
      <4>1. cur \in Event /\ event[cur].kind = "COAP_REQ"
        BY <3>1 DEF Kind, Types, Event
      <4>2. event[cur] \in [kind : Kinds, pdu : 0..MaxReq]
        BY <4>1 DEF Types, Free
      <4> QED BY <3>1, <4>2 DEF InHand
    <3>2. CASE Kind(cur) # "COAP_REQ"
      BY <3>2, EventsAssumption DEF InHand
    <3> QED BY <3>1, <3>2
  <2>2. event' \in EType /\ New \in 0..NE /\ New # 0
    BY <1>4, <2>1, MadeTypes DEF ReplyEvent, Kinds
  <2>3. /\ g' \in [st : {"idle", "reply", "send", "answered"}, ev : 0..NE]
        /\ g' = g \/ (g'.st = "answered" /\ g'.ev # 0)
    BY <1>4, <2>2 DEF ReplyEvent, Types
  <2> QED BY <1>4, <2>2, <2>3 DEF ReplyEvent, Types, States
<1>5. CASE SetTimeout
  <2>1. event' \in EType /\ timers' \subseteq Event
    BY <1>5, MadeTypes, EventsAssumption DEF SetTimeout, Kinds, Types
  <2> QED BY <1>5, <2>1 DEF SetTimeout, Calls, Types, States
<1>6. CASE End
  BY <1>6 DEF End, Types, States, PC
<1>7. CASE Reboot
  <2>1. event' \in EType /\ g' = [st |-> "idle", ev |-> 0] /\ 0 \in 0..NE /\ 0 \in 0..MaxReq
    BY <1>7, EventsAssumption DEF Reboot, Idle
  <2>2. queue' \in Seq(Message) /\ queue' = <<>> /\ waiter' = <<>> /\ Len(<<>>) = 0
        /\ waiter' \in Seq(Message) /\ QueueSize \in Nat
    BY <1>7, EventsAssumption DEF Reboot
  <2> QED BY <1>7, <2>1, <2>2 DEF Reboot, Types, States, PC
<1> QED BY <1>1, <1>2, <1>3, <1>4, <1>5, <1>6, <1>7 DEF Uj

\* Types hold after the board has been switched on.
LEMMA InitTyped == ASSUME Init PROVE Types /\ States
<1>1. /\ event \in [Event -> {Free} \cup [kind : Kinds, pdu : 0..MaxReq]]
      /\ g = [st |-> "idle", ev |-> 0] /\ 0 \in 0..NE /\ 0 \in 0..MaxReq
  BY EventsAssumption DEF Init, Idle
<1>2. queue \in Seq(Message) /\ Len(queue) = 0 /\ waiter \in Seq(Message) /\ QueueSize \in Nat
  BY EventsAssumption DEF Init
<1> QED BY <1>1, <1>2 DEF Init, Types, States, PC

\* Every step keeps types.
LEMMA NextTyped == ASSUME Types, States, [Next]_vars PROVE Types' /\ States'
<1>1. CASE UNCHANGED vars
  BY <1>1 DEF vars, Types, States
<1> QED BY <1>1, InterruptsTyped, CoapTyped, UjTyped DEF Next

-----------------------------------------------------------------------------
(* Every event has one owner. *)

Evs(M) == {M[n].ev : n \in DOMAIN M}

\* A message at the end of a sequence whose events it is not about.
LEMMA AppendOnce ==
  ASSUME NEW M \in Seq(Message), Once(M), NEW m \in Message, m.ev = 0 \/ m.ev \notin Evs(M)
  PROVE  Once(Append(M, m)) /\ Evs(Append(M, m)) = Evs(M) \cup {m.ev}
<1> DEFINE A == Append(M, m)
           k == Len(M) + 1
<1>1. /\ k \in Nat /\ k \notin DOMAIN M /\ DOMAIN A = DOMAIN M \cup {k} /\ A[k] = m
      /\ \A n \in DOMAIN M : A[n] = M[n]
  OBVIOUS
<1> HIDE DEF A, k
<1>2. Once(A)
  BY <1>1 DEF Once, Evs
<1>3. Evs(A) = Evs(M) \cup {m.ev}
  BY <1>1 DEF Evs
<1> QED BY <1>2, <1>3 DEF A

\* The first message taken off.
LEMMA TailOnce ==
  ASSUME NEW M \in Seq(Message), Once(M), M # <<>>
  PROVE  /\ Once(Tail(M)) /\ Evs(Tail(M)) \subseteq Evs(M)
         /\ Head(M).ev \in Evs(M) /\ Evs(M) \subseteq Evs(Tail(M)) \cup {Head(M).ev}
         /\ 1 \in DOMAIN M /\ Head(M) = M[1]
         /\ Head(M).ev = 0 \/ Head(M).ev \notin Evs(Tail(M))
         /\ \A n \in DOMAIN Tail(M) : n + 1 \in DOMAIN M /\ Tail(M)[n] = M[n + 1]
<1> DEFINE T == Tail(M)
           m == Head(M)
<1>1. /\ \A n \in DOMAIN T : n \in Nat /\ n # 0 /\ n + 1 \in DOMAIN M /\ T[n] = M[n + 1]
      /\ 1 \in DOMAIN M /\ m = M[1]
  OBVIOUS
<1> HIDE DEF T, m
<1>2. Once(T)
  <2> SUFFICES ASSUME NEW i \in DOMAIN T, NEW j \in DOMAIN T, T[i].ev = T[j].ev, T[i].ev # 0
               PROVE  i = j
    BY DEF Once
  <2>1. i + 1 = j + 1
    BY <1>1 DEF Once
  <2> QED BY <1>1, <2>1
<1>3. Evs(T) \subseteq Evs(M) /\ m.ev \in Evs(M)
  BY <1>1 DEF Evs
<1>5. Evs(M) \subseteq Evs(T) \cup {m.ev}
  <2> SUFFICES ASSUME NEW i \in DOMAIN M PROVE M[i] = m \/ \E n \in DOMAIN T : M[i] = T[n]
    BY DEF Evs
  <2>1. i # 1 => i - 1 \in DOMAIN T /\ T[i - 1] = M[i]
    BY DEF T
  <2> QED BY <1>1, <2>1
<1>4. m.ev = 0 \/ m.ev \notin Evs(T)
  <2> SUFFICES ASSUME NEW n \in DOMAIN T, T[n].ev = m.ev, m.ev # 0 PROVE FALSE
    BY DEF Evs
  <2>1. n + 1 = 1
    BY <1>1 DEF Once
  <2> QED BY <1>1, <2>1
<1> QED BY <1>1, <1>2, <1>3, <1>4, <1>5 DEF T, m

\* All messages are a sequence of messages, and so are they after what a step does.
LEMMA MessagesOK ==
  ASSUME Types
  PROVE  /\ Messages \in Seq(Message) /\ Posted = Evs(Messages)
         /\ queue # <<>> => Messages # <<>> /\ Head(Messages) = Head(queue)
                            /\ Tail(queue) \o waiter = Tail(Messages)
         /\ waiter = <<>> => Messages = queue
BY DEF Types, Messages, Posted, Evs

\* A message at the end of the queue, or of a sender who has to wait, is the last one.
LEMMA AppendedQueue ==
  ASSUME Types, waiter = <<>>, NEW m \in Message,
         \/ queue' = Append(queue, m) /\ waiter' = waiter
         \/ queue' = queue /\ waiter' = <<m>>
  PROVE  Messages' = Append(Messages, m)
<1>1. Messages = queue /\ queue \in Seq(Message) /\ Append(queue, m) \in Seq(Message)
  BY MessagesOK DEF Types
<1>2. Append(queue, m) \o <<>> = Append(queue, m)
  BY <1>1
<1>3. queue \o <<m>> = Append(queue, m)
  BY <1>1
<1> QED BY <1>1, <1>2, <1>3 DEF Messages

\* The message that is received is the first one.
LEMMA TakenQueue ==
  ASSUME Types, queue # <<>>, TakeFirst
  PROVE  Messages' = Tail(Messages) /\ last' = Head(Messages) /\ Messages # <<>>
<1>1. queue' = Tail(queue) \o waiter /\ waiter' = <<>> /\ last' = Head(queue)
  BY DEF TakeFirst
<1>2. Tail(queue) \in Seq(Message)
  BY DEF Types
<1>3. Tail(queue) \o waiter \in Seq(Message)
  BY <1>2 DEF Types
<1>4. queue' \o <<>> = queue'
  BY <1>1, <1>3
<1>5. Messages' = queue'
  BY <1>1, <1>4 DEF Messages
<1> QED BY <1>1, <1>5, MessagesOK

\* What is owned.
LEMMA OwnedIs ==
  Owned = (Posted \cup timers \cup {cur, g.ev, Received}) \ {0}
<1> DEFINE r == g.ev
           P == Posted
           v == Received
<1> HIDE DEF r, P, v
<1>1. Range(<<P, timers, {cur}, {r}, {v}>>) = {P, timers, {cur}, {r}, {v}}
  BY DEF Range
<1>2. UNION {P, timers, {cur}, {r}, {v}} = P \cup timers \cup {cur, r, v}
  OBVIOUS
<1>3. Places = <<P, timers, {cur}, {r}, {v}>>
  BY DEF Places, P, r, v
<1>4. Owned = (P \cup timers \cup {cur, r, v}) \ {0}
  <2>1. Range(Places) = {P, timers, {cur}, {r}, {v}}
    BY <1>1, <1>3
  <2>2. Owned = (UNION {P, timers, {cur}, {r}, {v}}) \ {0}
    BY <2>1 DEF Owned
  <2> QED BY <1>2, <2>2
<1> QED BY <1>4 DEF P, r, v

\* The same of the next state.
LEMMA OwnedIsNext ==
  (Owned = (Posted \cup timers \cup {cur, g.ev, Received}) \ {0})'
BY OwnedIs, PTL

\* Owned addresses are addresses.
LEMMA OwnedEvents == ASSUME Types PROVE Owned \subseteq Event /\ Posted \subseteq 0..NE
                                        /\ Received \in 0..NE
<1>1. Posted \subseteq 0..NE
  <2>1. \A n \in DOMAIN Messages : Messages[n] \in Message
    BY MessagesOK
  <2> QED BY <2>1 DEF Posted, Message
<1>2. Received \in 0..NE /\ g.ev \in 0..NE /\ cur \in 0..NE
  BY EventsAssumption DEF Received, Types, Message, NoMessage
<1>3. timers \subseteq 0..NE /\ 0..NE \ {0} = Event
  BY EventsAssumption DEF Types, Event
<1>4. Owned \subseteq 0..NE
  BY <1>1, <1>2, <1>3, OwnedIs
<1>5. 0 \notin Owned
  BY OwnedIs
<1> QED BY <1>1, <1>2, <1>3, <1>4, <1>5

\* A step that takes a message with event e, which nobody else has, to its receiver or
\* the end of the messages, if it does not lose it.
LEMMA Arrives ==
  ASSUME Types, States, Own, Types', NEW m \in Message,
         m.ev \notin (Posted \cup {cur, g.ev, Received}) \ {0}, m.ev \notin timers' \ {0},
         timers' \subseteq timers, cur' = cur, g'.ev \in {g.ev, 0},
         m.ev # 0 => event'[m.ev] # Free,
         \A e \in Owned : event'[e] = event[e],
         \/ pc = "recv" /\ pc' = "got" /\ last' = m /\ Messages' = Messages
         \/ pc # "recv" /\ pc' = pc /\ last' = last /\ Messages' = Append(Messages, m)
         \/ Received' = Received /\ Messages' = Messages
  PROVE  Own'
<1> DEFINE e == m.ev
           P == Posted
           v == Received
           r == g.ev
           Q == Posted'
           w == Received'
           q == g'.ev
<1>1. /\ Messages \in Seq(Message) /\ P = Evs(Messages) /\ Q = Evs(Messages')
      /\ Once(Messages)
  BY MessagesOK DEF Own, Posted, Evs
<1>2. /\ Once(Messages')
      /\ \/ Q = P /\ w = v
         \/ Q = P /\ v = 0 /\ w = e
         \/ Q = P \cup {e} /\ w = v
  <2>1. CASE pc = "recv" /\ pc' = "got" /\ last' = m /\ Messages' = Messages
    BY <1>1, <2>1 DEF Received
  <2>2. CASE pc # "recv" /\ pc' = pc /\ last' = last /\ Messages' = Append(Messages, m)
    BY <1>1, <2>2, AppendOnce DEF Received
  <2>3. CASE Received' = Received /\ Messages' = Messages
    BY <1>1, <2>3
  <2> QED BY <2>1, <2>2, <2>3
<1>3. /\ Apart(P, timers, cur, r, v) /\ Allocated(P, timers, cur, r, v, event)
      /\ \A x \in (P \cup timers \cup {cur, r, v}) \ {0} : event'[x] = event[x]
  BY OwnedIs DEF Own
<1>4. e \notin (P \cup {cur, r, v}) \ {0} /\ e \notin timers' \ {0} /\ q \in {r, 0}
  OBVIOUS
<1> HIDE DEF e, P, v, r, Q, w, q
<1>5. Apart(Q, timers', cur', q, w)
  BY <1>2, <1>3, <1>4 DEF Apart
<1>6. Allocated(Q, timers', cur', q, w, event')
  <2>1. e # 0 => event'[e] # Free
    BY DEF e
  <2> QED BY <1>2, <1>3, <1>4, <2>1 DEF Allocated
<1> QED BY <1>2, <1>5, <1>6 DEF Own, Q, w, q

\* A new event is nobody's.
LEMMA NewIsNobodys ==
  ASSUME Types, Own, Unused # {}
  PROVE  New \notin Owned /\ New # 0
<1>1. \A e \in Owned : event[e] # Free
  BY OwnedIs DEF Own, Allocated
<1> QED BY <1>1, NewUnused, EventsAssumption DEF Event

\* A message of an interrupt goes to the receiver, to the queue or nowhere.
LEMMA InterruptMoves ==
  ASSUME Types, States, NEW m \in Message, FromInterrupt(m), UNCHANGED waiter
  PROVE  \/ pc = "recv" /\ pc' = "got" /\ last' = m /\ Messages' = Messages
         \/ pc # "recv" /\ pc' = pc /\ last' = last /\ Messages' = Append(Messages, m)
         \/ /\ Received' = Received /\ Messages' = Messages /\ last' = last
            /\ Full \/ ~Present
<1>1. CASE Deliver(m)
  BY <1>1, DeliverOK, AppendedQueue DEF Messages
<1>2. CASE UNCHANGED <<last, pc, queue>> /\ (Full \/ ~Present)
  BY <1>2 DEF Received, Messages
<1> QED BY <1>1, <1>2 DEF FromInterrupt

\* Interrupts: a new event, the event of a timer, or no event.
LEMMA InterruptsOwn == ASSUME Types, States, Own, Types', Interrupt PROVE Own'
<1> DEFINE I(e) == [ev |-> e, from |-> "isr"]
<1>1. CASE GpioInterrupt
  <2>1. /\ "GPIO" \in Kinds /\ 0 \in 0..MaxReq /\ Unused # {}
        /\ event' = Make("GPIO", 0) /\ FromInterrupt(I(New))
        /\ UNCHANGED <<waiter, cur, timers, g>>
    BY <1>1, CanMakeUnused, EventsAssumption DEF GpioInterrupt, Kinds
  <2>2. /\ New \notin Owned /\ New # 0 /\ New \in 0..NE
        /\ event'[New] # Free /\ \A e \in Owned : event'[e] = event[e]
    BY <2>1, NewIsNobodys, MadeTypes, MakeOK, OwnedEvents
  <2>3. I(New) \in Message /\ I(New).ev = New
    BY <2>2 DEF Message
  <2>4. PICK m \in Message : m = I(New)
    BY <2>3
  <2>5. \/ pc = "recv" /\ pc' = "got" /\ last' = m /\ Messages' = Messages
        \/ pc # "recv" /\ pc' = pc /\ last' = last /\ Messages' = Append(Messages, m)
        \/ Received' = Received /\ Messages' = Messages
    BY <2>1, <2>4, InterruptMoves
  <2>6. /\ m.ev \notin (Posted \cup {cur, g.ev, Received}) \ {0} /\ m.ev \notin timers' \ {0}
        /\ (m.ev # 0 => event'[m.ev] # Free)
    BY <2>1, <2>2, <2>3, <2>4, OwnedIs
  <2> QED BY <2>1, <2>2, <2>5, <2>6, Arrives
<1>2. ASSUME NEW e \in timers, TimerFires(e) PROVE Own'
  <2>1. /\ timers' = timers \ {e} /\ FromInterrupt(I(e))
        /\ UNCHANGED <<event, waiter, cur, g>>
    BY <1>2 DEF TimerFires
  <2>2. PICK m \in Message : m = I(e)
    <3>1. I(e) \in Message
      BY EventsAssumption DEF Message, Types, Event
    <3> QED BY <3>1
  <2>3. \/ pc = "recv" /\ pc' = "got" /\ last' = m /\ Messages' = Messages
        \/ pc # "recv" /\ pc' = pc /\ last' = last /\ Messages' = Append(Messages, m)
        \/ Received' = Received /\ Messages' = Messages
    BY <2>1, <2>2, InterruptMoves
  <2>4. /\ m.ev = e /\ e \notin (Posted \cup {cur, g.ev, Received}) \ {0}
        /\ (e # 0 => event[e] # Free)
    BY <2>2 DEF Own, Apart, Allocated
  <2> QED BY <2>1, <2>3, <2>4, Arrives
<1>3. CASE TimeoutFires
  <2>1. FromInterrupt(Timeout) /\ UNCHANGED <<event, waiter, cur, timers, g>>
    BY <1>3 DEF TimeoutFires
  <2>2. PICK m \in Message : m = Timeout
    <3>1. Timeout \in Message
      BY EventsAssumption DEF Message, Timeout
    <3> QED BY <3>1
  <2>3. \/ pc = "recv" /\ pc' = "got" /\ last' = m /\ Messages' = Messages
        \/ pc # "recv" /\ pc' = pc /\ last' = last /\ Messages' = Append(Messages, m)
        \/ Received' = Received /\ Messages' = Messages
    BY <2>1, <2>2, InterruptMoves
  <2>4. m.ev = 0
    BY <2>2 DEF Timeout
  <2> QED BY <2>1, <2>3, <2>4, Arrives
<1> QED BY <1>1, <1>2, <1>3 DEF Interrupt

\* A message of the CoAP thread goes to the receiver, or it is the last one.
LEMMA SendMoves ==
  ASSUME Types, States, NEW m \in Message, NEW st \in {"send", "reply"}, Send(m, st),
         g.st = "idle"
  PROVE  /\ \/ pc = "recv" /\ pc' = "got" /\ last' = m /\ Messages' = Messages
            \/ pc # "recv" /\ pc' = pc /\ last' = last /\ Messages' = Append(Messages, m)
         /\ g.ev = 0 /\ g'.ev = 0
<1>1. waiter = <<>> /\ g.ev = 0
  BY DEF States
<1>2. CASE Deliver(m) /\ g' = (IF st = "reply" THEN [st |-> "reply", ev |-> 0] ELSE g)
           /\ waiter' = waiter
  BY <1>1, <1>2, DeliverOK, AppendedQueue DEF Messages
<1>3. CASE /\ Full /\ waiter' = <<m>> /\ g' = [st |-> st, ev |-> 0]
           /\ UNCHANGED <<queue, last, pc>>
  BY <1>1, <1>3, AppendedQueue DEF Full
<1> QED BY <1>2, <1>3 DEF Send

\* An event that the CoAP thread makes and posts.
LEMMA PostOwn ==
  ASSUME Types, States, Own, Types', NEW k \in Kinds, NEW n \in 0..MaxReq, CanMake,
         event' = Make(k, n), UNCHANGED <<cur, timers>>, g.st = "idle",
         \/ \E st \in {"send", "reply"} : Send([ev |-> New, from |-> "gcoap"], st)
         \/ UNCHANGED <<queue, last, pc, waiter, g>>
  PROVE  Own'
<1>1. /\ New \notin Owned /\ New # 0 /\ New \in 0..NE
      /\ event'[New] # Free /\ \A e \in Owned : event'[e] = event[e]
  BY CanMakeUnused, NewIsNobodys, MadeTypes, MakeOK, OwnedEvents
<1>2. PICK m \in Message : m = [ev |-> New, from |-> "gcoap"]
  BY <1>1 DEF Message
<1>3. m.ev = New
  BY <1>2
<1>4. /\ \/ pc = "recv" /\ pc' = "got" /\ last' = m /\ Messages' = Messages
         \/ pc # "recv" /\ pc' = pc /\ last' = last /\ Messages' = Append(Messages, m)
         \/ Received' = Received /\ Messages' = Messages
      /\ g'.ev \in {g.ev, 0}
  <2>1. CASE UNCHANGED <<queue, last, pc, waiter, g>>
    BY <2>1 DEF Received, Messages
  <2>2. ASSUME NEW st \in {"send", "reply"}, Send([ev |-> New, from |-> "gcoap"], st)
        PROVE  /\ \/ pc = "recv" /\ pc' = "got" /\ last' = m /\ Messages' = Messages
                  \/ pc # "recv" /\ pc' = pc /\ last' = last
                     /\ Messages' = Append(Messages, m)
               /\ g'.ev = 0
    BY <1>2, <2>2, SendMoves
  <2> QED BY <2>1, <2>2
<1>5. /\ m.ev \notin (Posted \cup {cur, g.ev, Received}) \ {0} /\ m.ev \notin timers' \ {0}
  BY <1>1, <1>3, OwnedIs
<1> QED BY <1>1, <1>3, <1>4, <1>5, Arrives

\* The same places, whose events keep their memory.
LEMMA NothingMoves ==
  ASSUME Own, UNCHANGED <<queue, waiter, timers, cur>>, g'.ev \in {g.ev, 0},
         Received' \in {Received, 0},
         \A e \in Owned' : event'[e] = event[e]
  PROVE  Own'
<1> DEFINE r == g.ev
           P == Posted
           v == Received
           q == g'.ev
           w == Received'
           M == Messages
           Q == Posted'
<1>1. Messages' = M /\ Q = P
  BY DEF Messages, Posted
<1>2. \A x \in (Q \cup timers' \cup {cur', q, w}) \ {0} : event'[x] = event[x]
  <2>1. Owned' = (Q \cup timers' \cup {cur', q, w}) \ {0}
    BY OwnedIsNext
  <2> QED BY <2>1
<1>3. Once(M) /\ Apart(P, timers, cur, r, v) /\ Allocated(P, timers, cur, r, v, event)
  BY DEF Own
<1> HIDE DEF r, P, v, q, w, M, Q
<1>4. Apart(P, timers', cur', q, w)
  BY <1>3 DEF Apart, r, v, q, w
<1>5. Allocated(P, timers', cur', q, w, event')
  BY <1>1, <1>2, <1>3 DEF Allocated, r, v, q, w
<1> QED BY <1>1, <1>3, <1>4, <1>5 DEF Own, M, q, w, P, Q

\* The CoAP thread makes events and posts them, and frees its reply.
LEMMA CoapOwn == ASSUME Types, States, Own, Types', Gcoap PROVE Own'
<1>1. CASE HandleRequest
  <2>1. /\ "COAP_REQ" \in Kinds /\ buf + 1 \in 0..MaxReq /\ CanMake /\ g.st = "idle"
        /\ UNCHANGED <<cur, timers>>
    BY <1>1, EventsAssumption DEF HandleRequest, Types, Kinds
  <2>2. CASE Present /\ event' = Make("COAP_REQ", buf + 1)
             /\ Send([ev |-> New, from |-> "gcoap"], "reply")
    BY <2>1, <2>2, PostOwn
  <2>3. CASE UNCHANGED <<event, queue, last, pc, waiter, g>>
    BY <2>1, <2>3, NothingMoves DEF Received
  <2> QED BY <1>1, <2>2, <2>3 DEF HandleRequest
<1>2. CASE Respond
  <2>1. /\ event' = Freed(g.ev) /\ g'.ev = 0 /\ Received' = Received
        /\ UNCHANGED <<queue, waiter, timers, cur, last, pc>>
    BY <1>2 DEF Respond, Idle, Received
  <2>2. ASSUME NEW e \in Owned' PROVE event'[e] = event[e]
    <3>1. /\ e # 0 /\ e \in Posted \cup timers \cup {cur, Received}
      <4>1. Posted' = Posted
        BY <2>1 DEF Posted, Messages
      <4>2. Owned' = (Posted' \cup timers' \cup {cur', g'.ev, Received'}) \ {0}
        BY OwnedIsNext
      <4> QED BY <2>1, <4>1, <4>2
    <3>2. e # g.ev
      BY <3>1 DEF Own, Apart
    <3>3. e \in Event /\ g.ev \in 0..NE
      BY <3>1, OwnedIs, OwnedEvents DEF Types
    <3> QED BY <2>1, <3>2, <3>3, FreedOK
  <2> QED BY <2>1, <2>2, NothingMoves
<1>3. CASE HandleResponse
  <2>1. /\ "COAP_RESP" \in Kinds /\ buf + 1 \in 0..MaxReq /\ CanMake /\ g.st = "idle"
        /\ UNCHANGED <<cur, timers>>
    BY <1>3, EventsAssumption DEF HandleResponse, Types, Kinds
  <2>2. CASE Present /\ event' = Make("COAP_RESP", buf + 1)
             /\ Send([ev |-> New, from |-> "gcoap"], "send")
    BY <2>1, <2>2, PostOwn
  <2>3. CASE UNCHANGED <<event, queue, last, pc, waiter, g>>
    BY <2>1, <2>3, NothingMoves DEF Received
  <2> QED BY <1>3, <2>2, <2>3 DEF HandleResponse
<1>4. CASE PostUpdateReady
  <2>1. /\ "UPD_RDY" \in Kinds /\ 0 \in 0..MaxReq /\ CanMake /\ g.st = "idle"
        /\ UNCHANGED <<cur, timers>> /\ event' = Make("UPD_RDY", 0)
        /\ \/ Send([ev |-> New, from |-> "gcoap"], "send")
           \/ UNCHANGED <<queue, last, pc, waiter, g>>
    BY <1>4, EventsAssumption DEF PostUpdateReady, Kinds
  <2> QED BY <2>1, PostOwn
<1> QED BY <1>1, <1>2, <1>3, <1>4 DEF Gcoap

\* An event that the uj thread makes: a timer, the one in hand, a reply or nobody's.
LEMMA MadePlaced ==
  ASSUME Types, Own, Unused # {}, NEW k \in Kinds, NEW n \in 0..MaxReq, event' = Make(k, n),
         UNCHANGED <<queue, waiter>>, Received' \in {Received, 0},
         \/ timers' \subseteq timers \cup {New} /\ cur' = cur /\ g'.ev = g.ev
         \/ timers' = timers /\ cur' = New /\ g'.ev = g.ev
         \/ timers' = timers /\ cur' = cur /\ g'.ev = New
  PROVE  Own'
<1> DEFINE r == g.ev
           P == Posted
           v == Received
           q == g'.ev
           w == Received'
           M == Messages
           Q == Posted'
           e == New
<1>1. Messages' = M /\ Q = P
  BY DEF Messages, Posted
<1>2. /\ e \notin (P \cup timers \cup {cur, r, v}) \ {0} /\ e # 0 /\ event'[e] # Free
      /\ \A x \in (P \cup timers \cup {cur, r, v}) \ {0} : event'[x] = event[x]
  BY NewIsNobodys, MakeOK, OwnedIs, OwnedEvents
<1>3. Once(M) /\ Apart(P, timers, cur, r, v) /\ Allocated(P, timers, cur, r, v, event)
  BY DEF Own
<1>4. /\ w \in {v, 0}
      /\ \/ timers' \subseteq timers \cup {e} /\ cur' = cur /\ q = r
         \/ timers' = timers /\ cur' = e /\ q = r
         \/ timers' = timers /\ cur' = cur /\ q = e
  OBVIOUS
<1> HIDE DEF r, P, v, q, w, M, Q, e
<1>5. Apart(P, timers', cur', q, w)
  BY <1>2, <1>3, <1>4 DEF Apart
<1>6. Allocated(P, timers', cur', q, w, event')
  BY <1>2, <1>3, <1>4 DEF Allocated
<1> QED BY <1>1, <1>3, <1>5, <1>6 DEF Own, M, q, w, P, Q

\* The first timer.
LEMMA InitEventsOwn == ASSUME Types, States, Own, InitEvents PROVE Own'
<1>1. pc = "boot" /\ Received' = 0 /\ UNCHANGED <<queue, waiter, cur, g>>
  BY DEF InitEvents, Received
<1>2. CASE UNCHANGED <<event, timers>>
  BY <1>1, <1>2, NothingMoves
<1>3. CASE CanMake /\ event' = Make("TIMER", 0) /\ timers' = {New}
  <2>1. Unused # {} /\ "TIMER" \in Kinds /\ 0 \in 0..MaxReq
    BY <1>3, CanMakeUnused, EventsAssumption DEF Kinds
  <2> QED BY <1>1, <1>3, <2>1, MadePlaced
<1> QED BY <1>2, <1>3 DEF InitEvents

\* The event in hand is freed; with a message there, its event is the one received.
LEMMA WaitEventOwn ==
  ASSUME Types, States, Own, NEW t \in {"zero", "timed", "forever"}, WaitEvent(t)
  PROVE  Own'
<1> DEFINE r == g.ev
           P == Posted
           M == Messages
           Q == Posted'
           w == Received'
           q == g'.ev
<1>1. /\ event' = Freed(cur) /\ cur' = 0 /\ timers' = timers /\ Received = 0
  BY DEF WaitEvent, Calls, Received
<1>2. /\ M \in Seq(Message) /\ P = Evs(M) /\ Once(M) /\ Q = Evs(Messages')
  BY MessagesOK DEF Own, Posted, Evs
<1>3. /\ q = r /\ Once(Messages')
      /\ Q \subseteq P /\ w \in P \cup {0} /\ (w = 0 \/ w \notin Q)
  <2>1. CASE queue # <<>>
    <3>1. TakeFirst /\ pc' = "got"
      BY <2>1 DEF WaitEvent
    <3>2. q = r
      BY <2>1, <3>1, TakeFirstTypes
    <3>3. Messages' = Tail(M) /\ w = Head(M).ev /\ M # <<>>
      BY <2>1, <3>1, TakenQueue DEF Received
    <3> QED BY <1>2, <3>2, <3>3, TailOnce
  <2>2. CASE queue = <<>>
    <3>1. pc' \in {"run", "recv"} /\ UNCHANGED <<queue, waiter, g>>
      BY <2>2 DEF WaitEvent
    <3> QED BY <1>2, <3>1 DEF Received, Messages
  <2> QED BY <2>1, <2>2
<1>4. Apart(P, timers, cur, r, 0) /\ Allocated(P, timers, cur, r, 0, event)
  BY <1>1 DEF Own
<1>5. \A x \in (P \cup timers \cup {r}) \ {0} : x # cur => event'[x] = event[x]
  <2>1. ASSUME NEW x \in (P \cup timers \cup {r}) \ {0}, x # cur PROVE event'[x] = event[x]
    <3>1. x \in Event /\ cur \in 0..NE
      BY OwnedIs, OwnedEvents DEF Types
    <3> QED BY <1>1, <2>1, <3>1, FreedOK
  <2> QED BY <2>1
<1> HIDE DEF r, P, M, Q, w, q
<1>6. Apart(Q, timers', cur', q, w)
  BY <1>1, <1>3, <1>4 DEF Apart
<1>7. Allocated(Q, timers', cur', q, w, event')
  <2>1. \A x \in (P \cup timers \cup {r}) \ {0} : x # cur
    BY <1>4 DEF Apart
  <2> QED BY <1>1, <1>3, <1>4, <1>5, <2>1 DEF Allocated
<1> QED BY <1>3, <1>6, <1>7 DEF Own, q, w, Q

\* The event that was received comes into the hands of the program.
LEMMA WaitReturnsOwn == ASSUME Types, States, Own, WaitReturns PROVE Own'
<1>1. /\ pc = "got" /\ Received' = 0 /\ cur = 0
      /\ UNCHANGED <<queue, waiter, timers, g>>
  BY DEF WaitReturns, Received, States
<1>2. CASE cur' = last.ev /\ UNCHANGED event
  <2> DEFINE r == g.ev
             P == Posted
             v == Received
             M == Messages
             q == g'.ev
             w == Received'
             Q == Posted'
  <2>1. /\ Messages' = M /\ Q = P /\ cur' = v /\ q = r /\ w = 0
    BY <1>1, <1>2 DEF Messages, Posted, Received
  <2>2. Once(M) /\ Apart(P, timers, 0, r, v) /\ Allocated(P, timers, 0, r, v, event)
    BY <1>1 DEF Own
  <2> HIDE DEF r, P, v, M, q, w, Q
  <2>3. Apart(Q, timers', cur', q, w)
    BY <1>1, <2>1, <2>2 DEF Apart
  <2>4. Allocated(Q, timers', cur', q, w, event')
    BY <1>1, <1>2, <2>1, <2>2 DEF Allocated
  <2> QED BY <2>1, <2>2, <2>3, <2>4 DEF Own, q, w, Q, M
<1>3. CASE cur' = 0 /\ UNCHANGED event
  BY <1>1, <1>3, NothingMoves
<1>4. CASE Unused # {} /\ cur' = New /\ event' = Make("GENERIC", 0)
  <2>1. "GENERIC" \in Kinds /\ 0 \in 0..MaxReq
    BY EventsAssumption DEF Kinds
  <2> QED BY <1>1, <1>4, <2>1, MadePlaced
<1> QED BY <1>2, <1>3, <1>4 DEF WaitReturns

\* The number of the request in hand is one.
LEMMA InHandOK == ASSUME Types PROVE InHand \in 0..MaxReq
<1>1. CASE Kind(cur) = "COAP_REQ"
  <2>1. cur \in Event /\ event[cur].kind = "COAP_REQ"
    BY <1>1 DEF Kind, Types, Event
  <2>2. event[cur] \in [kind : Kinds, pdu : 0..MaxReq]
    BY <2>1 DEF Types, Free
  <2> QED BY <1>1, <2>2 DEF InHand
<1>2. CASE Kind(cur) # "COAP_REQ"
  BY <1>2, EventsAssumption DEF InHand
<1> QED BY <1>1, <1>2

\* The uj thread.
LEMMA UjOwn == ASSUME Types, States, Own, Uj PROVE Own'
<1>1. CASE ReplyEvent
  <2>1. /\ InHand \in 0..MaxReq /\ "COAP_REPLY" \in Kinds /\ Unused # {}
        /\ event' = Make("COAP_REPLY", InHand) /\ UNCHANGED <<queue, waiter, cur, timers>>
        /\ Received' = Received /\ (g'.ev = New \/ g'.ev = g.ev)
    BY <1>1, InHandOK DEF ReplyEvent, Kinds, Received
  <2>2. timers' = timers /\ timers' \subseteq timers \cup {New}
    BY <2>1
  <2> QED BY <2>1, <2>2, MadePlaced
<1>2. CASE SetTimeout
  <2>1. /\ "TIMER" \in Kinds /\ 0 \in 0..MaxReq /\ Unused # {} /\ Received' = Received
        /\ event' = Make("TIMER", 0) /\ UNCHANGED <<queue, waiter, cur, g>>
        /\ timers' \subseteq timers \cup {New}
    BY <1>2, EventsAssumption DEF SetTimeout, Kinds, Received
  <2> QED BY <2>1, MadePlaced
<1>3. CASE End
  <2>1. UNCHANGED <<queue, waiter, timers, cur, event, g>> /\ Received' = 0
    BY <1>3 DEF End, Received
  <2> QED BY <2>1, NothingMoves
<1>4. CASE Reboot
  <2>1. /\ queue' = <<>> /\ waiter' = <<>> /\ timers' = {} /\ cur' = 0 /\ g'.ev = 0
        /\ Received' = 0
    BY <1>4 DEF Reboot, Idle, Received
  <2>2. Messages' = <<>> /\ Posted' = {}
    BY <2>1 DEF Messages, Posted
  <2> QED BY <2>1, <2>2 DEF Own, Once, Apart, Allocated
<1> QED BY <1>1, <1>2, <1>3, <1>4, InitEventsOwn, WaitEventOwn, WaitReturnsOwn DEF Uj

\* Every step keeps owners apart.
LEMMA NextOwn == ASSUME Types, States, Own, [Next]_vars PROVE Own'
<1>1. CASE UNCHANGED vars
  BY <1>1, NothingMoves DEF vars, Received
<1>2. Types'
  BY NextTyped
<1> QED BY <1>1, <1>2, InterruptsOwn, CoapOwn, UjOwn DEF Next

\* Nothing is owned at first.
LEMMA InitOwn == ASSUME Init PROVE Own
<1>1. Messages = <<>> /\ Posted = {}
  BY DEF Init, Messages, Posted
<1>2. timers = {} /\ cur = 0 /\ g.ev = 0 /\ Received = 0
  BY DEF Init, Idle, Received
<1> QED BY <1>1, <1>2 DEF Own, Once, Apart, Allocated

\* Places that are apart, one by one.
LEMMA PlacesApart ==
  ASSUME Own PROVE OwnedOnce
<1> DEFINE r == g.ev
           P == Posted
           v == Received
           A == <<P, timers, {cur}, {r}, {v}>>
<1>1. Apart(P, timers, cur, r, v) /\ Allocated(P, timers, cur, r, v, event)
  BY DEF Own
<1>2. Places = A
  BY DEF Places
<1>3. Owned = (P \cup timers \cup {cur, r, v}) \ {0}
  BY OwnedIs
<1> HIDE DEF r, P, v
<1>4. /\ P \cap timers \subseteq {0} /\ P \cap {cur} \subseteq {0}
      /\ P \cap {r} \subseteq {0} /\ P \cap {v} \subseteq {0}
      /\ timers \cap {cur} \subseteq {0} /\ timers \cap {r} \subseteq {0}
      /\ timers \cap {v} \subseteq {0}
      /\ {cur} \cap {r} \subseteq {0} /\ {cur} \cap {v} \subseteq {0}
      /\ {r} \cap {v} \subseteq {0}
  BY <1>1 DEF Apart
<1>5. /\ DOMAIN A = 1..5
      /\ A[1] = P /\ A[2] = timers /\ A[3] = {cur} /\ A[4] = {r} /\ A[5] = {v}
  OBVIOUS
<1> HIDE DEF A
<1>6. \A i, j \in DOMAIN A : i < j => A[i] \cap A[j] \subseteq {0}
  <2> SUFFICES ASSUME NEW i \in 1..5, NEW j \in 1..5, i < j PROVE A[i] \cap A[j] \subseteq {0}
    BY <1>5
  <2>1. CASE i = 1
    <3>1. j \in {2, 3, 4, 5}
      BY <2>1
    <3> QED BY <1>4, <1>5, <2>1, <3>1
  <2>2. CASE i = 2
    <3>1. j \in {3, 4, 5}
      BY <2>2
    <3> QED BY <1>4, <1>5, <2>2, <3>1
  <2>3. CASE i \in {3, 4}
    <3>1. \/ i = 3 /\ j \in {4, 5}
          \/ i = 4 /\ j = 5
      BY <2>3
    <3> QED BY <1>4, <1>5, <3>1
  <2> QED BY <2>1, <2>2, <2>3
<1>7. \A i, j \in DOMAIN A : i # j => A[i] \cap A[j] \subseteq {0}
  <2>1. \A i, j \in DOMAIN A : i # j => i < j \/ j < i
    BY <1>5
  <2>2. \A i, j \in DOMAIN A : A[i] \cap A[j] = A[j] \cap A[i]
    OBVIOUS
  <2> QED BY <1>6, <2>1, <2>2
<1>8. \A e \in Owned : event[e] # Free
  BY <1>1, <1>3 DEF Allocated
<1> QED BY <1>2, <1>7, <1>8 DEF OwnedOnce, Own, Once

-----------------------------------------------------------------------------
(* Types and ownership hold of every program. *)

\* The type invariant, for every number of events, length of the queue and number of
\* requests: the queue never holds more than it can, and only one sender waits.
THEOREM TypeCorrect == Spec => []TypeOK
<1>1. ASSUME Types, States PROVE TypeOK
  <2>1. ASSUME NEW m \in Range(queue \o waiter) PROVE m.ev \in 0..NE /\ m.from \in {"isr", "gcoap"}
    <3>1. queue \o waiter \in Seq(Message)
      BY <1>1 DEF Types
    <3>2. m \in Message
      BY <2>1, <3>1 DEF Range
    <3> QED BY <3>2 DEF Message
  <2> QED BY <1>1, <2>1 DEF TypeOK, Types, States, PC
<1>2. Types /\ States => TypeOK
  BY <1>1
<1> QED BY <1>2, InitTyped, NextTyped, PTL DEF Spec

\* Whatever the program does, an event has one owner who follows a pointer to it: it is
\* not freed twice, nor used after it was freed.
THEOREM EventsAlwaysOwnedOnce == Spec => []OwnedOnce
<1>1. Init => Types /\ States /\ Own
  BY InitTyped, InitOwn
<1>2. Types /\ States /\ Own /\ [Next]_vars => (Types /\ States /\ Own)'
  BY NextTyped, NextOwn
<1>3. Types /\ States /\ Own => OwnedOnce
  BY PlacesApart
<1> QED BY <1>1, <1>2, <1>3, PTL DEF Spec

-----------------------------------------------------------------------------
(* Requests of the default program. *)

\* What the default program does next, by the event in hand.
LEMMA HandlerIs ==
  /\ Handler = "wait" => handled \/ Kind(cur) # "COAP_REQ"
  /\ Handler = "reply" => ~handled /\ Kind(cur) = "COAP_REQ"
  /\ Handler = "setTimeout" => Kind(cur) = "TIMER"
BY DEF Handler

\* A step that leaves the open requests alone, in other places perhaps.
LEMMA TrackStep ==
  ASSUME Track, prog' = prog, Open' = Open,
         \A e \in Open : event'[e].pdu = event[e].pdu /\ (e \in Owned => e \in Owned'),
         g'.st = "reply" <=> g.st = "reply", g.st = "reply" => buf' = buf,
         g'.st = "answered" => /\ g.st = "answered" /\ g'.ev = g.ev
                               /\ event'[g.ev] = event[g.ev] /\ buf' = buf,
         prog = "default" =>
           /\ cur' \in Open => last'.from = "gcoap"
           /\ Received' \in Open => last'.from = "gcoap"
           /\ \A n \in DOMAIN Messages' :
                 Messages'[n].ev \in Open => Messages'[n].from = "gcoap",
         timers' \cap Open = {}
  PROVE  Track'
<1> SUFFICES ASSUME prog = "default" PROVE Track'
  BY DEF Track
<1>1. g'.st = "reply" => \E e \in Owned' : Open' = {e} /\ event'[e].pdu = buf'
  BY DEF Track
<1>2. g'.st # "reply" => Open' = {}
  BY DEF Track
<1>3. g'.st = "answered" => event'[g'.ev] = Ev("COAP_REPLY", buf')
  BY DEF Track
<1> QED BY <1>1, <1>2, <1>3 DEF Track

\* A step that makes an event of another kind, or none.
LEMMA OpenMade ==
  ASSUME Types, Own, Unused # {}, NEW k \in Kinds \ {"COAP_REQ"}, NEW n \in 0..MaxReq,
         event' = Make(k, n), cur' = cur,
         Kind(cur) = "COAP_REQ" => handled' = handled
  PROVE  Open' = Open /\ New \notin Open /\ \A e \in Owned \cup Open : event'[e] = event[e]
<1>1. /\ event'[New].kind = k /\ New \in Event /\ event[New].kind = "free" /\ New # 0
      /\ \A e \in Event : e # New => event'[e] = event[e]
  <2>1. /\ event'[New] = Ev(k, n) /\ New \in Event /\ event[New] = Free /\ New # 0
        /\ \A e \in Event : e # New => event'[e] = event[e]
    BY MakeOK
  <2>2. Ev(k, n).kind = k /\ Free.kind = "free"
    BY DEF Ev, Free
  <2> QED BY <2>1, <2>2
<1>2. New \notin Open /\ New \notin Owned
  BY <1>1, NewIsNobodys DEF Open
<1>3. \A e \in Event : e \in Open' <=> e \in Open
  <2> SUFFICES ASSUME NEW e \in Event PROVE e \in Open' <=> e \in Open
    OBVIOUS
  <2>1. CASE e = New
    BY <1>1, <1>2, <2>1 DEF Open
  <2>2. CASE e # New /\ e # cur
    BY <1>1, <2>2 DEF Open
  <2>3. CASE e # New /\ e = cur
    <3>1. e # 0
      BY EventsAssumption DEF Event
    <3> QED BY <1>1, <2>3, <3>1 DEF Open, Kind
  <2> QED BY <2>1, <2>2, <2>3
<1>4. \A e \in Owned \cup Open : e \in Event
  BY OwnedEvents DEF Open
<1> QED BY <1>1, <1>2, <1>3, <1>4 DEF Open

\* Requests stay open while events, the one in hand and what was done with it stay.
LEMMA OpenSame ==
  ASSUME UNCHANGED <<event, cur, handled>>
  PROVE  Open' = Open
BY DEF Open

\* What is owned has memory, and where it is.
LEMMA OwnedIn ==
  ASSUME Types, Own, NEW e \in Owned
  PROVE  /\ e \in Event /\ event[e] # Free
         /\ \/ e \in Posted \/ e \in timers \/ e = cur \/ e = g.ev \/ e = Received
BY OwnedIs, OwnedEvents DEF Own, Allocated

\* A message that is not about a request, to its receiver, to the queue or nowhere.
LEMMA MovesTrack ==
  ASSUME Types, States, Own, Track, NEW m \in Message, m.ev \notin Open,
         Open' = Open, \A e \in Owned \cup Open : event'[e] = event[e],
         prog' = prog, cur' = cur, timers' \subseteq timers, timers \cap Open = {},
         \/ g' = g /\ buf' = buf
         \/ g.st = "idle" /\ g'.st \in {"idle", "send"} /\ g'.ev = 0,
         \/ pc = "recv" /\ pc' = "got" /\ last' = m /\ Messages' = Messages
         \/ pc # "recv" /\ pc' = pc /\ last' = last /\ Messages' = Append(Messages, m)
         \/ Received' = Received /\ Messages' = Messages /\ last' = last
  PROVE  Track'
<1>1. /\ Messages \in Seq(Message) /\ Posted = Evs(Messages) /\ Posted' = Evs(Messages')
      /\ Once(Messages)
  BY MessagesOK DEF Own, Posted, Evs
<1>2. /\ Posted \subseteq Posted' /\ (Received # 0 => Received' = Received)
      /\ Received' \in {Received, m.ev}
      /\ \A n \in DOMAIN Messages' : \/ Messages'[n] = m
                                     \/ \E i \in DOMAIN Messages : Messages'[n] = Messages[i]
      /\ (cur # 0 => last' = last) /\ (Received' # m.ev => last' = last)
  <2>1. CASE pc = "recv" /\ pc' = "got" /\ last' = m /\ Messages' = Messages
    <3>1. cur = 0 /\ Received = 0 /\ Received' = m.ev
      BY <2>1 DEF States, Received
    <3> QED BY <1>1, <2>1, <3>1
  <2>2. CASE pc # "recv" /\ pc' = pc /\ last' = last /\ Messages' = Append(Messages, m)
    <3>1. Evs(Messages) \subseteq Evs(Append(Messages, m))
      BY <1>1 DEF Evs
    <3>2. \A n \in DOMAIN Append(Messages, m) :
             \/ Append(Messages, m)[n] = m
             \/ \E i \in DOMAIN Messages : Append(Messages, m)[n] = Messages[i]
      BY <1>1
    <3>3. Received' = Received
      BY <2>2 DEF Received
    <3> QED BY <1>1, <2>2, <3>1, <3>2, <3>3
  <2>3. CASE Received' = Received /\ Messages' = Messages /\ last' = last
    BY <1>1, <2>3
  <2> QED BY <2>1, <2>2, <2>3
<1>3. \A e \in Open : e \in Owned => e \in Owned'
  <2> SUFFICES ASSUME NEW e \in Open, e \in Owned PROVE e \in Owned'
    OBVIOUS
  <2>1. e # 0 /\ (e \in Posted \/ e = cur \/ e = g.ev \/ e = Received)
    BY OwnedIn, EventsAssumption DEF Event
  <2>2. g'.ev = g.ev
    BY DEF States
  <2>3. e \in (Posted' \cup timers' \cup {cur', g'.ev, Received'}) \ {0}
    BY <1>2, <2>1, <2>2
  <2> QED BY <2>3, OwnedIsNext
<1>4. g'.st = "answered" => /\ g.st = "answered" /\ g'.ev = g.ev
                            /\ event'[g.ev] = event[g.ev] /\ buf' = buf
  <2>1. g.st = "answered" => g.ev \in Owned
    BY OwnedIs DEF States
  <2> QED BY <2>1
<1>5. 0 \notin Open
  BY EventsAssumption DEF Open, Event
<1>6. prog = "default" =>
        /\ cur' \in Open => last'.from = "gcoap"
        /\ Received' \in Open => last'.from = "gcoap"
        /\ \A n \in DOMAIN Messages' : Messages'[n].ev \in Open => Messages'[n].from = "gcoap"
  BY <1>2, <1>5 DEF Track
<1> QED BY <1>3, <1>4, <1>6, TrackStep

\* Interrupts are about no request.
LEMMA InterruptsTrack ==
  ASSUME Types, States, Own, Track, prog = "default", Interrupt PROVE Track'
<1> DEFINE I(e) == [ev |-> e, from |-> "isr"]
<1>1. CASE GpioInterrupt
  <2>1. /\ "GPIO" \in Kinds \ {"COAP_REQ"} /\ 0 \in 0..MaxReq /\ Unused # {}
        /\ event' = Make("GPIO", 0) /\ FromInterrupt(I(New))
        /\ UNCHANGED <<waiter, cur, timers, handled, g, buf, prog>>
    BY <1>1, CanMakeUnused, EventsAssumption DEF GpioInterrupt, Kinds
  <2>2. Open' = Open /\ New \notin Open /\ \A e \in Owned \cup Open : event'[e] = event[e]
    BY <2>1, OpenMade
  <2>3. PICK m \in Message : m = I(New)
    <3>1. I(New) \in Message
      BY <2>1, MadeTypes DEF Message
    <3> QED BY <3>1
  <2>4. \/ pc = "recv" /\ pc' = "got" /\ last' = m /\ Messages' = Messages
        \/ pc # "recv" /\ pc' = pc /\ last' = last /\ Messages' = Append(Messages, m)
        \/ Received' = Received /\ Messages' = Messages /\ last' = last
    BY <2>1, <2>3, InterruptMoves
  <2>5. m.ev \notin Open /\ timers \cap Open = {}
    BY <2>2, <2>3 DEF Track
  <2> QED BY <2>1, <2>2, <2>4, <2>5, MovesTrack
<1>2. ASSUME NEW e \in timers, TimerFires(e) PROVE Track'
  <2>1. /\ timers' \subseteq timers /\ FromInterrupt(I(e))
        /\ UNCHANGED <<event, waiter, cur, handled, g, buf, prog>>
    BY <1>2 DEF TimerFires
  <2>2. PICK m \in Message : m = I(e)
    <3>1. I(e) \in Message
      BY EventsAssumption DEF Message, Types, Event
    <3> QED BY <3>1
  <2>3. \/ pc = "recv" /\ pc' = "got" /\ last' = m /\ Messages' = Messages
        \/ pc # "recv" /\ pc' = pc /\ last' = last /\ Messages' = Append(Messages, m)
        \/ Received' = Received /\ Messages' = Messages /\ last' = last
    BY <2>1, <2>2, InterruptMoves
  <2>4. m.ev \notin Open /\ timers \cap Open = {} /\ Open' = Open
    BY <2>1, <2>2, OpenSame DEF Track
  <2> QED BY <2>1, <2>3, <2>4, MovesTrack
<1>3. CASE TimeoutFires
  <2>1. FromInterrupt(Timeout) /\ UNCHANGED <<event, waiter, cur, timers, handled, g, buf, prog>>
    BY <1>3 DEF TimeoutFires
  <2>2. PICK m \in Message : m = Timeout
    <3>1. Timeout \in Message
      BY EventsAssumption DEF Message, Timeout
    <3> QED BY <3>1
  <2>3. \/ pc = "recv" /\ pc' = "got" /\ last' = m /\ Messages' = Messages
        \/ pc # "recv" /\ pc' = pc /\ last' = last /\ Messages' = Append(Messages, m)
        \/ Received' = Received /\ Messages' = Messages /\ last' = last
    BY <2>1, <2>2, InterruptMoves
  <2>4. m.ev \notin Open /\ timers \cap Open = {} /\ Open' = Open
    BY <2>1, <2>2, OpenSame, EventsAssumption DEF Track, Timeout, Open, Event
  <2> QED BY <2>1, <2>3, <2>4, MovesTrack
<1> QED BY <1>1, <1>2, <1>3 DEF Interrupt

\* A request: when none was open, it is the one that is.
LEMMA RequestTrack ==
  ASSUME Types, States, Own, Track, prog = "default", prog' = prog, CanMake, g.st = "idle",
         buf + 1 \in 0..MaxReq, buf' = buf + 1, event' = Make("COAP_REQ", buf + 1),
         Send([ev |-> New, from |-> "gcoap"], "reply"), pc \notin {"boot", "dead"},
         UNCHANGED <<cur, timers, handled>>
  PROVE  Track'
<1>1. /\ Unused # {} /\ New # 0 /\ New \notin Owned /\ New \in Event
      /\ \A e \in Event : e # New => event'[e] = event[e]
      /\ event'[New] = Ev("COAP_REQ", buf + 1)
  <2>1. "COAP_REQ" \in Kinds /\ Unused # {}
    BY CanMakeUnused DEF Kinds
  <2>2. New # 0 /\ New \notin Owned
    BY <2>1, NewIsNobodys
  <2> QED BY <2>1, <2>2, MakeOK
<1>2. event'[New].kind = "COAP_REQ" /\ event'[New].pdu = buf'
  BY <1>1 DEF Ev
<1>3. Open = {}
  BY DEF Track
<1>4. New # cur
  BY <1>1, OwnedIs
<1>5. Open' = {New}
  BY <1>1, <1>2, <1>3, <1>4 DEF Open
<1>6. PICK m \in Message : m = [ev |-> New, from |-> "gcoap"]
  <2>1. [ev |-> New, from |-> "gcoap"] \in Message
    BY <1>1, EventsAssumption DEF Message, Event
  <2> QED BY <2>1
<1>7. m.ev = New /\ m.from = "gcoap"
  BY <1>6
<1>8. /\ \/ pc = "recv" /\ pc' = "got" /\ last' = m /\ Messages' = Messages
         \/ pc # "recv" /\ pc' = pc /\ last' = last /\ Messages' = Append(Messages, m)
      /\ g'.ev = 0
  BY <1>6, SendMoves
<1>9. g'.st = "reply"
  <2>1. "COAP_REQ" \in Kinds
    BY DEF Kinds
  <2>2. event' \in [Event -> {Free} \cup [kind : Kinds, pdu : 0..MaxReq]]
    BY <1>1, <2>1, MakeOK
  <2> QED BY <1>6, <2>2, SendTypes
<1>10. Messages \in Seq(Message) /\ Posted = Evs(Messages) /\ Posted' = Evs(Messages')
  BY MessagesOK DEF Posted, Evs
<1>11. /\ New \in Posted' \cup {Received'}
       /\ Received' = New => last'.from = "gcoap"
       /\ \A n \in DOMAIN Messages' : Messages'[n].ev = New => Messages'[n].from = "gcoap"
  <2>1. New \notin Posted /\ New # Received
    BY <1>1, OwnedIs
  <2>2. CASE pc = "recv" /\ pc' = "got" /\ last' = m /\ Messages' = Messages
    <3>1. Received' = New
      BY <1>7, <2>2 DEF Received
    <3>2. \A n \in DOMAIN Messages : Messages[n].ev # New
      BY <2>1 DEF Posted
    <3> QED BY <1>7, <2>2, <3>1, <3>2
  <2>3. CASE pc # "recv" /\ pc' = pc /\ last' = last /\ Messages' = Append(Messages, m)
    <3>1. /\ m \in {Append(Messages, m)[n] : n \in DOMAIN Append(Messages, m)}
          /\ \A n \in DOMAIN Append(Messages, m) :
               \/ Append(Messages, m)[n] = m
               \/ \E i \in DOMAIN Messages : Append(Messages, m)[n] = Messages[i]
      <4> DEFINE A == Append(Messages, m)
      <4>1. /\ DOMAIN A = DOMAIN Messages \cup {Len(Messages) + 1} /\ A[Len(Messages) + 1] = m
            /\ \A n \in DOMAIN Messages : A[n] = Messages[n]
        BY <1>10
      <4> HIDE DEF A
      <4>2. /\ m \in {A[n] : n \in DOMAIN A}
            /\ \A n \in DOMAIN A : A[n] = m \/ \E i \in DOMAIN Messages : A[n] = Messages[i]
        BY <4>1
      <4> QED BY <4>2 DEF A
    <3>2. \A n \in DOMAIN Messages : Messages[n].ev # New
      BY <2>1 DEF Posted
    <3>3. Received' = Received
      BY <2>3 DEF Received
    <3> QED BY <1>7, <1>10, <2>1, <2>3, <3>1, <3>2, <3>3 DEF Evs
  <2> QED BY <1>8, <2>2, <2>3
<1>12. New \in Owned'
  BY <1>1, <1>11, OwnedIsNext
<1>13. timers' \cap Open' = {} /\ cur' \notin Open'
  BY <1>1, <1>4, <1>5, OwnedIs
<1>14. \E e \in Owned' : Open' = {e} /\ event'[e].pdu = buf'
  BY <1>2, <1>5, <1>12
<1> QED BY <1>5, <1>9, <1>11, <1>13, <1>14 DEF Track

\* Another event of the CoAP thread.
LEMMA PostTrack ==
  ASSUME Types, States, Own, Track, prog = "default", prog' = prog, CanMake, g.st = "idle",
         NEW k \in Kinds \ {"COAP_REQ"}, NEW n \in 0..MaxReq, event' = Make(k, n),
         UNCHANGED <<cur, timers, handled>>, pc \notin {"boot", "dead"},
         Send([ev |-> New, from |-> "gcoap"], "send"), buf' \in 0..MaxReq
  PROVE  Track'
<1>1. /\ Unused # {} /\ New \in 0..NE
      /\ event' \in [Event -> {Free} \cup [kind : Kinds, pdu : 0..MaxReq]]
  BY CanMakeUnused, MadeTypes
<1>2. Open' = Open /\ New \notin Open /\ \A e \in Owned \cup Open : event'[e] = event[e]
  BY <1>1, OpenMade
<1>3. PICK m \in Message : m = [ev |-> New, from |-> "gcoap"]
  <2>1. [ev |-> New, from |-> "gcoap"] \in Message
    BY <1>1 DEF Message
  <2> QED BY <2>1
<1>4. /\ \/ pc = "recv" /\ pc' = "got" /\ last' = m /\ Messages' = Messages
         \/ pc # "recv" /\ pc' = pc /\ last' = last /\ Messages' = Append(Messages, m)
      /\ g'.ev = 0
  BY <1>3, SendMoves
<1>5. g'.st \in {"idle", "send"}
  BY <1>1, <1>3, SendTypes
<1>6. m.ev \notin Open /\ timers \cap Open = {}
  BY <1>2, <1>3 DEF Track
<1> QED BY <1>2, <1>4, <1>5, <1>6, MovesTrack

\* Nothing but the number of the packet changes while the CoAP thread is idle.
LEMMA LostTrack ==
  ASSUME Types, States, Own, Track, prog = "default", g.st = "idle",
         UNCHANGED <<event, queue, last, pc, waiter, g, cur, timers, handled, prog>>
  PROVE  Track'
<1>1. Open' = Open /\ Open = {}
  BY OpenSame DEF Track
<1>2. timers' \cap Open' = {} /\ cur' \notin Open' /\ Received' \notin Open'
      /\ \A n \in DOMAIN Messages' : Messages'[n].ev \notin Open'
  BY <1>1
<1> QED BY <1>1, <1>2 DEF Track

\* The CoAP thread makes one request at a time.
LEMMA CoapTrack ==
  ASSUME Types, States, Own, Track, prog = "default", Gcoap PROVE Track'
<1>1. CASE HandleRequest
  <2>1. /\ buf + 1 \in 0..MaxReq /\ buf' = buf + 1 /\ CanMake /\ g.st = "idle"
        /\ UNCHANGED <<cur, timers, handled, prog>>
    BY <1>1, EventsAssumption DEF HandleRequest, Types
  <2>2. CASE Present /\ event' = Make("COAP_REQ", buf + 1)
             /\ Send([ev |-> New, from |-> "gcoap"], "reply")
    BY <2>1, <2>2, RequestTrack DEF Present
  <2>3. CASE UNCHANGED <<event, queue, last, pc, waiter, g>>
    BY <2>1, <2>3, LostTrack
  <2> QED BY <1>1, <2>2, <2>3 DEF HandleRequest
<1>2. CASE Respond
  <2>1. /\ event' = Freed(g.ev) /\ g'.st = "idle" /\ g.st = "answered" /\ g.ev \in Event
        /\ UNCHANGED <<queue, waiter, last, cur, pc, timers, handled, prog>>
    BY <1>2, EventsAssumption DEF Respond, Idle, States, Types, Event
  <2>2. Open = {} /\ event[g.ev] = Ev("COAP_REPLY", buf)
    BY <2>1 DEF Track
  <2>3. \A e \in Event : event'[e] = IF e = g.ev THEN Free ELSE event[e]
    BY <2>1, FreedOK DEF Types
  <2>4. Free.kind = "free"
    BY DEF Free
  <2>5. Open' = {}
    BY <2>1, <2>2, <2>3, <2>4 DEF Open
  <2> QED BY <2>1, <2>5 DEF Track
<1>3. CASE HandleResponse
  <2>1. /\ "COAP_RESP" \in Kinds \ {"COAP_REQ"} /\ buf + 1 \in 0..MaxReq /\ CanMake
        /\ g.st = "idle" /\ UNCHANGED <<cur, timers, handled, prog>> /\ buf' = buf + 1
    BY <1>3, EventsAssumption DEF HandleResponse, Types, Kinds
  <2>2. CASE Present /\ event' = Make("COAP_RESP", buf + 1)
             /\ Send([ev |-> New, from |-> "gcoap"], "send")
    BY <2>1, <2>2, PostTrack DEF Present
  <2>3. CASE UNCHANGED <<event, queue, last, pc, waiter, g>>
    BY <2>1, <2>3, LostTrack
  <2> QED BY <1>3, <2>2, <2>3 DEF HandleResponse
<1>4. CASE PostUpdateReady
  <2>1. /\ "UPD_RDY" \in Kinds \ {"COAP_REQ"} /\ 0 \in 0..MaxReq /\ CanMake
        /\ g.st = "idle" /\ UNCHANGED <<cur, timers, handled, prog>> /\ buf' \in 0..MaxReq
        /\ event' = Make("UPD_RDY", 0)
    BY <1>4, EventsAssumption DEF PostUpdateReady, Types, Kinds
  <2>2. CASE Present /\ Send([ev |-> New, from |-> "gcoap"], "send")
    BY <2>1, <2>2, PostTrack DEF Present
  <2>3. CASE UNCHANGED <<queue, last, pc, waiter, g>>
    <3>1. Open' = Open /\ Open = {}
      BY <2>1, CanMakeUnused, OpenMade DEF Track
    <3>2. timers' \cap Open' = {} /\ cur' \notin Open' /\ Received' \notin Open'
          /\ \A n \in DOMAIN Messages' : Messages'[n].ev \notin Open'
      BY <3>1
    <3> QED BY <2>1, <2>3, <3>1, <3>2 DEF Track
  <2> QED BY <1>4, <2>2, <2>3 DEF PostUpdateReady
<1> QED BY <1>1, <1>2, <1>3, <1>4 DEF Gcoap

\* The first timer is no request.
LEMMA InitEventsTrack ==
  ASSUME Types, States, Own, Track, prog = "default", InitEvents PROVE Track'
<1>1. /\ pc = "boot" /\ cur = 0 /\ timers = {} /\ pc' = "run"
      /\ UNCHANGED <<queue, waiter, last, cur, g, buf, prog>>
  BY DEF InitEvents, States
<1>2. /\ Received = 0 /\ Received' = 0 /\ Messages' = Messages /\ Posted' = Posted
      /\ 0 \notin Open
  BY <1>1, EventsAssumption DEF Received, Messages, Posted, Open, Event
<1>3. /\ Open' = Open /\ \A e \in Owned \cup Open : event'[e] = event[e]
      /\ timers' \cap Open = {}
  <2>1. CASE UNCHANGED <<event, timers>>
    <3>1. Open' = Open
      BY <1>1, <2>1, EventsAssumption DEF Open, Event
    <3> QED BY <1>1, <2>1, <3>1
  <2>2. CASE CanMake /\ event' = Make("TIMER", 0) /\ timers' = {New}
    <3>1. Unused # {} /\ "TIMER" \in Kinds \ {"COAP_REQ"} /\ 0 \in 0..MaxReq
      BY <2>2, CanMakeUnused, EventsAssumption DEF Kinds
    <3>2. Kind(cur) # "COAP_REQ"
      BY <1>1 DEF Kind
    <3> QED BY <1>1, <2>2, <3>1, <3>2, OpenMade
  <2> QED BY <2>1, <2>2 DEF InitEvents
<1>4. Owned \subseteq Owned'
  BY <1>1, <1>2, OwnedIs, OwnedIsNext
<1>5. g.st = "answered" => g.ev \in Owned
  BY OwnedIs DEF States
<1>6. /\ cur' \in Open => last'.from = "gcoap"
      /\ Received' \in Open => last'.from = "gcoap"
      /\ \A n \in DOMAIN Messages' : Messages'[n].ev \in Open => Messages'[n].from = "gcoap"
  BY <1>1, <1>2 DEF Track
<1> QED BY <1>1, <1>3, <1>4, <1>5, <1>6, TrackStep

\* The event in hand is done with, and the next one is on its way to the program.
LEMMA WaitEventTrack ==
  ASSUME Types, States, Own, Track, prog = "default",
         NEW t \in {"zero", "timed", "forever"}, WaitEvent(t)
  PROVE  Track'
<1>1. /\ event' = Freed(cur) /\ cur' = 0 /\ timers' = timers /\ Received = 0 /\ handled' = TRUE
      /\ handled \/ Kind(cur) # "COAP_REQ"
      /\ UNCHANGED <<buf, prog>>
  BY HandlerIs DEF WaitEvent, Calls, Received
<1>2. \A e \in Event : event'[e] = IF e = cur THEN Free ELSE event[e]
  BY <1>1, FreedOK DEF Types
<1>3. 0 \notin Open /\ cur \notin Open
  BY <1>1, EventsAssumption DEF Open, Event, Kind
<1>4. Open' = Open
  <2>1. Free.kind = "free"
    BY DEF Free
  <2> SUFFICES ASSUME NEW e \in Event PROVE e \in Open' <=> e \in Open
    BY DEF Open
  <2>2. e # 0
    BY EventsAssumption DEF Event
  <2> QED BY <1>1, <1>2, <1>3, <2>1, <2>2 DEF Open
<1>5. /\ Messages \in Seq(Message) /\ Posted = Evs(Messages) /\ Posted' = Evs(Messages')
      /\ Once(Messages)
  BY MessagesOK DEF Own, Posted, Evs
<1>6. /\ Posted \subseteq Posted' \cup {Received'}
      /\ Received' \in Open => last'.from = "gcoap"
      /\ \A n \in DOMAIN Messages' : Messages'[n].ev \in Open => Messages'[n].from = "gcoap"
      /\ g'.ev = g.ev
      /\ g' = g \/ (g.st = "send" /\ g'.st = "idle")
  <2>1. CASE queue # <<>>
    <3>1. TakeFirst /\ pc' = "got"
      BY <2>1 DEF WaitEvent
    <3>2. Messages' = Tail(Messages) /\ last' = Head(Messages) /\ Messages # <<>>
      BY <2>1, <3>1, TakenQueue
    <3>3. Received' = Head(Messages).ev
      BY <3>1, <3>2 DEF Received
    <3>4. /\ g'.ev = g.ev
          /\ g' = g \/ (g.st = "send" /\ g'.st = "idle")
      BY <2>1, <3>1, TakeFirstTypes
    <3>5. /\ Evs(Messages) \subseteq Evs(Tail(Messages)) \cup {Head(Messages).ev}
          /\ 1 \in DOMAIN Messages /\ Head(Messages) = Messages[1]
          /\ \A n \in DOMAIN Tail(Messages) :
               n + 1 \in DOMAIN Messages /\ Tail(Messages)[n] = Messages[n + 1]
      BY <1>5, <3>2, TailOnce
    <3>6. \A n \in DOMAIN Messages : Messages[n].ev \in Open => Messages[n].from = "gcoap"
      BY DEF Track
    <3> QED BY <1>5, <3>2, <3>3, <3>4, <3>5, <3>6
  <2>2. CASE queue = <<>>
    <3>1. pc' \in {"run", "recv"} /\ UNCHANGED <<queue, waiter, last, g>>
      BY <2>2 DEF WaitEvent
    <3>2. Messages' = Messages /\ Received' = 0
      BY <3>1 DEF Messages, Received
    <3> QED BY <1>3, <1>5, <3>1, <3>2 DEF Track
  <2> QED BY <2>1, <2>2
<1>7. \A e \in Open : event'[e].pdu = event[e].pdu /\ (e \in Owned => e \in Owned')
  <2> SUFFICES ASSUME NEW e \in Open PROVE event'[e] = event[e] /\ (e \in Owned => e \in Owned')
    OBVIOUS
  <2>1. e \in Event /\ e # cur /\ e # 0
    BY <1>3 DEF Open
  <2>2. ASSUME e \in Owned PROVE e \in Owned'
    <3>1. e \in (Posted' \cup timers' \cup {cur', g'.ev, Received'}) \ {0}
      BY <1>1, <1>6, <2>1, <2>2, OwnedIn
    <3> QED BY <3>1, OwnedIsNext
  <2> QED BY <1>2, <2>1, <2>2
<1>8. g.st = "answered" => event'[g.ev] = event[g.ev]
  <2>1. g.st = "answered" => g.ev \in Event /\ g.ev # cur
    BY EventsAssumption DEF States, Types, Event, Own, Apart
  <2> QED BY <1>2, <2>1
<1>9. timers' \cap Open = {}
  BY <1>1 DEF Track
<1>10. /\ g'.st = "reply" <=> g.st = "reply"
       /\ g'.st = "answered" => g.st = "answered"
  BY <1>6
<1> QED BY <1>1, <1>3, <1>4, <1>6, <1>7, <1>8, <1>9, <1>10, TrackStep

\* The event that was received is in hand and not dealt with.
LEMMA WaitReturnsTrack ==
  ASSUME Types, States, Own, Track, prog = "default", WaitReturns PROVE Track'
<1>1. /\ pc = "got" /\ Received' = 0 /\ cur = 0 /\ handled' = FALSE
      /\ UNCHANGED <<queue, waiter, last, timers, g, buf, prog>>
  BY DEF WaitReturns, Received, States
<1>2. Messages' = Messages /\ Posted' = Posted /\ 0 \notin Open /\ Received = last.ev
  BY <1>1, EventsAssumption DEF Messages, Posted, Open, Event, Received
<1>3. /\ Open' = Open /\ \A e \in Owned \cup Open : event'[e] = event[e]
      /\ cur' = last.ev \/ (last.ev = 0 /\ cur' \notin Open)
  <2>1. CASE UNCHANGED event /\ (cur' = last.ev \/ (last.ev = 0 /\ cur' = 0))
    <3>1. Open' = Open
      <4> SUFFICES ASSUME NEW e \in Event PROVE e \in Open' <=> e \in Open
        BY DEF Open
      <4>1. e # 0
        BY EventsAssumption DEF Event
      <4> QED BY <1>1, <2>1, <4>1 DEF Open
    <3> QED BY <1>2, <2>1, <3>1
  <2>2. CASE /\ last.ev = 0 /\ Unused # {} /\ cur' = New /\ event' = Make("GENERIC", 0)
    <3>1. "GENERIC" \in Kinds /\ 0 \in 0..MaxReq
      BY EventsAssumption DEF Kinds
    <3>2. /\ event'[New] = Ev("GENERIC", 0) /\ New \in Event /\ event[New] = Free /\ New # 0
          /\ \A e \in Event : e # New => event'[e] = event[e]
      BY <2>2, <3>1, MakeOK
    <3>3. Ev("GENERIC", 0).kind = "GENERIC" /\ Free.kind = "free"
      BY DEF Ev, Free
    <3>4. New \notin Open /\ New \notin Owned
      BY <2>2, <3>2, <3>3, NewIsNobodys DEF Open
    <3>5. Open' = Open
      <4> SUFFICES ASSUME NEW e \in Event PROVE e \in Open' <=> e \in Open
        BY DEF Open
      <4>1. e # 0
        BY EventsAssumption DEF Event
      <4> QED BY <1>1, <2>2, <3>2, <3>3, <4>1 DEF Open
    <3>6. Owned \cup Open \subseteq Event
      BY OwnedEvents DEF Open
    <3> QED BY <2>2, <3>2, <3>4, <3>5, <3>6
  <2> QED BY <2>1, <2>2 DEF WaitReturns
<1>4. \A e \in Open : e \in Owned => e \in Owned'
  <2> SUFFICES ASSUME NEW e \in Open, e \in Owned PROVE e \in Owned'
    OBVIOUS
  <2>1. e # 0 /\ e # cur
    BY <1>1, <1>2
  <2>2. Received # 0 => cur' = Received
    BY <1>2, <1>3
  <2>3. e \in (Posted' \cup timers' \cup {cur', g'.ev, Received'}) \ {0}
    BY <1>1, <1>2, <2>1, <2>2, OwnedIn
  <2> QED BY <2>3, OwnedIsNext
<1>5. g.st = "answered" => g.ev \in Owned
  BY OwnedIs DEF States
<1>6. /\ cur' \in Open => last'.from = "gcoap"
      /\ Received' \in Open => last'.from = "gcoap"
      /\ \A n \in DOMAIN Messages' : Messages'[n].ev \in Open => Messages'[n].from = "gcoap"
      /\ timers' \cap Open = {}
  BY <1>1, <1>2, <1>3 DEF Track
<1> QED BY <1>1, <1>3, <1>4, <1>5, <1>6, TrackStep

\* The CoAP thread waits for the reply that is made, and gets it.
LEMMA ReplyTrack ==
  ASSUME Types, States, Own, Track, prog = "default", ReplyEvent
  PROVE  Track' /\ CanReply
<1>1. /\ ~handled /\ Kind(cur) = "COAP_REQ" /\ handled' = TRUE /\ Unused # {}
      /\ event' = Make("COAP_REPLY", InHand)
      /\ g' = (IF CanReply THEN [st |-> "answered", ev |-> New] ELSE g)
      /\ UNCHANGED <<queue, waiter, last, cur, pc, timers, buf, prog>>
  BY HandlerIs DEF ReplyEvent, Calls
<1>2. cur \in Event /\ event[cur].kind = "COAP_REQ" /\ cur \in Open
  <2>1. cur # 0 /\ event[cur].kind = "COAP_REQ"
    BY <1>1 DEF Kind
  <2>2. cur \in Event
    BY <2>1, EventsAssumption DEF Types, Event
  <2> QED BY <1>1, <2>1, <2>2 DEF Open
<1>3. g.st = "reply" /\ Open = {cur} /\ event[cur].pdu = buf /\ last.from = "gcoap"
  BY <1>2 DEF Track
<1>4. CanReply /\ InHand = buf
  BY <1>1, <1>3 DEF CanReply, InHand
<1>5. /\ event'[New] = Ev("COAP_REPLY", buf) /\ New \in Event /\ event[New] = Free
      /\ \A e \in Event : e # New => event'[e] = event[e]
  <2>1. "COAP_REPLY" \in Kinds /\ buf \in 0..MaxReq
    BY DEF Kinds, Types
  <2> QED BY <1>1, <1>4, <2>1, MakeOK
<1>6. Open' = {}
  <2>1. Ev("COAP_REPLY", buf).kind = "COAP_REPLY"
    BY DEF Ev
  <2> QED BY <1>1, <1>3, <1>5, <2>1 DEF Open
<1>7. g'.st = "answered" /\ g'.ev = New /\ buf' = buf
  BY <1>1, <1>4
<1> QED BY <1>4, <1>5, <1>6, <1>7 DEF Track

\* The uj thread deals with requests in ReplyEvent only.
LEMMA UjTrack ==
  ASSUME Types, States, Own, Track, prog = "default", Uj PROVE Track'
<1>1. CASE SetTimeout
  <2>1. /\ "TIMER" \in Kinds \ {"COAP_REQ"} /\ 0 \in 0..MaxReq /\ Unused # {}
        /\ event' = Make("TIMER", 0) /\ timers' = timers \cup {New}
        /\ UNCHANGED <<queue, waiter, last, cur, pc, g, buf, prog>>
        /\ Kind(cur) # "COAP_REQ"
    BY <1>1, HandlerIs, EventsAssumption DEF SetTimeout, Calls, Kinds
  <2>2. Open' = Open /\ New \notin Open /\ \A e \in Owned \cup Open : event'[e] = event[e]
    BY <2>1, OpenMade
  <2>3. Messages' = Messages /\ Received' = Received /\ Posted' = Posted
    BY <2>1 DEF Messages, Received, Posted
  <2>4. Owned \subseteq Owned'
    BY <2>1, <2>3, OwnedIs, OwnedIsNext
  <2>5. g.st = "answered" => g.ev \in Owned
    BY OwnedIs DEF States
  <2>6. /\ cur' \in Open => last'.from = "gcoap"
        /\ Received' \in Open => last'.from = "gcoap"
        /\ \A n \in DOMAIN Messages' : Messages'[n].ev \in Open => Messages'[n].from = "gcoap"
        /\ timers' \cap Open = {}
    BY <2>1, <2>2, <2>3 DEF Track
  <2> QED BY <2>1, <2>2, <2>4, <2>5, <2>6, TrackStep
<1>2. CASE End
  <2>1. /\ UNCHANGED <<event, queue, waiter, last, cur, handled, timers, g, buf, prog>>
        /\ pc = "run" /\ pc' \in {"end", "dead"}
    BY <1>2 DEF End, Calls
  <2>2. /\ Messages' = Messages /\ Received = 0 /\ Received' = 0 /\ Posted' = Posted
        /\ Open' = Open
    BY <2>1, OpenSame DEF Messages, Received, Posted
  <2>3. Owned' = Owned
    BY <2>1, <2>2, OwnedIs, OwnedIsNext
  <2> QED BY <2>1, <2>2, <2>3 DEF Track
<1>3. CASE Reboot
  <2>1. g'.st = "idle" /\ \A e \in Event : event'[e] = Free
    BY <1>3 DEF Reboot, Idle
  <2>2. Open' = {}
    <3>1. Free.kind = "free"
      BY DEF Free
    <3> QED BY <2>1, <3>1 DEF Open
  <2> QED BY <2>1, <2>2 DEF Track
<1> QED BY <1>1, <1>2, <1>3, InitEventsTrack, WaitEventTrack, WaitReturnsTrack, ReplyTrack DEF Uj

\* No request is open at first.
LEMMA InitTrack == ASSUME Init PROVE Track /\ Known
<1>1. Open = {} /\ g.st = "idle" /\ timers = {}
  <2>1. Free.kind = "free"
    BY DEF Free
  <2> QED BY <2>1 DEF Init, Open, Idle
<1>2. cur \notin Open /\ Received \notin Open
      /\ \A n \in DOMAIN Messages : Messages[n].ev \notin Open
  BY <1>1
<1>3. prog \in {"default", "any"}
  BY EventsAssumption DEF Init
<1> QED BY <1>1, <1>2, <1>3 DEF Track, Known

\* Every step keeps track of the request.
LEMMA NextTrack == ASSUME Types, States, Own, Track, [Next]_vars PROVE Track'
<1>1. prog' = prog
  BY DEF Next, vars, Uj, InitEvents, WaitEvent, WaitReturns, ReplyEvent, SetTimeout, End, Reboot,
         Gcoap, HandleRequest, Respond, HandleResponse, PostUpdateReady,
         Interrupt, GpioInterrupt, TimerFires, TimeoutFires
<1>2. CASE UNCHANGED vars
  <2>1. Open' = Open /\ Messages' = Messages /\ Received' = Received
        /\ (Owned = (Posted \cup timers \cup {cur, g.ev, Received}) \ {0})'
    BY <1>2, OwnedIsNext DEF vars, Open, Messages, Received
  <2>2. Posted' = Posted
    BY <2>1 DEF Posted
  <2>3. Owned' = Owned
    BY <1>2, <2>1, <2>2, OwnedIs DEF vars
  <2> QED BY <1>2, <2>1, <2>3 DEF vars, Track
<1>3. CASE prog = "default" /\ Next
  BY <1>3, InterruptsTrack, CoapTrack, UjTrack DEF Next
<1>4. CASE prog # "default"
  BY <1>1, <1>4 DEF Track
<1> QED BY <1>2, <1>3, <1>4

\* An event of a timer stays until the timer has sent its message.
LEMMA NextKnown == ASSUME Types, States, Own, Known, [Next]_vars PROVE Known'
<1> USE DEF Known
<1>1. \A e \in timers : e \in Event /\ e \in Owned /\ e # cur /\ e # g.ev
  <2>1. timers \subseteq Event /\ 0 \notin Event
    BY EventsAssumption DEF Types, Event
  <2> QED BY <2>1, OwnedIs DEF Own, Apart
<1>2. ASSUME NEW k \in Kinds, NEW n \in 0..MaxReq, Unused # {}, event' = Make(k, n)
      PROVE  /\ \A e \in timers : event'[e] = event[e]
             /\ event'[New].kind = k
  <2>1. event'[New] = Ev(k, n) /\ \A e \in Event : e # New => event'[e] = event[e]
    BY <1>2, MakeOK
  <2> QED BY <1>1, <1>2, <2>1, NewIsNobodys DEF Ev
<1>3. ASSUME NEW f \in {cur, g.ev}, event' = Freed(f) PROVE \A e \in timers : event'[e] = event[e]
  <2>1. f \in 0..NE
    BY DEF Types
  <2> QED BY <1>1, <1>3, <2>1, FreedOK
<1>4. CASE UNCHANGED vars
  BY <1>4 DEF vars
<1>5. CASE Interrupt
  <2>1. CASE GpioInterrupt
    <3>1. "GPIO" \in Kinds /\ 0 \in 0..MaxReq /\ Unused # {}
      BY <2>1, CanMakeUnused, EventsAssumption DEF Kinds, GpioInterrupt
    <3> QED BY <1>2, <2>1, <3>1 DEF GpioInterrupt
  <2>2. ASSUME NEW e \in timers, TimerFires(e) PROVE Known'
    BY <2>2 DEF TimerFires
  <2>3. CASE TimeoutFires
    BY <2>3 DEF TimeoutFires
  <2> QED BY <1>5, <2>1, <2>2, <2>3 DEF Interrupt
<1>6. CASE Gcoap
  <2>1. {"COAP_REQ", "COAP_RESP", "UPD_RDY"} \subseteq Kinds /\ 0 \in 0..MaxReq
        /\ (CanMake => Unused # {}) /\ (buf < MaxReq => buf + 1 \in 0..MaxReq)
    BY CanMakeUnused, EventsAssumption DEF Kinds, Types
  <2>2. CASE HandleRequest
    BY <1>2, <2>1, <2>2 DEF HandleRequest
  <2>3. CASE Respond
    BY <1>3, <2>3 DEF Respond
  <2>4. CASE HandleResponse
    BY <1>2, <2>1, <2>4 DEF HandleResponse
  <2>5. CASE PostUpdateReady
    BY <1>2, <2>1, <2>5 DEF PostUpdateReady
  <2> QED BY <1>6, <2>2, <2>3, <2>4, <2>5 DEF Gcoap
<1>7. CASE Uj
  <2>1. {"TIMER", "GENERIC", "COAP_REPLY"} \subseteq Kinds /\ 0 \in 0..MaxReq
        /\ (CanMake => Unused # {}) /\ InHand \in 0..MaxReq
    BY CanMakeUnused, InHandOK, EventsAssumption DEF Kinds
  <2>2. CASE InitEvents
    BY <1>2, <2>1, <2>2 DEF InitEvents
  <2>3. ASSUME NEW t \in {"zero", "timed", "forever"}, WaitEvent(t) PROVE Known'
    BY <1>3, <2>3 DEF WaitEvent
  <2>4. CASE WaitReturns
    BY <1>2, <2>1, <2>4 DEF WaitReturns
  <2>5. CASE ReplyEvent
    BY <1>2, <2>1, <2>5 DEF ReplyEvent
  <2>6. CASE SetTimeout
    BY <1>2, <2>1, <2>6 DEF SetTimeout
  <2>7. CASE End
    BY <2>7 DEF End
  <2>8. CASE Reboot
    BY <2>8 DEF Reboot
  <2> QED BY <1>7, <2>2, <2>3, <2>4, <2>5, <2>6, <2>7, <2>8 DEF Uj
<1> QED BY <1>4, <1>5, <1>6, <1>7 DEF Next

\* Each request of a board with the default program is on its way to the program, or in
\* its hands, until the CoAP thread has a reply, which was made for it.
THEOREM RequestsAlwaysTracked == Spec => []RequestTracked
<1>1. Init => Types /\ States /\ Own /\ Track
  BY InitTyped, InitOwn, InitTrack
<1>2. Types /\ States /\ Own /\ Track /\ [Next]_vars => (Types /\ States /\ Own /\ Track)'
  BY NextTyped, NextOwn, NextTrack
<1>3. ASSUME Types, States, Own, Track PROVE RequestTracked
  <2>1. ReplyMatches
    BY <1>3 DEF ReplyMatches, Track
  <2>2. RequestHeld
    <3> SUFFICES ASSUME prog = "default", g.st = "reply" PROVE RequestHeld
      BY DEF RequestHeld
    <3>1. PICK e \in Owned : Open = {e} /\ event[e].pdu = buf
      BY <1>3 DEF Track
    <3>2. /\ e \in Event /\ event[e].kind = "COAP_REQ" /\ (e = cur => ~handled)
          /\ (e = cur => last.from = "gcoap")
      BY <1>3, <3>1 DEF Open, Track
    <3>3. event[e] = Ev("COAP_REQ", buf)
      <4>1. event[e] \in [kind : Kinds, pdu : 0..MaxReq]
        BY <1>3, <3>2 DEF Types, Free
      <4> QED BY <3>1, <3>2, <4>1 DEF Ev
    <3>4. e = cur => Payload(cur) = event[cur].pdu
      <4>1. e # 0
        BY <3>2, EventsAssumption DEF Event
      <4> QED BY <3>1, <3>2, <4>1 DEF Payload, Kind
    <3>5. Cardinality(Open) = 1
      BY <3>1, FS_Singleton
    <3>6. Cardinality({f \in Event : event[f].kind = "COAP_REQ" /\ (f = cur => ~handled)}) = 1
      BY <3>5 DEF Open
    <3> QED BY <3>2, <3>3, <3>4, <3>6 DEF RequestHeld
  <2> QED BY <2>1, <2>2 DEF RequestTracked
<1>4. Types /\ States /\ Own /\ Track => RequestTracked
  BY <1>3
<1> QED BY <1>1, <1>2, <1>4, PTL DEF Spec

-----------------------------------------------------------------------------
(* Leaks. *)

\* What OnlyKnownLeaks allows to be lost.
KnownLeak(e) ==
  \/ event'[e].kind \in {"GPIO", "TIMER"} /\ (Full \/ ~Present)
  \/ event'[e].kind = "UPD_RDY" /\ ~Present
  \/ event'[e].kind = "COAP_REPLY" /\ prog = "any" /\ ~CanReply

\* Nothing is lost that was freed, or is owned.
LEMMA NotLost ==
  ASSUME NEW e \in Leaked' \ Leaked
  PROVE  /\ e \in Event /\ e \notin Owned' /\ event'[e] # Free
         /\ event[e] = Free \/ e \in Owned
BY DEF Leaked

\* A message that arrives: its event has an owner, and so has all that had one.
LEMMA ArrivedOwned ==
  ASSUME Types, States, NEW m \in Message, cur' = cur, g'.ev = g.ev,
         \/ pc = "recv" /\ pc' = "got" /\ last' = m /\ Messages' = Messages
         \/ pc # "recv" /\ pc' = pc /\ last' = last /\ Messages' = Append(Messages, m)
  PROVE  /\ \A e \in Owned : e \in timers \/ e \in Owned'
         /\ m.ev # 0 => m.ev \in Owned'
         /\ timers' \subseteq Owned' \cup {0}
<1>1. Messages \in Seq(Message) /\ Posted = Evs(Messages) /\ Posted' = Evs(Messages')
  BY MessagesOK DEF Posted, Evs
<1>2. /\ Posted \subseteq Posted' /\ m.ev \in Posted' \cup {Received'}
      /\ Received # 0 => Received' = Received
  <2>1. CASE pc = "recv" /\ pc' = "got" /\ last' = m /\ Messages' = Messages
    BY <1>1, <2>1 DEF Received
  <2>2. CASE pc # "recv" /\ pc' = pc /\ last' = last /\ Messages' = Append(Messages, m)
    <3> DEFINE A == Append(Messages, m)
    <3>1. /\ DOMAIN A = DOMAIN Messages \cup {Len(Messages) + 1} /\ A[Len(Messages) + 1] = m
          /\ \A n \in DOMAIN Messages : A[n] = Messages[n]
      BY <1>1
    <3> HIDE DEF A
    <3>2. Evs(Messages) \subseteq Evs(A) /\ m.ev \in Evs(A)
      BY <3>1 DEF Evs
    <3> QED BY <1>1, <2>2, <3>2 DEF A, Received
  <2> QED BY <2>1, <2>2
<1> QED BY <1>2, OwnedIs, OwnedIsNext

\* A message that goes nowhere leaves all owners but timers as they are.
LEMMA SameOwners ==
  ASSUME UNCHANGED <<cur, g>>, Messages' = Messages, Received' = Received,
         timers \subseteq timers' \cup {0}
  PROVE  Owned \subseteq Owned'
<1>1. Posted' = Posted
  BY DEF Posted
<1> QED BY <1>1, OwnedIs, OwnedIsNext

\* An interrupt loses its event when the queue is full or nobody receives.
LEMMA InterruptLeaks ==
  ASSUME Types, States, Own, Known, Interrupt, NEW e \in Leaked' \ Leaked
  PROVE  KnownLeak(e)
<1> DEFINE I(f) == [ev |-> f, from |-> "isr"]
<1>0. e \in Event /\ e \notin Owned' /\ event'[e] # Free /\ (event[e] = Free \/ e \in Owned)
  BY NotLost
<1>1. CASE GpioInterrupt
  <2>1. /\ "GPIO" \in Kinds /\ 0 \in 0..MaxReq /\ Unused # {}
        /\ event' = Make("GPIO", 0) /\ FromInterrupt(I(New))
        /\ UNCHANGED <<waiter, cur, timers, g>>
    BY <1>1, CanMakeUnused, EventsAssumption DEF GpioInterrupt, Kinds
  <2>2. /\ event'[New] = Ev("GPIO", 0) /\ New \in Event /\ New # 0
        /\ \A f \in Event : f # New => event'[f] = event[f]
    BY <2>1, MakeOK
  <2>3. PICK m \in Message : m = I(New)
    <3>1. I(New) \in Message
      BY <2>1, MadeTypes DEF Message
    <3> QED BY <3>1
  <2>4. CASE \/ pc = "recv" /\ pc' = "got" /\ last' = m /\ Messages' = Messages
             \/ pc # "recv" /\ pc' = pc /\ last' = last /\ Messages' = Append(Messages, m)
    <3>1. /\ \A f \in Owned : f \in timers \/ f \in Owned'
          /\ New \in Owned' /\ timers' \subseteq Owned' \cup {0}
      BY <2>1, <2>2, <2>3, <2>4, ArrivedOwned
    <3>2. e = New \/ e \in Owned'
      BY <1>0, <2>1, <2>2, <3>1, EventsAssumption DEF Event
    <3> QED BY <1>0, <3>1, <3>2
  <2>5. CASE Received' = Received /\ Messages' = Messages /\ (Full \/ ~Present)
    <3>1. Owned \subseteq Owned'
      BY <2>1, <2>5, SameOwners
    <3>2. e = New
      BY <1>0, <2>2, <3>1
    <3> QED BY <2>2, <2>5, <3>2 DEF KnownLeak, Ev
  <2> QED BY <2>1, <2>3, <2>4, <2>5, InterruptMoves
<1>2. ASSUME NEW f \in timers, TimerFires(f) PROVE KnownLeak(e)
  <2>1. /\ timers' = timers \ {f} /\ FromInterrupt(I(f))
        /\ UNCHANGED <<event, waiter, cur, g>>
    BY <1>2 DEF TimerFires
  <2>2. PICK m \in Message : m = I(f)
    <3>1. I(f) \in Message
      BY EventsAssumption DEF Message, Types, Event
    <3> QED BY <3>1
  <2>3. f # 0 /\ e # 0 /\ e \in Owned
    BY <1>0, <2>1, EventsAssumption DEF Types, Event
  <2>4. CASE \/ pc = "recv" /\ pc' = "got" /\ last' = m /\ Messages' = Messages
             \/ pc # "recv" /\ pc' = pc /\ last' = last /\ Messages' = Append(Messages, m)
    <3>1. /\ \A x \in Owned : x \in timers \/ x \in Owned'
          /\ f \in Owned' /\ timers' \subseteq Owned' \cup {0}
      BY <2>1, <2>2, <2>3, <2>4, ArrivedOwned
    <3> QED BY <1>0, <2>1, <2>3, <3>1
  <2>5. CASE Received' = Received /\ Messages' = Messages /\ (Full \/ ~Present)
    <3>1. e = f
      <4>1. Posted' = Posted
        BY <2>5 DEF Posted
      <4> QED BY <1>0, <2>1, <2>3, <2>5, <4>1, OwnedIs, OwnedIsNext
    <3> QED BY <2>1, <2>5, <3>1 DEF KnownLeak, Known
  <2> QED BY <2>1, <2>2, <2>4, <2>5, InterruptMoves
<1>3. CASE TimeoutFires
  <2>1. FromInterrupt(Timeout) /\ UNCHANGED <<event, waiter, cur, timers, g>>
    BY <1>3 DEF TimeoutFires
  <2>2. PICK m \in Message : m = Timeout
    <3>1. Timeout \in Message
      BY EventsAssumption DEF Message, Timeout
    <3> QED BY <3>1
  <2>3. e \in Owned /\ e # 0
    BY <1>0, <2>1, EventsAssumption DEF Event
  <2>4. CASE \/ pc = "recv" /\ pc' = "got" /\ last' = m /\ Messages' = Messages
             \/ pc # "recv" /\ pc' = pc /\ last' = last /\ Messages' = Append(Messages, m)
    <3>1. /\ \A x \in Owned : x \in timers \/ x \in Owned'
          /\ timers' \subseteq Owned' \cup {0}
      BY <2>1, <2>2, <2>4, ArrivedOwned
    <3> QED BY <1>0, <2>1, <2>3, <3>1
  <2>5. CASE Received' = Received /\ Messages' = Messages
    BY <1>0, <2>1, <2>3, <2>5, SameOwners
  <2> QED BY <2>1, <2>2, <2>4, <2>5, InterruptMoves
<1> QED BY <1>1, <1>2, <1>3 DEF Interrupt

\* An event that the CoAP thread posts, or frees.
LEMMA CoapLeaks ==
  ASSUME Types, States, Own, Gcoap, NEW e \in Leaked' \ Leaked
  PROVE  KnownLeak(e)
<1>0. /\ e \in Event /\ e \notin Owned' /\ event'[e] # Free /\ (event[e] = Free \/ e \in Owned)
      /\ e # 0
  BY NotLost, EventsAssumption DEF Event
<1>1. ASSUME NEW k \in Kinds, NEW n \in 0..MaxReq, CanMake, event' = Make(k, n),
             NEW st \in {"send", "reply"}, Send([ev |-> New, from |-> "gcoap"], st),
             g.st = "idle", UNCHANGED <<cur, timers>>
      PROVE  FALSE
  <2>1. /\ New \in Event /\ New # 0 /\ \A f \in Event : f # New => event'[f] = event[f]
    BY <1>1, CanMakeUnused, MakeOK
  <2>2. PICK m \in Message : m = [ev |-> New, from |-> "gcoap"]
    <3>1. [ev |-> New, from |-> "gcoap"] \in Message
      BY <1>1, CanMakeUnused, MadeTypes DEF Message
    <3> QED BY <3>1
  <2>3. /\ \/ pc = "recv" /\ pc' = "got" /\ last' = m /\ Messages' = Messages
           \/ pc # "recv" /\ pc' = pc /\ last' = last /\ Messages' = Append(Messages, m)
        /\ g.ev = 0 /\ g'.ev = 0
    BY <1>1, <2>2, SendMoves
  <2>4. /\ \A f \in Owned : f \in timers \/ f \in Owned'
        /\ New \in Owned' /\ timers' \subseteq Owned' \cup {0}
    BY <1>1, <2>1, <2>2, <2>3, ArrivedOwned
  <2> QED BY <1>0, <1>1, <2>1, <2>4
<1>2. ASSUME UNCHANGED <<queue, last, pc, waiter, g, cur, timers>> PROVE Owned \subseteq Owned'
  <2>1. Messages' = Messages /\ Received' = Received
    BY <1>2 DEF Messages, Received
  <2> QED BY <1>2, <2>1, SameOwners
<1>3. CASE HandleRequest
  <2>1. /\ "COAP_REQ" \in Kinds /\ buf + 1 \in 0..MaxReq /\ CanMake /\ g.st = "idle"
        /\ UNCHANGED <<cur, timers>>
    BY <1>3, EventsAssumption DEF HandleRequest, Types, Kinds
  <2>2. CASE Present /\ event' = Make("COAP_REQ", buf + 1)
             /\ Send([ev |-> New, from |-> "gcoap"], "reply")
    BY <1>1, <2>1, <2>2
  <2>3. CASE UNCHANGED <<event, queue, last, pc, waiter, g>>
    BY <1>0, <1>2, <2>1, <2>3
  <2> QED BY <1>3, <2>2, <2>3 DEF HandleRequest
<1>4. CASE Respond
  <2>1. /\ event' = Freed(g.ev) /\ g.ev \in 0..NE
        /\ UNCHANGED <<queue, waiter, last, pc, cur, timers>>
    BY <1>4 DEF Respond, Types
  <2>2. event'[e] = IF e = g.ev THEN Free ELSE event[e]
    BY <1>0, <2>1, FreedOK
  <2>3. Posted' = Posted /\ Received' = Received
    BY <2>1 DEF Posted, Messages, Received
  <2>4. e \in Owned /\ e # g.ev
    BY <1>0, <2>2
  <2>5. e \in Owned'
    BY <2>1, <2>3, <2>4, OwnedIs, OwnedIsNext
  <2> QED BY <1>0, <2>5
<1>5. CASE HandleResponse
  <2>1. /\ "COAP_RESP" \in Kinds /\ buf + 1 \in 0..MaxReq /\ CanMake /\ g.st = "idle"
        /\ UNCHANGED <<cur, timers>>
    BY <1>5, EventsAssumption DEF HandleResponse, Types, Kinds
  <2>2. CASE Present /\ event' = Make("COAP_RESP", buf + 1)
             /\ Send([ev |-> New, from |-> "gcoap"], "send")
    BY <1>1, <2>1, <2>2
  <2>3. CASE UNCHANGED <<event, queue, last, pc, waiter, g>>
    BY <1>0, <1>2, <2>1, <2>3
  <2> QED BY <1>5, <2>2, <2>3 DEF HandleResponse
<1>6. CASE PostUpdateReady
  <2>1. /\ "UPD_RDY" \in Kinds /\ 0 \in 0..MaxReq /\ CanMake /\ g.st = "idle"
        /\ UNCHANGED <<cur, timers>> /\ event' = Make("UPD_RDY", 0)
    BY <1>6, EventsAssumption DEF PostUpdateReady, Kinds
  <2>2. CASE Present /\ Send([ev |-> New, from |-> "gcoap"], "send")
    BY <1>1, <2>1, <2>2
  <2>3. CASE ~Present /\ UNCHANGED <<queue, last, pc, waiter, g>>
    <3>1. /\ event'[New] = Ev("UPD_RDY", 0)
          /\ \A f \in Event : f # New => event'[f] = event[f]
      BY <2>1, CanMakeUnused, MakeOK
    <3>2. e = New
      BY <1>0, <1>2, <2>1, <2>3, <3>1
    <3> QED BY <2>3, <3>1, <3>2 DEF KnownLeak, Ev
  <2> QED BY <1>6, <2>2, <2>3 DEF PostUpdateReady
<1> QED BY <1>3, <1>4, <1>5, <1>6 DEF Gcoap

\* What the uj thread makes, frees and passes on.
LEMMA UjLeaks ==
  ASSUME Types, States, Own, Track, Known, Uj, NEW e \in Leaked' \ Leaked
  PROVE  KnownLeak(e)
<1>0. /\ e \in Event /\ e \notin Owned' /\ event'[e] # Free /\ (event[e] = Free \/ e \in Owned)
      /\ e # 0
  BY NotLost, EventsAssumption DEF Event
<1>1. ASSUME NEW k \in Kinds, NEW n \in 0..MaxReq, Unused # {}, event' = Make(k, n)
      PROVE  /\ event'[New].kind = k /\ New # 0
             /\ e = New \/ event'[e] = event[e]
  <2>1. Ev(k, n).kind = k
    BY DEF Ev
  <2> QED BY <1>0, <1>1, <2>1, MakeOK
<1>2. 0 \in 0..MaxReq /\ {"TIMER", "GENERIC", "COAP_REPLY"} \subseteq Kinds
  BY EventsAssumption DEF Kinds
<1>3. CASE InitEvents
  <2>1. pc = "boot" /\ pc' = "run" /\ timers = {} /\ UNCHANGED <<queue, waiter, cur, g>>
    BY <1>3 DEF InitEvents, States
  <2>2. Posted' = Posted /\ Received = 0
    BY <2>1 DEF Posted, Messages, Received
  <2>3. Owned \subseteq Owned'
    BY <2>1, <2>2, OwnedIs, OwnedIsNext
  <2>4. CASE UNCHANGED <<event, timers>>
    BY <1>0, <2>3, <2>4
  <2>5. CASE CanMake /\ event' = Make("TIMER", 0) /\ timers' = {New}
    <3>1. New # 0 /\ (e = New \/ event'[e] = event[e])
      BY <1>1, <1>2, <2>5, CanMakeUnused
    <3>2. New \in Owned'
      BY <2>5, <3>1, OwnedIsNext
    <3> QED BY <1>0, <2>3, <3>1, <3>2
  <2> QED BY <1>3, <2>4, <2>5 DEF InitEvents
<1>4. ASSUME NEW t \in {"zero", "timed", "forever"}, WaitEvent(t) PROVE FALSE
  <2>1. event' = Freed(cur) /\ cur' = 0 /\ timers' = timers /\ Received = 0 /\ cur \in 0..NE
    BY <1>4 DEF WaitEvent, Calls, Received, Types
  <2>2. e # cur /\ e \in Owned
    BY <1>0, <2>1, FreedOK
  <2>3. Messages \in Seq(Message) /\ Posted = Evs(Messages) /\ Posted' = Evs(Messages')
        /\ Once(Messages)
    BY MessagesOK DEF Own, Posted, Evs
  <2>4. Posted \subseteq Posted' \cup {Received'} /\ g'.ev = g.ev
    <3>1. CASE queue # <<>>
      <4>1. TakeFirst /\ pc' = "got"
        BY <1>4, <3>1 DEF WaitEvent
      <4>2. Messages' = Tail(Messages) /\ last' = Head(Messages) /\ Messages # <<>>
        BY <3>1, <4>1, TakenQueue
      <4>3. Received' = Head(Messages).ev
        BY <4>1, <4>2 DEF Received
      <4>4. g'.ev = g.ev
        BY <3>1, <4>1, TakeFirstTypes
      <4> QED BY <2>3, <4>2, <4>3, <4>4, TailOnce
    <3>2. CASE queue = <<>>
      <4>1. UNCHANGED <<queue, waiter, g>>
        BY <1>4, <3>2 DEF WaitEvent
      <4> QED BY <4>1 DEF Posted, Messages
    <3> QED BY <3>1, <3>2
  <2>5. e \in Owned'
    BY <1>0, <2>1, <2>2, <2>4, OwnedIs, OwnedIsNext
  <2> QED BY <1>0, <2>5
<1>5. CASE WaitReturns
  <2>1. /\ pc = "got" /\ Received' = 0 /\ cur = 0 /\ Received = last.ev
        /\ UNCHANGED <<queue, waiter, timers, g>>
    BY <1>5 DEF WaitReturns, Received, States
  <2>2. Posted' = Posted
    BY <2>1 DEF Posted, Messages
  <2>3. CASE UNCHANGED event /\ (cur' = last.ev \/ last.ev = 0)
    <3>1. e \in Owned'
      BY <1>0, <2>1, <2>2, <2>3, OwnedIs, OwnedIsNext
    <3> QED BY <1>0, <3>1
  <2>4. CASE last.ev = 0 /\ Unused # {} /\ cur' = New /\ event' = Make("GENERIC", 0)
    <3>1. New # 0 /\ (e = New \/ event'[e] = event[e])
      BY <1>1, <1>2, <2>4
    <3>2. New \in Owned' /\ Owned \subseteq Owned'
      BY <2>1, <2>2, <2>4, <3>1, OwnedIs, OwnedIsNext
    <3> QED BY <1>0, <3>1, <3>2
  <2> QED BY <1>5, <2>3, <2>4 DEF WaitReturns
<1>6. CASE ReplyEvent
  <2>1. /\ InHand \in 0..MaxReq /\ Unused # {} /\ event' = Make("COAP_REPLY", InHand)
        /\ UNCHANGED <<queue, waiter, last, pc, cur, timers>>
        /\ g' = (IF CanReply THEN [st |-> "answered", ev |-> New] ELSE g)
    BY <1>6, InHandOK DEF ReplyEvent
  <2>2. event'[New].kind = "COAP_REPLY" /\ New # 0 /\ (e = New \/ event'[e] = event[e])
    BY <1>1, <1>2, <2>1
  <2>3. Posted' = Posted /\ Received' = Received
    BY <2>1 DEF Posted, Messages, Received
  <2>4. CASE CanReply
    <3>1. g.ev = 0 /\ g'.ev = New
      BY <2>1, <2>4 DEF CanReply, States
    <3>2. New \in Owned' /\ Owned \subseteq Owned'
      BY <2>1, <2>2, <2>3, <3>1, OwnedIs, OwnedIsNext
    <3> QED BY <1>0, <2>2, <3>2
  <2>5. CASE ~CanReply
    <3>1. prog = "any"
      BY <1>6, <2>5, ReplyTrack DEF Known
    <3>2. Owned \subseteq Owned'
      BY <2>1, <2>3, <2>5, OwnedIs, OwnedIsNext
    <3>3. e = New
      BY <1>0, <2>2, <3>2
    <3> QED BY <2>2, <2>5, <3>1, <3>3 DEF KnownLeak
  <2> QED BY <2>4, <2>5
<1>7. CASE SetTimeout
  <2>1. /\ Unused # {} /\ event' = Make("TIMER", 0) /\ timers' = timers \cup {New}
        /\ UNCHANGED <<queue, waiter, last, pc, cur, g>>
    BY <1>7 DEF SetTimeout
  <2>2. New # 0 /\ (e = New \/ event'[e] = event[e])
    BY <1>1, <1>2, <2>1
  <2>3. Posted' = Posted /\ Received' = Received
    BY <2>1 DEF Posted, Messages, Received
  <2>4. New \in Owned' /\ Owned \subseteq Owned'
    BY <2>1, <2>2, <2>3, OwnedIs, OwnedIsNext
  <2> QED BY <1>0, <2>2, <2>4
<1>8. CASE End
  <2>1. /\ UNCHANGED <<event, queue, waiter, last, cur, timers, g>>
        /\ pc = "run" /\ pc' \in {"end", "dead"}
    BY <1>8 DEF End, Calls
  <2>2. Posted' = Posted /\ Received = 0
    BY <2>1 DEF Posted, Messages, Received
  <2>3. Owned \subseteq Owned'
    BY <2>1, <2>2, OwnedIs, OwnedIsNext
  <2> QED BY <1>0, <2>1, <2>3
<1>9. CASE Reboot
  BY <1>0, <1>9 DEF Reboot
<1> QED BY <1>3, <1>4, <1>5, <1>6, <1>7, <1>8, <1>9 DEF Uj

\* Events are lost in the known ways only, under any program.
THEOREM OnlyKnownLeaksEver == Spec => OnlyKnownLeaks
<1> DEFINE A == \A e \in Leaked' \ Leaked : KnownLeak(e)
<1>1. Init => IInv
  BY InitTyped, InitOwn, InitTrack DEF IInv
<1>2. IInv /\ [Next]_vars => IInv'
  BY NextTyped, NextOwn, NextTrack, NextKnown DEF IInv
<1>3. IInv /\ [Next]_vars => [A]_vars
  BY InterruptLeaks, CoapLeaks, UjLeaks DEF Next, IInv
<1>4. A = \A e \in Leaked' \ Leaked :
            \/ event'[e].kind \in {"GPIO", "TIMER"} /\ (Full \/ ~Present)
            \/ event'[e].kind = "UPD_RDY" /\ ~Present
            \/ event'[e].kind = "COAP_REPLY" /\ prog = "any" /\ ~CanReply
  BY DEF KnownLeak
<1> QED BY <1>1, <1>2, <1>3, PTL DEF Spec, OnlyKnownLeaks, KnownLeak
-----------------------------------------------------------------------------
(* UjUpdate.  The running program is the installed one. *)

LEMMA RunsInstalledInit == UpdateInit => RunsInstalled
BY DEF UpdateInit, RunsInstalled

LEMMA RunsInstalledNext == RunsInstalled /\ [UpdateNext]_updateVars => RunsInstalled'
<1> SUFFICES ASSUME RunsInstalled, [UpdateNext]_updateVars, boot' = "run" PROVE running' = Source'
  BY DEF RunsInstalled
<1> USE DEF RunsInstalled, Source
<1>1. CASE Starting
  BY <1>1 DEF Starting, LookForUpdate, UnlinkDefault, RenameUpdate, LoadClasses
<1>2. CASE ProgramFails \/ Restart \/ ProgramEnds \/ CarefulRestart
  BY <1>2 DEF ProgramFails, Restart, ProgramEnds, CarefulRestart, Restarted
<1>3. CASE AnyRequest
  BY <1>3 DEF AnyRequest, Start, Write, Abort, Finish
<1>4. CASE AbortUpdate \/ CarefulTakesOver \/ PowerIsStable \/ \E s \in 1..4 : CarefulNext(s)
  BY <1>4 DEF AbortUpdate, CarefulTakesOver, PowerIsStable, CarefulNext
<1>5. CASE CarefulRequest
  BY <1>5 DEF CarefulRequest, Request, Abort, Start, Write, Finish
<1>6. CASE UNCHANGED updateVars
  BY <1>6 DEF updateVars
<1> QED BY <1>1, <1>2, <1>3, <1>4, <1>5, <1>6 DEF UpdateNext

\* The file that bytecode is read from is the one that was loaded: no handler
\* changes /main/default.ujcpak, and the uj thread does so only before it loads.
THEOREM AlwaysRunsInstalled == UpdateSpec => []RunsInstalled
BY RunsInstalledInit, RunsInstalledNext, PTL DEF UpdateSpec

-----------------------------------------------------------------------------
(* A program is lost only by an abort in the middle of an installation. *)

\* While the old program is being removed the new one is there.
KeptInv ==
  /\ LostOnlyByAbort
  /\ ~board.builtin /\ boot = "unlink" /\ update = Absent => raced

LEMMA WholePresent == ASSUME NEW v PROVE Whole(v) # Absent
BY UpdateAssumption DEF Whole, Absent, Block

LEMMA KeptInit == UpdateInit => KeptInv
BY WholePresent DEF UpdateInit, KeptInv, LostOnlyByAbort

LEMMA KeptNext == KeptInv /\ [UpdateNext]_updateVars => KeptInv'
<1> SUFFICES ASSUME KeptInv, [UpdateNext]_updateVars PROVE KeptInv'
  OBVIOUS
<1> USE DEF KeptInv, LostOnlyByAbort
<1>1. CASE LookForUpdate
  BY <1>1 DEF LookForUpdate
<1>2. CASE UnlinkDefault
  BY <1>2 DEF UnlinkDefault
<1>3. CASE RenameUpdate
  BY <1>3 DEF RenameUpdate
<1>4. CASE LoadClasses \/ ProgramFails \/ Restart \/ ProgramEnds \/ CarefulRestart
  BY <1>4 DEF LoadClasses, ProgramFails, Restart, ProgramEnds, CarefulRestart, Restarted
<1>5. CASE AnyRequest
  BY <1>5 DEF AnyRequest, Start, Write, Abort, Finish
<1>6. CASE AbortUpdate
  BY <1>6 DEF AbortUpdate
<1>7. CASE CarefulRequest
  BY <1>7 DEF CarefulRequest, Request, Abort, Start, Write, Finish
<1>8. CASE CarefulTakesOver \/ PowerIsStable \/ \E s \in 1..4 : CarefulNext(s)
  BY <1>8 DEF CarefulTakesOver, PowerIsStable, CarefulNext
<1>9. CASE UNCHANGED updateVars
  BY <1>9 DEF updateVars
<1> QED BY <1>1, <1>2, <1>3, <1>4, <1>5, <1>6, <1>7, <1>8, <1>9 DEF UpdateNext, Starting

\* Without a builtin package a board keeps a program to start, through any requests
\* and power failures, unless an abort has removed the new program while the old
\* one was already on its way out (nat_uj.c:47, nat_gcoap_native.c:45).
THEOREM AlwaysLostOnlyByAbort == UpdateSpec => []LostOnlyByAbort
<1>1. KeptInv => LostOnlyByAbort
  BY DEF KeptInv
<1> QED BY <1>1, KeptInit, KeptNext, PTL DEF UpdateSpec

-----------------------------------------------------------------------------
(* Updates by a careful client are atomic. *)

\* What the steps of a careful client say of the files, and what the files say of
\* an installation in progress.
CarefulInv ==
  careful =>
    /\ client # "any"
    /\ aborting => client = "abort"
    /\ client \in {"abort", "start", "write"} => update = Absent
    /\ update \in {Absent, Whole(NewVersion)}
    /\ client = "finish" => part \in {Absent, Whole(NewVersion)}
    /\ default \in {Absent, Whole(OldVersion), Whole(NewVersion)}
    /\ default = Absent /\ ~board.builtin => update # Absent
    /\ boot \in {"unlink", "rename"} => update # Absent
    /\ boot = "load" /\ ~board.builtin => default # Absent
    /\ boot = "run" => running \in {Whole(OldVersion), Whole(NewVersion), Whole(BuiltIn)}
    /\ boot # "dead"

LEMMA CarefulImplies == CarefulInv => AlwaysWhole
BY UpdateAssumption DEF CarefulInv, AlwaysWhole, WholeVersion, Source

\* A complete version is loaded.
LEMMA WholeLoads == ASSUME NEW v \in Version \cup {BuiltIn} PROVE Loads(Whole(v)) = {TRUE}
<1>1. Whole(v) # Absent
  BY WholePresent
<1>2. Whole(v)[1] # Hole
  BY UpdateAssumption DEF Whole, Block
<1> QED BY <1>1, <1>2 DEF Loads

LEMMA CarefulInit == UpdateInit => CarefulInv
BY WholePresent DEF UpdateInit, CarefulInv

LEMMA CarefulNextInv == CarefulInv /\ [UpdateNext]_updateVars => CarefulInv'
<1> SUFFICES ASSUME CarefulInv, [UpdateNext]_updateVars, careful' PROVE CarefulInv'
  BY DEF CarefulInv
<1>0. careful
  BY DEF UpdateNext, Starting, LookForUpdate, UnlinkDefault, RenameUpdate, LoadClasses, ProgramFails,
         Restart, ProgramEnds, CarefulRestart, AnyRequest, AbortUpdate, CarefulRequest,
         CarefulTakesOver, PowerIsStable, CarefulNext, updateVars
<1> USE <1>0 DEF CarefulInv
<1>1. CASE LookForUpdate
  BY <1>1 DEF LookForUpdate
<1>2. CASE UnlinkDefault
  BY <1>2 DEF UnlinkDefault
<1>3. CASE RenameUpdate
  BY <1>3, WholePresent DEF RenameUpdate
<1>4. CASE LoadClasses
  <2>1. PICK ok \in Loads(Source) :
          boot' = (IF ok THEN "run" ELSE "dead") /\ running' = (IF ok THEN Source ELSE Absent)
    BY <1>4 DEF LoadClasses
  <2>2. PICK v \in {OldVersion, NewVersion, BuiltIn} : Source = Whole(v)
    BY <1>4 DEF LoadClasses, Source
  <2>3. ok = TRUE
    <3>1. Loads(Whole(v)) = {TRUE}
      BY WholeLoads, UpdateAssumption
    <3> QED BY <2>1, <2>2, <3>1
  <2> QED BY <1>4, <2>1, <2>2, <2>3 DEF LoadClasses
<1>5. CASE ProgramFails
  BY <1>5, UpdateAssumption DEF ProgramFails
<1>6. CASE Restart \/ ProgramEnds \/ CarefulRestart
  BY <1>6 DEF Restart, ProgramEnds, CarefulRestart, Restarted
<1>7. CASE AnyRequest \/ CarefulTakesOver
  BY <1>7 DEF AnyRequest, CarefulTakesOver
<1>8. CASE AbortUpdate
  BY <1>8 DEF AbortUpdate
<1>9. CASE CarefulRequest
  BY <1>9 DEF CarefulRequest, Request, Abort, Start, Write, Finish
<1>10. ASSUME NEW s \in 1..4, CarefulNext(s) PROVE CarefulInv'
  BY <1>10, WholePresent DEF CarefulNext, Answered, Steps
<1>11. CASE PowerIsStable \/ UNCHANGED updateVars
  BY <1>11 DEF PowerIsStable, updateVars
<1> QED BY <1>1, <1>2, <1>3, <1>4, <1>5, <1>6, <1>7, <1>8, <1>9, <1>10, <1>11 DEF UpdateNext, Starting

\* Whenever the power fails, a board that a careful client updates starts a complete
\* program, for any number of blocks.
THEOREM AlwaysAlwaysWhole == UpdateSpec => []AlwaysWhole
BY CarefulImplies, CarefulInit, CarefulNextInv, PTL DEF UpdateSpec
=============================================================================
