------------------------------ MODULE RiotEvents ------------------------------
(***************************************************************************)
(* The event queue of the RIOT port (riot/events.c) with everything that   *)
(* uses it: the natives of class RIOT (riot/nat_riot.c) called by the Java *)
(* program in the uj thread, the CoAP thread with its blocking request     *)
(* handler (riot/nat/gcoap/nat_gcoap_uj.c), the GPIO interrupt, the timers *)
(* and the end of the program (riot/main.c).                               *)
(*                                                                         *)
(* Messages, message queues and xtimer are RIOT's: msg_send blocks while   *)
(* the queue is full and msg_send_int, which interrupts use, gives up;     *)
(* msg_reply needs a sender that is blocked for a reply.                   *)
(*                                                                         *)
(* An event is memory that somebody must free; event maps each address to  *)
(* what is there.  pdu numbers the CoAP requests: the one a request event  *)
(* is about, the one the program had in hand when it made a reply.         *)
(***************************************************************************)
EXTENDS Integers, Sequences, FiniteSets, SequencesExt

CONSTANTS
  NE,         \* addresses for events
  Reserve,    \* bound: addresses that only the uj thread may use
  QueueSize,  \* messages in msg_queue
  MaxReq,     \* bound: packets the CoAP thread receives between two starts
  Programs    \* "default": java/Default.java, "any": natives in any order

ASSUME EventsAssumption ==
  /\ NE \in Nat /\ Reserve \in 0..NE /\ QueueSize \in Nat \ {0} /\ MaxReq \in Nat
  /\ Programs \subseteq {"default", "any"}

VARIABLES
  event,    \* address -> the event there, or Free
  queue,    \* msg_queue
  waiter,   \* the message of a sender that waits for room, if there is one
  last,     \* last_msg
  cur,      \* cur_event, or 0
  pc,       \* where the uj thread is
  wait,     \* the timeout of the wait in progress
  handled,  \* the default program has dealt with cur_event
  timers,   \* events of setTimeout that have not come yet
  g,        \* the CoAP thread: what it does and the reply it got
  buf,      \* number of the packet in the CoAP thread's buffer
  prog      \* the Java program

vars == <<event, queue, waiter, last, cur, pc, wait, handled, timers, g, buf, prog>>

Event == 1..NE
Free == [kind |-> "free", pdu |-> 0]
Kinds == {"GPIO", "COAP_REQ", "COAP_REPLY", "COAP_RESP", "TIMER", "UPD_RDY", "GENERIC"}
Ev(k, n) == [kind |-> k, pdu |-> n]
NoMessage == [ev |-> 0, from |-> "nobody"]
Timeout == [ev |-> 0, from |-> "isr"]
Idle == [st |-> "idle", ev |-> 0]

Init ==
  /\ event = [e \in Event |-> Free] /\ queue = <<>> /\ waiter = <<>>
  /\ last = NoMessage /\ cur = 0 /\ pc = "boot" /\ wait = "none" /\ handled = TRUE
  /\ timers = {} /\ g = Idle /\ buf = 0
  /\ prog \in Programs

-----------------------------------------------------------------------------
(* Memory. *)

Unused == {e \in Event : event[e] = Free}
New == CHOOSE e \in Unused : TRUE
\* make_event_raw in the environment of the uj thread
CanMake == Cardinality(Unused) > Reserve
Make(k, n) == [event EXCEPT ![New] = Ev(k, n)]
\* free_event, which does nothing for NULL
Freed(e) == IF e = 0 THEN event ELSE [event EXCEPT ![e] = Free]

-----------------------------------------------------------------------------
(* RIOT's messages. *)

\* the uj thread takes messages: it has called init_events and has not ended
Present == pc \notin {"boot", "dead"}
Full == pc # "recv" /\ Len(queue) = QueueSize

\* A message that has a receiver or room.
Deliver(m) ==
  \/ /\ pc = "recv"
     /\ last' = m /\ pc' = "got"
     /\ UNCHANGED queue
  \/ /\ pc # "recv" /\ Len(queue) < QueueSize
     /\ queue' = Append(queue, m)
     /\ UNCHANGED <<last, pc>>

\* msg_receive with a message there: the sender that waits for room gets it.
TakeFirst ==
  /\ last' = Head(queue)
  /\ queue' = Tail(queue) \o waiter
  /\ waiter' = <<>>
  /\ g' = IF waiter # <<>> /\ g.st = "send" THEN Idle ELSE g

-----------------------------------------------------------------------------
(* Interrupts. *)

\* The interrupt's message is sent, or dropped with its event, which nobody frees.
FromInterrupt(m) ==
  \/ Present /\ Deliver(m)
  \/ (~Present \/ Full) /\ UNCHANGED <<last, pc, queue>>

\* gpio_int_cb
GpioInterrupt ==
  /\ pc # "boot" /\ CanMake
  /\ event' = Make("GPIO", 0)
  /\ FromInterrupt([ev |-> New, from |-> "isr"])
  /\ UNCHANGED <<waiter, cur, wait, handled, timers, g, buf, prog>>

\* (Mutant: a timer can come twice.)
TimerFires_StaysArmed(e) ==
  /\ FromInterrupt([ev |-> e, from |-> "isr"])
  /\ UNCHANGED <<event, waiter, cur, wait, handled, timers, g, buf, prog>>

\* The timer of setTimeoutGeneric sends the message inside of its own event.
TimerFires(e) ==
  /\ timers' = timers \ {e}
  /\ FromInterrupt([ev |-> e, from |-> "isr"])
  /\ UNCHANGED <<event, waiter, cur, wait, handled, g, buf, prog>>

\* The timeout of xtimer_msg_receive_timeout, perhaps when a message has come.
TimeoutFires ==
  /\ wait = "armed" /\ pc \in {"recv", "got"}
  /\ wait' = "fired"
  /\ FromInterrupt(Timeout)
  /\ UNCHANGED <<event, waiter, cur, handled, timers, g, buf, prog>>

-----------------------------------------------------------------------------
(* The CoAP thread. *)

\* msg_send and msg_send_receive: in the second case the thread waits for a reply.
Send(m, st) ==
  \/ /\ Deliver(m)
     /\ g' = IF st = "reply" THEN [st |-> "reply", ev |-> 0] ELSE g
     /\ UNCHANGED waiter
  \/ /\ Full
     /\ waiter' = <<m>>
     /\ g' = [st |-> st, ev |-> 0]
     /\ UNCHANGED <<queue, last, pc>>

\* uj_gcoap_handler up to post_event_receive, which fails when nobody receives:
\* then the event is freed and the answer is 500
HandleRequest ==
  /\ g.st = "idle" /\ buf < MaxReq /\ CanMake
  /\ buf' = buf + 1
  /\ \/ /\ Present
        /\ event' = Make("COAP_REQ", buf + 1)
        /\ Send([ev |-> New, from |-> "gcoap"], "reply")
     \/ /\ ~Present
        /\ UNCHANGED <<event, queue, last, pc, waiter, g>>
  /\ UNCHANGED <<cur, wait, handled, timers, prog>>

\* uj_gcoap_handler from the reply on: a code, a payload or 500, and the reply
\* event is freed in each case
Respond ==
  /\ g.st = "answered"
  /\ event' = Freed(g.ev)
  /\ g' = Idle
  /\ UNCHANGED <<queue, waiter, last, cur, pc, wait, handled, timers, buf, prog>>

\* handleRequestResponse: the payload is copied, and freed if nobody receives
HandleResponse ==
  /\ g.st = "idle" /\ buf < MaxReq /\ CanMake
  /\ buf' = buf + 1
  /\ \/ /\ Present
        /\ event' = Make("COAP_RESP", buf + 1)
        /\ Send([ev |-> New, from |-> "gcoap"], "send")
     \/ /\ ~Present
        /\ UNCHANGED <<event, queue, last, pc, waiter, g>>
  /\ UNCHANGED <<cur, wait, handled, timers, prog>>

\* The end of /update/finish, which does not free what it could not post.
PostUpdateReady ==
  /\ g.st = "idle" /\ buf < MaxReq /\ CanMake
  /\ buf' = buf + 1
  /\ event' = Make("UPD_RDY", 0)
  /\ \/ Present /\ Send([ev |-> New, from |-> "gcoap"], "send")
     \/ ~Present /\ UNCHANGED <<queue, last, pc, waiter, g>>
  /\ UNCHANGED <<cur, wait, handled, timers, prog>>

-----------------------------------------------------------------------------
(* The uj thread. *)

Kind(e) == IF e = 0 THEN "none" ELSE event[e].kind

\* (Mutant: replies only to the first resource.)
Handler_ForgetsReply ==
  CASE handled -> "wait"
    [] ~handled /\ Kind(cur) = "COAP_REQ" /\ event[cur].pdu = 1 -> "reply"
    [] ~handled /\ Kind(cur) = "TIMER" -> "setTimeout"
    [] ~handled /\ Kind(cur) = "UPD_RDY" -> "end"
    [] OTHER -> "wait"

\* What the loop of Default.main does next.
Handler ==
  CASE handled -> "wait"
    [] ~handled /\ Kind(cur) = "COAP_REQ" -> "reply"
    [] ~handled /\ Kind(cur) = "TIMER" -> "setTimeout"
    [] ~handled /\ Kind(cur) = "UPD_RDY" -> "end"
    [] OTHER -> "wait"

Calls(op) == pc = "run" /\ (prog = "any" \/ Handler = op)

\* run_uj until the program's loop; Default.main offers a timer to comment in
InitEvents ==
  /\ pc = "boot"
  /\ pc' = "run" /\ handled' = TRUE
  /\ \/ UNCHANGED <<event, timers>>
     \/ CanMake /\ event' = Make("TIMER", 0) /\ timers' = {New}
  /\ UNCHANGED <<queue, waiter, last, cur, wait, g, buf, prog>>

\* (Mutant: the event before is forgotten and not freed.)
WaitEvent_KeepsOld(timeout) ==
  /\ Calls("wait")
  /\ prog = "default" => timeout = "timed"
  /\ UNCHANGED event /\ cur' = 0
  /\ wait' = IF timeout = "timed" THEN "armed" ELSE "none"
  /\ IF queue # <<>>
     THEN TakeFirst /\ pc' = "got"
     ELSE /\ pc' = IF timeout = "zero" THEN "run" ELSE "recv"
          /\ UNCHANGED <<queue, waiter, last, g>>
  /\ handled' = TRUE
  /\ UNCHANGED <<timers, buf, prog>>

\* (Mutant: waits for the next message without looking at the queue.)
WaitEvent_IgnoresQueue(timeout) ==
  /\ Calls("wait")
  /\ prog = "default" => timeout = "timed"
  /\ event' = Freed(cur) /\ cur' = 0
  /\ wait' = IF timeout = "timed" THEN "armed" ELSE "none"
  /\ pc' = IF timeout = "zero" THEN "run" ELSE "recv"
  /\ handled' = TRUE
  /\ UNCHANGED <<queue, waiter, last, g, timers, buf, prog>>

\* natRIOT_waitEvent up to the reception
WaitEvent(timeout) ==
  /\ Calls("wait")
  /\ prog = "default" => timeout = "timed"
  /\ event' = Freed(cur) /\ cur' = 0
  /\ wait' = IF timeout = "timed" THEN "armed" ELSE "none"
  /\ IF queue # <<>>
     THEN TakeFirst /\ pc' = "got"
     ELSE /\ pc' = IF timeout = "zero" THEN "run" ELSE "recv"
          /\ UNCHANGED <<queue, waiter, last, g>>
  /\ handled' = TRUE
  /\ UNCHANGED <<timers, buf, prog>>

\* (Mutant: a message that comes with the timeout is taken for a timeout.)
WaitReturns_DropsLate ==
  /\ pc = "got"
  /\ pc' = "run" /\ wait' = "none" /\ handled' = (prog = "any")
  /\ \/ /\ last.ev # 0 /\ wait # "fired"
        /\ cur' = last.ev /\ UNCHANGED event
     \/ /\ last.ev = 0 \/ wait = "fired"
        /\ cur' = 0 /\ UNCHANGED event
  /\ UNCHANGED <<queue, waiter, last, timers, g, buf, prog>>

\* wait_event from the reception on.  A timeout that came late, in an earlier
\* wait, is taken for the one of this wait or becomes a generic event.
WaitReturns ==
  /\ pc = "got"
  /\ pc' = "run" /\ wait' = "none" /\ handled' = (prog = "any")
  /\ \/ /\ last.ev # 0
        /\ cur' = last.ev /\ UNCHANGED event
     \/ /\ last.ev = 0 /\ wait # "none"
        /\ cur' = 0 /\ UNCHANGED event
     \/ /\ last.ev = 0 /\ wait # "fired" /\ Unused # {}
        /\ cur' = New /\ event' = Make("GENERIC", 0)
  /\ UNCHANGED <<queue, waiter, last, timers, g, buf, prog>>

\* What getEventParamStr and getEventParamBytes read: a request's payload stays
\* in the CoAP thread's buffer, a response's is the event's own.
Payload(e) == IF Kind(e) = "COAP_REQ" THEN buf ELSE event[e].pdu

\* the request the program is answering
InHand == IF Kind(cur) = "COAP_REQ" THEN event[cur].pdu ELSE 0

\* msg_reply to the sender of last_msg.  What RIOT does with a sender whose
\* message still waits for room is not followed.
CanReply == last.from = "gcoap" /\ g.st = "reply"

\* replyEventGeneric; the event of a reply that fails is not freed
ReplyEvent ==
  /\ Calls("reply") /\ Unused # {} /\ waiter = <<>>
  /\ event' = Make("COAP_REPLY", InHand)
  /\ g' = IF CanReply THEN [st |-> "answered", ev |-> New] ELSE g
  /\ handled' = TRUE
  /\ UNCHANGED <<queue, waiter, last, cur, pc, wait, timers, buf, prog>>

\* setTimeoutGeneric
SetTimeout ==
  /\ Calls("setTimeout") /\ Unused # {}
  /\ prog = "any" => CanMake
  /\ event' = Make("TIMER", 0) /\ timers' = timers \cup {New}
  /\ handled' = TRUE
  /\ UNCHANGED <<queue, waiter, last, cur, pc, wait, g, buf, prog>>

\* The program returns, and run_uj; or it fails, and the thread ends.
End ==
  /\ Calls("end")
  /\ pc' \in IF prog = "any" THEN {"end", "dead"} ELSE {"end"}
  /\ UNCHANGED <<event, queue, waiter, last, cur, wait, handled, timers, g, buf, prog>>

\* pm_reboot
Reboot ==
  /\ pc = "end"
  /\ event' = [e \in Event |-> Free] /\ queue' = <<>> /\ waiter' = <<>>
  /\ last' = NoMessage /\ cur' = 0 /\ pc' = "boot" /\ wait' = "none" /\ handled' = TRUE
  /\ timers' = {} /\ g' = Idle /\ buf' = 0
  /\ UNCHANGED prog

Uj ==
  \/ InitEvents
  \/ \E t \in {"zero", "timed", "forever"} : WaitEvent(t)
  \/ WaitReturns
  \/ ReplyEvent
  \/ SetTimeout
  \/ End
  \/ Reboot

Gcoap == HandleRequest \/ Respond \/ HandleResponse \/ PostUpdateReady

Interrupt == GpioInterrupt \/ (\E e \in timers : TimerFires(e)) \/ TimeoutFires

Next == Uj \/ Gcoap \/ Interrupt

Spec == Init /\ [][Next]_vars

\* The uj thread and the CoAP thread run when they can: no thread above them
\* runs forever.  The timeout of a wait comes.  Other input need not come.
FairSpec == Spec /\ WF_vars(Uj) /\ WF_vars(Respond) /\ WF_vars(TimeoutFires)

-----------------------------------------------------------------------------
(* Properties. *)

\* Types; a sender waits for room only while the queue is full.
TypeOK ==
  /\ event \in [Event -> {Free} \cup [kind : Kinds, pdu : 0..MaxReq]]
  /\ \A m \in Range(queue \o waiter) :
        m.ev \in 0..NE /\ m.from \in {"isr", "gcoap"}
  /\ Len(queue) <= QueueSize
  /\ waiter # <<>> => Len(waiter) = 1 /\ Len(queue) = QueueSize /\ g.st \in {"send", "reply"}
  /\ g.st = "send" => waiter # <<>>
  /\ cur \in 0..NE /\ timers \subseteq Event /\ buf \in 0..MaxReq
  /\ pc \in {"boot", "run", "recv", "got", "end", "dead"}
  /\ pc = "recv" => queue = <<>>
  /\ g.st \in {"idle", "reply", "send", "answered"} /\ g.ev \in 0..NE

\* Where pointers to events are that somebody will follow: messages, timers, the
\* program, the CoAP thread, and the uj thread between reception and wait_event.
Messages == queue \o waiter
Posted == {Messages[n].ev : n \in DOMAIN Messages}
Received == IF pc = "got" THEN last.ev ELSE 0
Places == <<Posted, timers, {cur}, {g.ev}, {Received}>>
Owned == (UNION Range(Places)) \ {0}

\* Whatever the program does, an event that somebody will read or free is
\* allocated, and only one of queue, sender, program, CoAP thread and timer will:
\* nothing is freed twice or used after it was freed.
OwnedOnce ==
  /\ \A m, n \in DOMAIN Messages :
        Messages[m].ev = Messages[n].ev => m = n \/ Messages[m].ev = 0
  /\ \A i, j \in DOMAIN Places : i # j => Places[i] \cap Places[j] \subseteq {0}
  /\ \A e \in Owned : event[e] # Free

\* While the CoAP thread waits for a reply of the default program, its request is
\* in exactly one place on its way to the program, or in the program's hands and
\* unanswered, and a payload the program reads is that request's.
RequestHeld ==
  prog = "default" /\ g.st = "reply" =>
    /\ \E e \in Owned :
          /\ event[e] = Ev("COAP_REQ", buf)
          /\ e = cur => ~handled /\ last.from = "gcoap" /\ Payload(cur) = event[cur].pdu
    /\ Cardinality({e \in Event : event[e].kind = "COAP_REQ" /\ (e = cur => ~handled)}) = 1

\* A reply that the CoAP thread gets from the default program was made for the
\* request it waited for, not for one that it gave up or answered before.
ReplyMatches ==
  prog = "default" /\ g.st = "answered" => event[g.ev] = Ev("COAP_REPLY", buf)

\* Both: each request of a board that runs the default program gets its own reply.
RequestTracked == RequestHeld /\ ReplyMatches

Leaked == {e \in Event : event[e] # Free} \ Owned

\* An event is lost, allocated and forgotten, only when an interrupt finds the
\* queue full, when a reply has no receiver, or when there is no uj thread;
\* under the default program only the first can happen while it runs.
OnlyKnownLeaks ==
  [][\A e \in Leaked' \ Leaked :
        \/ event'[e].kind \in {"GPIO", "TIMER"} /\ (Full \/ ~Present)
        \/ event'[e].kind = "UPD_RDY" /\ ~Present
        \/ event'[e].kind = "COAP_REPLY" /\ prog = "any" /\ ~CanReply]_vars

\* Under the default program the CoAP thread does not stay blocked: every request
\* is answered and every event it posts gets through, or the board reboots.
CoapThreadReturns == (prog = "default" /\ g.st \in {"reply", "send"}) ~> (g.st = "idle")
=============================================================================
