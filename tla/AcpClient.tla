------------------------------ MODULE AcpClient ------------------------------
(* One connection to an agent process (internal/acp/client.go).  Callers park *)
(* on a channel of their own, filed under the id of their request; one read   *)
(* loop owns the agent's output and hands replies over, queues notifications  *)
(* and starts a goroutine for every request of the agent.  When the output    *)
(* ends or makes no sense, the loop wakes whoever is parked.                  *)
EXTENDS Integers, Sequences, FiniteSets

CONSTANTS
  Callers,    \* goroutines that make calls, one at a time each
  Requests,   \* requests the agent makes
  Capacity,   \* the notification queue (256)
  MaxCalls,   \* bound: calls made
  MaxInbox,   \* bound: messages written and not yet read
  None        \* an empty reply channel

ASSUME BoundsAssumption ==
  Capacity \in Nat /\ MaxCalls \in Nat /\ MaxInbox \in Nat

VARIABLES
  proc,       \* the process: running or exited
  out,        \* its output is open, in its own hands or a grandchild's
  reaping,    \* somebody has started the one Wait
  reaped,     \* Wait has returned
  inbox,      \* what the agent wrote and the loop has not read
  asked,      \* the requests the agent has been sent
  reader,     \* the read loop
  wake,       \* the channels fail has still to write to
  made,       \* calls made so far; each has a channel of its own
  pending,    \* request ids and the channels waiting under them
  chan,       \* the channels
  call,       \* each caller's call
  notify,     \* notifications queued
  served,     \* the agent's requests
  closed      \* no more calls are taken

vars == <<proc, out, reaping, reaped, inbox, asked, reader, wake,
          made, pending, chan, call, notify, served, closed>>

agent == <<proc, out, reaping, reaped, inbox, asked>>
loop == <<reader, wake, notify, served, closed>>
calls == <<made, pending, call>>

-----------------------------------------------------------------------------
Ids == 1..MaxCalls
Entry == [id : Ids, ch : Ids]
Reply == [kind : {"reply"}, of : Ids]
Failure == [kind |-> "error", of |-> 1]
\* An empty channel is not one with a message.
ASSUME NoneAssumption == None \notin Reply \cup {Failure}

Message == [kind : {"reply"}, id : Ids, of : Ids]
             \cup [kind : {"update", "garbage"}] \cup [kind : {"request"}, req : Requests]

\* The call a caller is in: its id and its channel.
Idle == [step |-> "idle", id |-> 0, ch |-> 0]
Reading == [step |-> "reading", ch |-> 0, of |-> 0]

Init ==
  /\ proc = "running" /\ out = TRUE /\ reaping = FALSE /\ reaped = FALSE
  /\ inbox = <<>> /\ asked = {}
  /\ reader = Reading /\ wake = {} /\ notify = 0 /\ closed = FALSE
  /\ served = [r \in Requests |-> "none"]
  /\ made = 0 /\ pending = {}
  /\ chan = [k \in Ids |-> None]
  /\ call = [c \in Callers |-> Idle]

-----------------------------------------------------------------------------
(* Call.                                                                     *)

\* Mutant: ids are the lowest that is free.
LowestId == CHOOSE i \in Ids : /\ \A e \in pending : e.id # i
                               /\ \A j \in 1..i-1 : \E e \in pending : e.id = j

\* nextID only goes up.
NextId == made + 1

\* Mutant: a closed connection is not noticed.
RegisterBlindly(c) ==
  /\ call[c].step = "idle"
  /\ made < MaxCalls
  /\ made' = made + 1
  /\ pending' = pending \cup {[id |-> NextId, ch |-> made + 1]}
  /\ call' = [call EXCEPT ![c] = [step |-> "registered", id |-> NextId, ch |-> made + 1]]
  /\ UNCHANGED <<agent, loop, chan>>

\* A call on a closed connection is refused at once and changes nothing.
Register(c) ==
  /\ call[c].step = "idle"
  /\ ~closed
  /\ made < MaxCalls
  /\ made' = made + 1
  /\ pending' = pending \cup {[id |-> NextId, ch |-> made + 1]}
  /\ call' = [call EXCEPT ![c] = [step |-> "registered", id |-> NextId, ch |-> made + 1]]
  /\ UNCHANGED <<agent, loop, chan>>

Send(c) ==
  /\ call[c].step = "registered"
  /\ proc = "running"
  /\ asked' = asked \cup {[id |-> call[c].id, ch |-> call[c].ch]}
  /\ call' = [call EXCEPT ![c].step = "waiting"]
  /\ UNCHANGED <<proc, out, reaping, reaped, inbox, loop, made, pending, chan>>

\* The entry of a call that stops waiting is taken out, if it is still there.
Forget(c) ==
  /\ pending' = {e \in pending : e.id # call[c].id}
  /\ call' = [call EXCEPT ![c] = Idle]
  /\ UNCHANGED <<agent, loop, made, chan>>

SendFails(c) == call[c].step = "registered" /\ proc = "exited" /\ Forget(c)

Cancel(c) == call[c].step = "waiting" /\ Forget(c)

Return(c) ==
  /\ call[c].step = "waiting"
  /\ chan[call[c].ch] # None
  /\ call' = [call EXCEPT ![c] = Idle]
  /\ chan' = [chan EXCEPT ![call[c].ch] = None]
  /\ UNCHANGED <<agent, loop, made, pending>>

-----------------------------------------------------------------------------
(* The agent.  It may answer any request it was sent, late or twice, and      *)
(* write anything else between; its own requests have ids of their own.      *)
Written(m) ==
  /\ proc = "running" /\ out
  /\ Len(inbox) < MaxInbox
  /\ inbox' = Append(inbox, m)
  /\ UNCHANGED <<proc, out, reaping, reaped, asked, loop, calls, chan>>

AgentWrites ==
  \/ \E e \in asked : Written([kind |-> "reply", id |-> e.id, of |-> e.ch])
  \/ \E kind \in {"update", "garbage"} : Written([kind |-> kind])
  \/ \E r \in Requests :
       /\ served[r] = "none" /\ \A i \in 1..Len(inbox) : inbox[i] # [kind |-> "request", req |-> r]
       /\ Written([kind |-> "request", req |-> r])

AgentExits ==
  /\ proc = "running"
  /\ proc' = "exited"
  /\ UNCHANGED <<out, reaping, reaped, inbox, asked, loop, calls, chan>>

\* The last holder of the output's far end lets go, before the exit or after.
OutputCloses ==
  /\ out
  /\ out' = FALSE
  /\ UNCHANGED <<proc, reaping, reaped, inbox, asked, loop, calls, chan>>

Reap ==
  /\ reaping /\ ~reaped /\ proc = "exited"
  /\ reaped' = TRUE
  /\ UNCHANGED <<proc, out, reaping, inbox, asked, loop, calls, chan>>

-----------------------------------------------------------------------------
(* The read loop.                                                            *)
Takes(kind) ==
  /\ reader.step = "reading" /\ inbox # <<>> /\ Head(inbox).kind = kind
  /\ inbox' = Tail(inbox)
  /\ UNCHANGED <<proc, out, reaping, reaped, asked>>

\* What is left under the other ids.
Without(id) == {e \in pending : e.id # id}

\* A reply nobody waits for is dropped.
ReadReply ==
  /\ Takes("reply")
  /\ pending' = Without(Head(inbox).id)
  /\ \/ \E e \in pending :
          e.id = Head(inbox).id
            /\ reader' = [step |-> "handing", ch |-> e.ch, of |-> Head(inbox).of]
     \/ (\A e \in pending : e.id # Head(inbox).id) /\ UNCHANGED reader
  /\ UNCHANGED <<wake, notify, served, closed, made, call, chan>>

\* The channel holds one message; the loop would block on a second.
Hand ==
  /\ reader.step = "handing"
  /\ chan[reader.ch] = None
  /\ chan' = [chan EXCEPT ![reader.ch] = [kind |-> "reply", of |-> reader.of]]
  /\ reader' = Reading
  /\ UNCHANGED <<agent, wake, notify, served, closed, calls>>

ReadUpdate ==
  /\ Takes("update")
  /\ IF notify < Capacity
       THEN notify' = notify + 1 /\ UNCHANGED reader
       ELSE reader' = [Reading EXCEPT !.step = "failing"] /\ UNCHANGED notify
  /\ UNCHANGED <<wake, served, closed, calls, chan>>

\* A goroutine of its own; or refused at once, when no handler is installed,
\* which it is before the first call.
ReadRequest ==
  /\ Takes("request")
  /\ served' \in {[served EXCEPT ![Head(inbox).req] = how] :
                    how \in {"running"} \cup IF made = 0 THEN {"answered"} ELSE {}}
  /\ UNCHANGED <<reader, wake, notify, closed, calls, chan>>

ReadGarbage ==
  /\ Takes("garbage")
  /\ reader' = [Reading EXCEPT !.step = "failing"]
  /\ UNCHANGED <<wake, notify, served, closed, calls, chan>>

\* The end of the output.  awaitExit starts Wait and goes on when it returns or
\* at its deadline, whichever is first.
ReadEnd ==
  /\ reader.step = "reading" /\ inbox = <<>> /\ ~out
  /\ reader' = [Reading EXCEPT !.step = "failing"]
  /\ reaping' = TRUE
  /\ UNCHANGED <<proc, out, reaped, inbox, asked, wake, notify, served, closed, calls, chan>>

\* Wait closes our end of the output, whatever is still in it.
ReadCut ==
  /\ reader.step = "reading" /\ reaped
  /\ reader' = [Reading EXCEPT !.step = "failing"]
  /\ UNCHANGED <<agent, wake, notify, served, closed, calls, chan>>

\* fail: close the connection and take what is filed, under one lock.
Fail ==
  /\ reader.step = "failing"
  /\ reader' = [Reading EXCEPT !.step = "waking"]
  /\ wake' = {e.ch : e \in pending}
  /\ pending' = {}
  /\ closed' = TRUE
  /\ UNCHANGED <<agent, notify, served, made, call, chan>>

Wake(k) ==
  /\ reader.step = "waking" /\ k \in wake
  /\ chan[k] = None
  /\ chan' = [chan EXCEPT ![k] = Failure]
  /\ wake' = wake \ {k}
  /\ UNCHANGED <<agent, reader, notify, served, closed, calls>>

\* The notification channel and Done are closed.
End ==
  /\ reader.step = "waking" /\ wake = {}
  /\ reader' = [Reading EXCEPT !.step = "ended"]
  /\ UNCHANGED <<agent, wake, notify, served, closed, calls, chan>>

-----------------------------------------------------------------------------
\* The session takes a notification.
Drain ==
  /\ notify > 0
  /\ notify' = notify - 1
  /\ UNCHANGED <<agent, reader, wake, served, closed, calls, chan>>

\* A handler answers, whether or not the agent is there to hear it.
Respond(r) ==
  /\ served[r] = "running"
  /\ served' = [served EXCEPT ![r] = "answered"]
  /\ UNCHANGED <<agent, reader, wake, notify, closed, calls, chan>>

\* Close: kill and Wait.
Close ==
  /\ proc' = "exited" /\ reaping' = TRUE
  /\ <<proc, reaping>> # <<"exited", TRUE>>
  /\ UNCHANGED <<out, reaped, inbox, asked, loop, calls, chan>>

Read ==
  \/ ReadReply \/ Hand \/ ReadUpdate \/ ReadRequest \/ ReadGarbage
  \/ ReadEnd \/ ReadCut \/ Fail \/ (\E k \in wake : Wake(k)) \/ End

Calling(c) == Send(c) \/ SendFails(c) \/ Return(c)

Next ==
  \/ \E c \in Callers : Register(c) \/ Calling(c) \/ Cancel(c)
  \/ AgentWrites \/ AgentExits \/ OutputCloses \/ Reap
  \/ Read
  \/ Drain \/ (\E r \in Requests : Respond(r)) \/ Close

Spec == Init /\ [][Next]_vars

\* The loop and the callers run.  Nothing is asked of the agent, nor of whoever
\* drains the notifications or answers the agent's requests.
FairSpec == Spec /\ WF_vars(Read) /\ \A c \in Callers : WF_vars(Calling(c))

-----------------------------------------------------------------------------
TypeOK ==
  /\ proc \in {"running", "exited"} /\ out \in BOOLEAN
  /\ reaping \in BOOLEAN /\ reaped \in BOOLEAN /\ closed \in BOOLEAN
  /\ inbox \in Seq(Message) /\ asked \subseteq Entry
  /\ reader \in [step : {"reading", "handing", "failing", "waking", "ended"},
                 ch : 0..MaxCalls, of : 0..MaxCalls]
  /\ wake \subseteq Ids /\ pending \subseteq Entry /\ made \in 0..MaxCalls
  /\ chan \in [Ids -> Reply \cup {Failure, None}]
  /\ call \in [Callers -> [step : {"idle", "registered", "waiting"}, id : 0..MaxCalls, ch : 0..MaxCalls]]
  /\ notify \in 0..Capacity
  /\ served \in [Requests -> {"none", "running", "answered"}]

\* Whoever waits will be told: its channel is filed on an open connection, is in
\* the loop's hands, is on fail's list, or holds the answer (client.go:374-389).
NoOrphan ==
  \A c \in Callers : call[c].step = "waiting" =>
    LET k == call[c].ch
    IN  \/ ~closed /\ \E e \in pending : e.ch = k
        \/ reader.step = "handing" /\ reader.ch = k
        \/ k \in wake
        \/ chan[k] # None

\* A call gets the reply that was written for it, and none meant for an earlier
\* call that gave up (client.go:398-404).
ReplyIsOwn ==
  \A c \in Callers :
    LET k == call[c].ch
    IN  call[c].step = "waiting" /\ chan[k] # None /\ chan[k].kind = "reply" => chan[k].of = k

\* A dead connection hangs nobody (client.go:374-375).
EndWakesAll ==
  \A c \in Callers : (closed /\ call[c].step # "idle") ~> call[c].step = "idle"
=============================================================================
