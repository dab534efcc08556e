----------------------------- MODULE EventStream -----------------------------
(* From the event log to a board: Log.Append with its fan-out to subscribers  *)
(* (internal/event/log.go) and the server-sent-events handler that replays    *)
(* the backlog and then forwards the subscription (internal/daemon/server.go).*)
(* The rows of the log are the numbers 1..head.  A writer commits under the   *)
(* log's lock and hands the event to the subscribers after it has let go of   *)
(* the lock.  Other processes append to the same file; their events reach the *)
(* log and no subscriber.                                                    *)
EXTENDS Integers, Sequences

CONSTANTS
  Writers,    \* goroutines of the daemon that append
  Foreign,    \* whether other processes append as well
  Capacity,   \* the subscription's buffer
  Page,       \* the most events one replay reads
  ReadFails,  \* whether reading the backlog may fail
  MaxHead     \* bound: events in the log

ASSUME SizesAssumption == Capacity \in Nat /\ Page \in Nat /\ MaxHead \in Nat
ASSUME SwitchesAssumption == Foreign \in BOOLEAN /\ ReadFails \in BOOLEAN

VARIABLES
  head,       \* the last sequence number committed
  pending,    \* the event each writer has committed and not yet handed out, or 0
  feed,       \* the handler: off, subscribed (backlog unread), live
  buffer,     \* the subscription's channel
  sent,       \* the handler's high-water mark
  seen,       \* what the board has received, across reconnects
  calm        \* ghost: nothing has happened that may cost the board an event

vars == <<head, pending, feed, buffer, sent, seen, calm>>

-----------------------------------------------------------------------------
Init ==
  /\ head = 0
  /\ pending = [w \in Writers |-> 0]
  /\ feed = "off"
  /\ buffer = <<>>
  /\ sent = 0
  /\ seen = <<>>
  /\ calm = TRUE

\* INSERT and LastInsertId under the log's lock.
Commit(w) ==
  /\ head < MaxHead
  /\ pending[w] = 0
  /\ head' = head + 1
  /\ pending' = [pending EXCEPT ![w] = head + 1]
  /\ UNCHANGED <<feed, buffer, sent, seen, calm>>

\* An append by another process: nothing of this process hears of it, and a
\* connection past its replay never will.
CommitElsewhere ==
  /\ Foreign
  /\ head < MaxHead
  /\ head' = head + 1
  /\ calm' = (calm /\ feed # "live")
  /\ UNCHANGED <<pending, feed, buffer, sent, seen>>

\* fanout: a full buffer drops the event rather than block the writer.
Offered(b, e) == IF feed # "off" /\ Len(b) < Capacity THEN Append(b, e) ELSE b

\* Whether a subscriber gets the events of this process in their order.
InTurn(w) == feed = "off" \/ (Len(buffer) < Capacity /\ \A v \in Writers : pending[v] \notin 1..pending[w] - 1)

Fanout(w) ==
  /\ pending[w] # 0
  /\ buffer' = Offered(buffer, pending[w])
  /\ pending' = [pending EXCEPT ![w] = 0]
  /\ calm' = (calm /\ InTurn(w))
  /\ UNCHANGED <<head, feed, sent, seen>>

-----------------------------------------------------------------------------
\* The id of the last event received: what the browser sends as Last-Event-ID.
LastSeen == IF seen = <<>> THEN 0 ELSE seen[Len(seen)]

Subscribe ==
  /\ feed = "off"
  /\ feed' = "subscribed"
  /\ buffer' = <<>>
  /\ sent' = LastSeen
  /\ UNCHANGED <<head, pending, seen, calm>>

\* Log.Since(seq, Page): the next events, at most Page of them.
Since(seq) ==
  LET n == IF head - seq < Page THEN head - seq ELSE Page
  IN  [i \in 1..n |-> seq + i]

Replay ==
  /\ feed = "subscribed"
  /\ feed' = "live"
  /\ seen' = seen \o Since(sent)
  /\ sent' = sent + Len(Since(sent))
  /\ calm' = (calm /\ head - sent <= Page)
  /\ UNCHANGED <<head, pending, buffer>>

\* The backlog cannot be read: the handler goes live without it.
ReplayFails ==
  /\ ReadFails
  /\ feed = "subscribed"
  /\ feed' = "live"
  /\ calm' = (calm /\ sent = head)
  /\ UNCHANGED <<head, pending, buffer, sent, seen>>

\* Mutants: the backlog is not remembered when live events arrive; the handler
\* acknowledges an event without writing it.
NewForgetful(e) == e > 0
NewLate(e) == e > sent + 1

\* Whether an event from the subscription is still to be written.
New(e) == e > sent

Deliver ==
  /\ feed = "live"
  /\ buffer # <<>>
  /\ buffer' = Tail(buffer)
  /\ IF New(Head(buffer))
       THEN seen' = Append(seen, Head(buffer)) /\ sent' = Head(buffer)
       ELSE UNCHANGED <<seen, sent>>
  /\ UNCHANGED <<head, pending, feed, calm>>

\* The request ends: the connection drops, or the phone sleeps.
Disconnect ==
  /\ feed # "off"
  /\ feed' = "off"
  /\ buffer' = <<>>
  /\ UNCHANGED <<head, pending, sent, seen, calm>>

\* The daemon is killed: events committed and not handed out stay in the log.
Crash ==
  /\ feed' = "off"
  /\ buffer' = <<>>
  /\ pending' = [w \in Writers |-> 0]
  /\ UNCHANGED <<head, sent, seen, calm>>

Next ==
  \/ \E w \in Writers : Commit(w) \/ Fanout(w)
  \/ CommitElsewhere
  \/ Subscribe \/ Replay \/ ReplayFails \/ Deliver \/ Disconnect \/ Crash

Spec == Init /\ [][Next]_vars

\* Goroutines run, the browser reconnects, and connections do not always drop
\* before the backlog is read.
FairSpec ==
  /\ Spec
  /\ \A w \in Writers : WF_vars(Fanout(w))
  /\ WF_vars(Subscribe) /\ SF_vars(Replay) /\ WF_vars(Deliver)

-----------------------------------------------------------------------------
TypeOK ==
  /\ head \in Nat
  /\ pending \in [Writers -> Nat]
  /\ feed \in {"off", "subscribed", "live"}
  /\ buffer \in Seq(Nat) /\ Len(buffer) <= Capacity
  /\ sent \in Nat
  /\ seen \in Seq(Nat)
  /\ calm \in BOOLEAN

\* A board never renders an event twice or out of order, whatever the order the
\* fan-outs ran in and however often it reconnected (server.go:1040-1043).
InOrder == \A i, j \in 1..Len(seen) : i < j => seen[i] < seen[j]

\* Nothing is shown that a crash could undo (log.go:109-111).
OnlyCommitted == \A i \in 1..Len(seen) : seen[i] \in 1..head

\* The stream implements the feed it is meant to be (server.go:1058-1060: "a gap
\* is not" fine): until two appends are handed out in the wrong order, a buffer
\* overflows, a live connection misses another process's event or a replay is
\* short or fails, what the board has rendered is the log, from its first event
\* on, over drops, reconnects and crashes.
F == INSTANCE Feed WITH shown <- seen
ImplementsFeed == F!Spec

\* Every committed event reaches the board, if none of these happens.
EventuallySeen ==
  \A n \in 1..MaxHead : (head >= n) ~> ((\E i \in 1..Len(seen) : seen[i] = n) \/ ~calm)
=============================================================================
