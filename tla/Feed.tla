--------------------------------- MODULE Feed ---------------------------------
(* What the live event feed promises a board.  The log grows one event at a    *)
(* time.  As long as nothing disturbs the stream the board renders the log     *)
(* itself, from its first event on, with none left out and none twice, at      *)
(* whatever pace it likes.  After a disturbance it may miss events for good,   *)
(* but what it renders still only goes forward.                                *)
EXTENDS Naturals, Sequences

VARIABLES
  head,       \* events 1..head are committed
  shown,      \* the events the board has rendered, in the order it did
  calm        \* nothing has disturbed the stream yet

Init == head = 0 /\ shown = <<>> /\ calm = TRUE

Log == head' = head + 1 /\ UNCHANGED shown

\* The log up to some event the board had not reached.
Show ==
  /\ calm' /\ UNCHANGED head
  /\ \E n \in Len(shown) + 1 .. head : shown' = [i \in 1..n |-> i]

\* Later events, some of those before them perhaps skipped.
Skip ==
  /\ ~calm' /\ UNCHANGED head
  /\ Len(shown) <= Len(shown') /\ \A i \in 1..Len(shown) : shown'[i] = shown[i]
  /\ \A i, j \in 1..Len(shown') : i < j => shown'[i] < shown'[j]
  /\ \A i \in 1..Len(shown') : shown'[i] \in 1..head

Next == (calm' => calm) /\ (Log \/ Show \/ Skip)

Spec == Init /\ [][Next]_<<head, shown, calm>>
=============================================================================
