------------------------------ MODULE EventLogProofs ------------------------------
(* The two ends of the event log.                                             *)
(*                                                                            *)
(* EventStream for any number of writers, any buffer and replay sizes: what a *)
(* board renders is in order, without repetition, and only committed events,  *)
(* and, until something disturbs it, exactly the log.                         *)
(* Attention for any sessions, hooks and durations and any finite number of   *)
(* signals at work: what a silence rests on, what a finished session shows.   *)
EXTENDS EventStream, Attention, SequenceTheorems, WellFoundedInduction, FiniteSetTheorems, TLAPS

-----------------------------------------------------------------------------
(* EventStream: the board's copy of the log.                                  *)

\* A live handler's mark is at or past everything the board has; what waits in
\* the buffer or in a writer's hands is in the log.
Marks ==
  /\ sent <= head
  /\ \A w \in Writers : pending[w] <= head
  /\ \A i \in 1..Len(buffer) : buffer[i] \in 1..head
  /\ feed # "off" => \A i \in 1..Len(seen) : seen[i] <= sent

IInv == TypeOK /\ OnlyCommitted /\ InOrder /\ Marks

\* A replay reads rows that exist, the oldest first, from just past the mark.
LEMMA SinceFacts ==
  ASSUME TypeOK, sent <= head
  PROVE  /\ Since(sent) \in Seq(Nat)
         /\ sent + Len(Since(sent)) <= head
         /\ \A i \in 1..Len(Since(sent)) : Since(sent)[i] = sent + i
<1> DEFINE n == IF head - sent < Page THEN head - sent ELSE Page
<1>1. n \in Nat /\ sent + n <= head
  BY SizesAssumption DEF TypeOK
<1>2. Since(sent) = [i \in 1..n |-> sent + i]
  BY DEF Since
<1>3. Since(sent) \in Seq(Nat) /\ Len(Since(sent)) = n
  <2>1. \A i \in 1..n : sent + i \in Nat
    BY <1>1 DEF TypeOK
  <2> QED BY <2>1, <1>1, <1>2
<1> QED BY <1>1, <1>2, <1>3

\* Writing one event past the mark keeps the board in order.
LEMMA AppendInOrder ==
  ASSUME NEW e \in Nat, TypeOK, InOrder,
         \A i \in 1..Len(seen) : seen[i] < e, seen' = Append(seen, e)
  PROVE  InOrder' /\ seen' \in Seq(Nat)
<1>1. Len(seen') = Len(seen) + 1 /\ seen'[Len(seen) + 1] = e /\ seen' \in Seq(Nat)
  BY DEF TypeOK
<1>2. \A i \in 1..Len(seen) : seen'[i] = seen[i]
  BY DEF TypeOK
<1>3. ASSUME NEW i \in 1..Len(seen'), NEW j \in 1..Len(seen'), i < j
      PROVE  seen'[i] < seen'[j]
  <2>1. i \in 1..Len(seen)
    BY <1>1, <1>3 DEF TypeOK
  <2>2. CASE j \in 1..Len(seen)
    BY <1>2, <2>1, <2>2, <1>3 DEF InOrder
  <2>3. CASE j = Len(seen) + 1
    BY <1>1, <1>2, <2>1, <2>3
  <2> QED BY <1>1, <2>2, <2>3 DEF TypeOK
<1> QED BY <1>1, <1>3 DEF InOrder

LEMMA InitInv == Init => IInv
BY SizesAssumption DEF Init, IInv, TypeOK, OnlyCommitted, InOrder, Marks

\* The replay, the one step that renders several events.
LEMMA ReplayInv ==
  ASSUME IInv, Replay
  PROVE  IInv'
<1> DEFINE back == Since(sent)
<1>1. /\ back \in Seq(Nat)
      /\ sent + Len(back) <= head
      /\ \A i \in 1..Len(back) : back[i] = sent + i
  BY SinceFacts DEF IInv, Marks
<1> DEFINE k == Len(seen)
<1>2. k \in Nat /\ Len(back) \in Nat /\ sent \in Nat /\ seen \in Seq(Nat)
  BY <1>1 DEF IInv, TypeOK
<1>3. \A i \in 1..k : seen[i] <= sent /\ seen[i] \in 1..head
  BY DEF IInv, Marks, OnlyCommitted, Replay
<1>4. seen' = seen \o back /\ sent' = sent + Len(back)
  BY DEF Replay
<1> HIDE DEF back
<1>5. seen' \in Seq(Nat) /\ Len(seen') = k + Len(back)
  BY <1>1, <1>2, <1>4
<1>6. /\ \A i \in 1..k : seen'[i] = seen[i]
      /\ \A i \in 1..Len(seen') : i > k => seen'[i] = sent + (i - k)
  BY <1>1, <1>2, <1>4, <1>5
<1>7. TypeOK'
  BY <1>2, <1>4, <1>5 DEF IInv, TypeOK, Replay
<1>8. OnlyCommitted' /\ (\A i \in 1..Len(seen') : seen'[i] <= sent')
  <2> SUFFICES ASSUME NEW i \in 1..Len(seen')
               PROVE  seen'[i] \in 1..head /\ seen'[i] <= sent'
    BY DEF OnlyCommitted, Replay
  <2> head \in Nat
    BY DEF IInv, TypeOK
  <2>1. CASE i <= k
    BY <2>1, <1>1, <1>2, <1>3, <1>4, <1>6
  <2>2. CASE i > k
    BY <2>2, <1>1, <1>2, <1>4, <1>5, <1>6
  <2> QED BY <2>1, <2>2, <1>2
<1>9. InOrder'
  <2> SUFFICES ASSUME NEW i \in 1..Len(seen'), NEW j \in 1..Len(seen'), i < j
               PROVE  seen'[i] < seen'[j]
    BY DEF InOrder
  <2>1. CASE j <= k
    BY <2>1, <1>2, <1>6 DEF IInv, InOrder
  <2>2. CASE i <= k /\ j > k
    <3>1. seen'[i] = seen[i] /\ seen[i] <= sent /\ seen[i] \in 1..head
      BY <2>2, <1>2, <1>3, <1>6
    <3>2. seen'[j] = sent + (j - k)
      BY <2>2, <1>6
    <3> QED BY <2>2, <3>1, <3>2, <1>2
  <2>3. CASE i > k
    <3>1. seen'[i] = sent + (i - k) /\ seen'[j] = sent + (j - k)
      BY <2>3, <1>2, <1>5, <1>6
    <3> QED BY <2>3, <3>1, <1>2
  <2> QED BY <2>1, <2>2, <2>3, <1>2
<1>10. Marks'
  <2>1. /\ sent' <= head'
        /\ \A w \in Writers : pending'[w] <= head'
        /\ \A i \in 1..Len(buffer') : buffer'[i] \in 1..head'
    BY <1>1, <1>4 DEF IInv, Marks, Replay
  <2> QED BY <2>1, <1>8 DEF Marks
<1> QED BY <1>7, <1>8, <1>9, <1>10 DEF IInv

LEMMA StepInv == IInv /\ [Next]_vars => IInv'
<1> SUFFICES ASSUME IInv, [Next]_vars PROVE IInv'
  OBVIOUS
<1> USE SizesAssumption
<1>1. ASSUME NEW w \in Writers, Commit(w)
      PROVE  IInv'
  <2>1. TypeOK' /\ OnlyCommitted' /\ InOrder'
    BY <1>1 DEF IInv, TypeOK, OnlyCommitted, InOrder, Commit
  <2>2. Marks'
    BY <1>1 DEF IInv, TypeOK, Marks, Commit
  <2> QED BY <2>1, <2>2 DEF IInv
<1>2. ASSUME NEW w \in Writers, Fanout(w)
      PROVE  IInv'
  <2>1. pending[w] \in 1..head
    BY <1>2 DEF IInv, TypeOK, Marks, Fanout
  <2>2. OnlyCommitted' /\ InOrder'
    BY <1>2 DEF IInv, OnlyCommitted, InOrder, Fanout
  <2>3. CASE feed # "off" /\ Len(buffer) < Capacity
    <3>1. buffer' = Append(buffer, pending[w])
      BY <1>2, <2>3 DEF Fanout, Offered
    <3>2. TypeOK'
      BY <1>2, <2>1, <2>3, <3>1 DEF IInv, TypeOK, Fanout
    <3>3. \A i \in 1..Len(buffer') : buffer'[i] \in 1..head
      BY <2>1, <3>1 DEF IInv, TypeOK, Marks
    <3>4. Marks'
      BY <1>2, <3>3 DEF IInv, TypeOK, Marks, Fanout
    <3> QED BY <2>2, <3>2, <3>4 DEF IInv
  <2>4. CASE ~(feed # "off" /\ Len(buffer) < Capacity)
    <3>1. buffer' = buffer
      BY <1>2, <2>4 DEF Fanout, Offered
    <3>2. TypeOK' /\ Marks'
      BY <1>2, <3>1 DEF IInv, TypeOK, Marks, Fanout
    <3> QED BY <2>2, <3>2 DEF IInv
  <2> QED BY <2>3, <2>4
<1>3. ASSUME CommitElsewhere
      PROVE  IInv'
  <2>1. TypeOK' /\ OnlyCommitted' /\ InOrder'
    BY <1>3 DEF IInv, TypeOK, OnlyCommitted, InOrder, CommitElsewhere
  <2>2. Marks'
    BY <1>3 DEF IInv, TypeOK, Marks, CommitElsewhere
  <2> QED BY <2>1, <2>2 DEF IInv
<1>4. ASSUME Subscribe
      PROVE  IInv'
  <2>1. LastSeen \in Nat /\ LastSeen <= head /\ \A i \in 1..Len(seen) : seen[i] <= LastSeen
    <3>1. CASE seen = <<>>
      BY <3>1 DEF LastSeen, IInv, TypeOK
    <3>2. CASE seen # <<>>
      <4>1. Len(seen) \in 1..Len(seen) /\ LastSeen = seen[Len(seen)]
        BY <3>2 DEF LastSeen, IInv, TypeOK
      <4>2. \A i \in 1..Len(seen) : i = Len(seen) \/ seen[i] < seen[Len(seen)]
        BY <4>1 DEF IInv, TypeOK, InOrder
      <4> QED BY <4>1, <4>2 DEF IInv, TypeOK, OnlyCommitted
    <3> QED BY <3>1, <3>2
  <2>2. TypeOK'
    BY <1>4, <2>1 DEF IInv, TypeOK, Subscribe
  <2>3. OnlyCommitted' /\ InOrder'
    BY <1>4 DEF IInv, OnlyCommitted, InOrder, Subscribe
  <2>4. Marks'
    BY <1>4, <2>1 DEF IInv, TypeOK, Marks, Subscribe
  <2> QED BY <2>2, <2>3, <2>4 DEF IInv
<1>5. ASSUME Replay PROVE IInv'
  BY <1>5, ReplayInv
<1>6. ASSUME ReplayFails PROVE IInv'
  BY <1>6 DEF IInv, TypeOK, OnlyCommitted, InOrder, Marks, ReplayFails
<1>7. ASSUME Deliver
      PROVE  IInv'
  <2> DEFINE e == Head(buffer)
  <2>1. e \in 1..head /\ e \in Nat
    BY <1>7 DEF IInv, TypeOK, Marks, Deliver
  <2>2. buffer' \in Seq(Nat) /\ Len(buffer') <= Capacity /\ Len(buffer') = Len(buffer) - 1
    BY <1>7 DEF IInv, TypeOK, Deliver
  <2>3. \A i \in 1..Len(buffer') : buffer'[i] \in 1..head
    BY <1>7, <2>2 DEF IInv, TypeOK, Marks, Deliver
  <2>4. CASE New(e)
    <3>1. seen' = Append(seen, e) /\ sent' = e
      BY <1>7, <2>4 DEF Deliver
    <3>2. \A i \in 1..Len(seen) : seen[i] < e
      BY <1>7, <2>1, <2>4 DEF IInv, TypeOK, Marks, Deliver, New
    <3>3. InOrder' /\ seen' \in Seq(Nat)
      BY <2>1, <3>1, <3>2, AppendInOrder DEF IInv
    <3>4. TypeOK'
      BY <1>7, <2>1, <2>2, <3>1, <3>3 DEF IInv, TypeOK, Deliver
    <3>5. \A i \in 1..Len(seen') : seen'[i] \in 1..head /\ seen'[i] <= e
      BY <2>1, <3>1, <3>2 DEF IInv, TypeOK, OnlyCommitted
    <3>6. OnlyCommitted' /\ Marks'
      BY <1>7, <2>1, <2>3, <3>1, <3>5 DEF IInv, OnlyCommitted, Marks, Deliver
    <3> QED BY <3>3, <3>4, <3>6 DEF IInv
  <2>5. CASE ~New(e)
    <3>1. UNCHANGED <<seen, sent, head, pending, feed, calm>>
      BY <1>7, <2>5 DEF Deliver
    <3>2. TypeOK' /\ OnlyCommitted' /\ InOrder' /\ Marks'
      BY <2>2, <2>3, <3>1 DEF IInv, TypeOK, OnlyCommitted, InOrder, Marks
    <3> QED BY <3>2 DEF IInv
  <2> QED BY <2>4, <2>5
<1>8. ASSUME Disconnect \/ Crash
      PROVE  IInv'
  <2>1. TypeOK'
    <3>1. Len(<<>>) = 0 /\ <<>> \in Seq(Nat)
      OBVIOUS
    <3>2. /\ head' = head /\ seen' = seen /\ sent' = sent /\ calm' = calm
          /\ buffer' = <<>> /\ feed' = "off"
      BY <1>8 DEF Disconnect, Crash
    <3>3. CASE Disconnect
      BY <3>1, <3>2, <3>3 DEF IInv, TypeOK, Disconnect
    <3>4. CASE Crash
      <4>1. pending' \in [Writers -> Nat]
        BY <3>4 DEF Crash
      <4> QED BY <3>1, <3>2, <4>1 DEF IInv, TypeOK
    <3> QED BY <1>8, <3>3, <3>4
  <2>2. OnlyCommitted' /\ InOrder' /\ Marks'
    BY <1>8 DEF IInv, TypeOK, OnlyCommitted, InOrder, Marks, Disconnect, Crash
  <2> QED BY <2>1, <2>2 DEF IInv
<1>9. ASSUME UNCHANGED vars PROVE IInv'
  BY <1>9 DEF IInv, TypeOK, OnlyCommitted, InOrder, Marks, vars
<1> QED BY <1>1, <1>2, <1>3, <1>4, <1>5, <1>6, <1>7, <1>8, <1>9 DEF Next

LEMMA Inductive == Spec => []IInv
<1>1. Init => IInv BY InitInv
<1>2. IInv /\ [Next]_vars => IInv' BY StepInv
<1> QED BY <1>1, <1>2, PTL DEF Spec

-----------------------------------------------------------------------------
\* A board never renders an event twice or out of order: for any writers, other
\* processes, failed reads, full buffers, crashes and reconnects.
THEOREM BoardInOrder == Spec => []InOrder
<1>1. IInv => InOrder BY DEF IInv
<1> QED BY <1>1, Inductive, PTL

\* A board never renders what is not in the log.
THEOREM BoardCommitted == Spec => []OnlyCommitted
<1>1. IInv => OnlyCommitted BY DEF IInv
<1> QED BY <1>1, Inductive, PTL

\* The stream's state keeps its types; the buffer is never past its capacity.
THEOREM TypeCorrect == Spec => []TypeOK
<1>1. IInv => TypeOK BY DEF IInv
<1> QED BY <1>1, Inductive, PTL

-----------------------------------------------------------------------------
(* The refinement.  The events a live board lacks are all on their way to it,  *)
(* in their order, as long as nothing has disturbed the stream.               *)
Distinct == \A v, w \in Writers : pending[v] = pending[w] /\ pending[v] # 0 => v = w

\* What the board has is the log up to the handler's mark.
Prefix == sent = Len(seen) /\ \A i \in 1..Len(seen) : seen[i] = i

\* The buffer is in order, and before all that has still to be handed out.
Lined ==
  /\ feed = "off" => buffer = <<>>
  /\ \A i, j \in 1..Len(buffer) : i < j => buffer[i] < buffer[j]
  /\ \A i \in 1..Len(buffer), w \in Writers : pending[w] # 0 => buffer[i] < pending[w]

OnTheWay(e) == (\E w \in Writers : pending[w] = e) \/ (\E i \in 1..Len(buffer) : buffer[i] = e)
Coming == feed = "live" => \A e \in sent + 1 .. head : OnTheWay(e)

Gapless == Distinct /\ (calm => Prefix /\ Lined /\ Coming)

LEMMA InitGapless == Init => Gapless
BY DEF Init, Gapless, Distinct, Prefix, Lined, Coming

LEMMA CommitGapless ==
  ASSUME IInv, Gapless, NEW w \in Writers, Commit(w)
  PROVE  Gapless'
<1>1. pending' = [pending EXCEPT ![w] = head + 1] /\ pending \in [Writers -> Nat] /\ head \in Nat
      /\ head' = head + 1 /\ pending[w] = 0 /\ UNCHANGED <<feed, buffer, sent, seen, calm>>
  BY DEF Commit, IInv, TypeOK
<1>2. \A v \in Writers : pending[v] <= head
  BY DEF IInv, Marks
<1>3. Distinct'
  BY <1>1, <1>2 DEF Distinct, Gapless
<1>4. ASSUME calm PROVE Lined'
  <2>1. Lined /\ \A i \in 1..Len(buffer) : buffer[i] \in 1..head
    BY <1>4 DEF Gapless, IInv, Marks
  <2>2. ASSUME NEW i \in 1..Len(buffer), NEW v \in Writers, pending'[v] # 0
        PROVE  buffer[i] < pending'[v]
    BY <1>1, <2>1, <2>2 DEF Lined
  <2> QED BY <1>1, <2>1, <2>2 DEF Lined
<1>5. ASSUME calm PROVE Coming'
  <2> SUFFICES ASSUME feed = "live", NEW e \in sent + 1 .. head + 1 PROVE OnTheWay(e)'
    BY <1>1 DEF Coming
  <2>1. CASE e = head + 1
    BY <1>1, <2>1 DEF OnTheWay
  <2>2. CASE e # head + 1
    <3>1. OnTheWay(e) /\ e # 0
      BY <1>1, <1>5, <2>2 DEF Gapless, Coming, IInv, TypeOK
    <3>2. CASE \E v \in Writers : pending[v] = e
      BY <1>1, <3>1, <3>2 DEF OnTheWay
    <3>3. CASE \E i \in 1..Len(buffer) : buffer[i] = e
      BY <1>1, <3>3 DEF OnTheWay
    <3> QED BY <3>1, <3>2, <3>3 DEF OnTheWay
  <2> QED BY <2>1, <2>2
<1>6. calm => Prefix'
  BY <1>1 DEF Gapless, Prefix
<1> QED BY <1>1, <1>3, <1>4, <1>5, <1>6 DEF Gapless

\* What a subscriber is handed in turn goes to the end of its buffer.
LEMMA FanoutGapless ==
  ASSUME IInv, Gapless, NEW w \in Writers, Fanout(w)
  PROVE  Gapless'
<1> DEFINE e == pending[w]
<1>1. /\ pending' = [pending EXCEPT ![w] = 0] /\ pending \in [Writers -> Nat]
      /\ e \in Nat /\ e # 0 /\ buffer \in Seq(Nat)
      /\ UNCHANGED <<head, feed, sent, seen>> /\ calm' = (calm /\ InTurn(w)) /\ calm \in BOOLEAN
  BY DEF Fanout, IInv, TypeOK
<1>2. Distinct'
  BY <1>1 DEF Distinct, Gapless
<1>3. calm' => Prefix'
  BY <1>1 DEF Gapless, Prefix
<1>4. CASE calm' /\ feed = "off"
  <2>1. buffer' = buffer
    BY <1>4 DEF Fanout, Offered
  <2> QED BY <1>1, <1>2, <1>3, <1>4, <2>1 DEF Gapless, Lined, Coming
<1>5. CASE calm' /\ feed # "off"
  <2>1. calm /\ InTurn(w)
    BY <1>1, <1>5
  <2>2. Lined /\ Coming
    BY <2>1 DEF Gapless
  <2>3. buffer' = Append(buffer, e)
    BY <1>5, <2>1 DEF Fanout, Offered, InTurn
  <2>4. /\ Len(buffer') = Len(buffer) + 1 /\ Len(buffer) \in Nat /\ buffer'[Len(buffer) + 1] = e
        /\ \A i \in 1..Len(buffer) : buffer'[i] = buffer[i] /\ buffer[i] \in Nat
    BY <1>1, <2>3
  <2>5. \A v \in Writers : v # w /\ pending[v] # 0 => e < pending[v]
    <3> SUFFICES ASSUME NEW v \in Writers, v # w, pending[v] # 0 PROVE e < pending[v]
      OBVIOUS
    <3>1. pending[v] \in Nat /\ pending[v] # e
      BY <1>1 DEF Gapless, Distinct
    <3>2. pending[v] \notin 1..e - 1
      BY <1>5, <2>1 DEF InTurn
    <3> QED BY <1>1, <3>1, <3>2
  <2>6. \A i \in 1..Len(buffer) : buffer[i] < e
    BY <1>1, <2>2 DEF Lined
  <2> HIDE DEF e
  <2>7. ASSUME NEW i \in 1..Len(buffer'), NEW j \in 1..Len(buffer'), i < j
        PROVE  buffer'[i] < buffer'[j]
    <3>1. i \in 1..Len(buffer)
      BY <2>4, <2>7
    <3>2. CASE j \in 1..Len(buffer)
      BY <2>2, <2>4, <2>7, <3>1, <3>2 DEF Lined
    <3>3. CASE j = Len(buffer) + 1
      BY <2>4, <2>6, <3>1, <3>3
    <3> QED BY <2>4, <3>2, <3>3
  <2>8. ASSUME NEW i \in 1..Len(buffer'), NEW v \in Writers, pending'[v] # 0
        PROVE  buffer'[i] < pending'[v]
    <3>1. v # w /\ pending'[v] = pending[v] /\ pending[v] # 0
      BY <1>1, <2>8
    <3>2. CASE i \in 1..Len(buffer)
      BY <2>2, <2>4, <3>1, <3>2 DEF Lined
    <3>3. CASE i = Len(buffer) + 1
      BY <2>4, <2>5, <3>1, <3>3
    <3> QED BY <2>4, <3>2, <3>3
  <2>9. Lined'
    BY <1>1, <1>5, <2>7, <2>8 DEF Lined
  <2>10. Coming'
    <3> SUFFICES ASSUME feed = "live", NEW k \in sent + 1 .. head PROVE OnTheWay(k)'
      BY <1>1 DEF Coming
    <3>1. OnTheWay(k)
      BY <2>2 DEF Coming
    <3>2. CASE \E i \in 1..Len(buffer) : buffer[i] = k
      <4>1. PICK i \in 1..Len(buffer) : buffer[i] = k
        BY <3>2
      <4>2. i \in 1..Len(buffer') /\ buffer'[i] = k
        BY <2>4, <4>1
      <4> QED BY <4>2 DEF OnTheWay
    <3>3. CASE \E v \in Writers : pending[v] = k
      <4>1. PICK v \in Writers : pending[v] = k
        BY <3>3
      <4>2. CASE v = w
        <5>1. Len(buffer) + 1 \in 1..Len(buffer') /\ buffer'[Len(buffer) + 1] = k
          BY <2>4, <4>1, <4>2 DEF e
        <5> QED BY <5>1 DEF OnTheWay
      <4>3. CASE v # w
        BY <1>1, <4>1, <4>3 DEF OnTheWay
      <4> QED BY <4>2, <4>3
    <3> QED BY <3>1, <3>2, <3>3 DEF OnTheWay
  <2> QED BY <1>2, <1>3, <1>5, <2>9, <2>10 DEF Gapless
<1>6. CASE ~calm'
  BY <1>2, <1>6 DEF Gapless
<1> QED BY <1>4, <1>5, <1>6

LEMMA SubscribeGapless ==
  ASSUME IInv, Gapless, Subscribe
  PROVE  Gapless'
<1>1. /\ feed' = "subscribed" /\ buffer' = <<>> /\ sent' = LastSeen
      /\ UNCHANGED <<head, pending, seen, calm>>
  BY DEF Subscribe
<1>2. calm => Prefix'
  BY <1>1 DEF LastSeen, IInv, TypeOK, Gapless, Prefix
<1>3. Lined' /\ Coming'
  BY <1>1 DEF Lined, Coming
<1> QED BY <1>1, <1>2, <1>3 DEF Gapless, Distinct

\* A replay that is not cut short leaves the board with the whole log.
LEMMA ReplayAll ==
  ASSUME IInv, Prefix, Replay, head - sent <= Page
  PROVE  sent' = head /\ Len(seen') = head /\ seen' \in Seq(Nat)
         /\ \A i \in 1..Len(seen') : seen'[i] = i
<1> DEFINE back == Since(sent)
<1>1. sent <= head /\ head \in Nat /\ sent \in Nat /\ seen \in Seq(Nat) /\ sent = Len(seen)
  BY DEF IInv, TypeOK, Marks, Prefix
<1>2. back \in Seq(Nat) /\ \A i \in 1..Len(back) : back[i] = sent + i
  BY <1>1, SinceFacts DEF IInv
<1>3. Len(back) = head - sent
  <2>1. back = [i \in 1..head - sent |-> sent + i]
    BY <1>1, SizesAssumption DEF Since
  <2> QED BY <1>1, <2>1
<1>4. seen' = seen \o back /\ sent' = sent + Len(back)
  BY DEF Replay
<1> HIDE DEF back
<1>5. Len(seen') = head /\ seen' \in Seq(Nat)
  BY <1>1, <1>2, <1>3, <1>4
<1>6. ASSUME NEW i \in 1..Len(seen') PROVE seen'[i] = i
  <2>1. CASE i <= Len(seen)
    BY <1>1, <1>2, <1>4, <1>5, <2>1 DEF Prefix
  <2>2. CASE i > Len(seen)
    <3>1. seen'[i] = back[i - Len(seen)] /\ i - Len(seen) \in 1..Len(back)
      BY <1>1, <1>2, <1>3, <1>4, <1>5, <2>2
    <3> QED BY <1>1, <1>2, <3>1
  <2> QED BY <1>1, <2>1, <2>2
<1> QED BY <1>1, <1>3, <1>4, <1>5, <1>6

LEMMA ReplayGapless ==
  ASSUME IInv, Gapless, Replay
  PROVE  Gapless'
<1>1. /\ feed # "off" /\ feed' = "live" /\ UNCHANGED <<head, pending, buffer>>
      /\ calm' = (calm /\ head - sent <= Page) /\ calm \in BOOLEAN /\ head \in Nat
  BY DEF Replay, IInv, TypeOK
<1>2. CASE calm'
  <2>1. calm /\ head - sent <= Page
    BY <1>1, <1>2
  <2>2. sent' = head /\ Len(seen') = head /\ \A i \in 1..Len(seen') : seen'[i] = i
    BY <2>1, ReplayAll DEF Gapless
  <2>3. Prefix' /\ Coming'
    BY <1>1, <2>2 DEF Prefix, Coming
  <2>4. Lined'
    BY <1>1, <2>1 DEF Gapless, Lined
  <2> QED BY <1>1, <2>3, <2>4 DEF Gapless, Distinct
<1> QED BY <1>1, <1>2 DEF Gapless, Distinct

\* What the handler takes from the buffer is shown already, or the next event.
LEMMA DeliverNext ==
  ASSUME IInv, Prefix, Lined, Coming, Deliver, New(Head(buffer))
  PROVE  Head(buffer) = sent + 1 /\ Head(buffer) \in 1..head
<1> DEFINE h == Head(buffer)
<1>1. buffer \in Seq(Nat) /\ buffer # <<>> /\ h = buffer[1] /\ 1 \in 1..Len(buffer) /\ Len(buffer) \in Nat
  BY DEF Deliver, IInv, TypeOK
<1>2. h \in 1..head /\ h > sent /\ sent \in Nat /\ head \in Nat
  BY <1>1 DEF New, IInv, TypeOK, Marks
<1>3. sent + 1 \in sent + 1 .. head
  BY <1>2
<1>4. OnTheWay(sent + 1)
  BY <1>3 DEF Coming, Deliver
<1>5. CASE \E w \in Writers : pending[w] = sent + 1
  <2>1. PICK w \in Writers : pending[w] = sent + 1
    BY <1>5
  <2>2. buffer[1] < pending[w]
    BY <1>1, <1>2, <2>1 DEF Lined
  <2> QED BY <1>1, <1>2, <2>1, <2>2
<1>6. CASE \E i \in 1..Len(buffer) : buffer[i] = sent + 1
  <2>1. PICK i \in 1..Len(buffer) : buffer[i] = sent + 1
    BY <1>6
  <2>2. CASE i = 1
    BY <1>1, <1>2, <2>1, <2>2
  <2>3. CASE i # 1
    <3>1. buffer[1] < buffer[i]
      BY <1>1, <2>1, <2>3 DEF Lined
    <3> QED BY <1>1, <1>2, <2>1, <3>1
  <2> QED BY <2>2, <2>3
<1> QED BY <1>4, <1>5, <1>6 DEF OnTheWay

LEMMA DeliverGapless ==
  ASSUME IInv, Gapless, Deliver
  PROVE  Gapless'
<1> DEFINE h == Head(buffer)
<1>1. /\ UNCHANGED <<head, pending, feed, calm>> /\ feed = "live"
      /\ buffer' = Tail(buffer) /\ buffer # <<>> /\ buffer \in Seq(Nat) /\ seen \in Seq(Nat)
      /\ sent \in Nat /\ head \in Nat
  BY DEF Deliver, IInv, TypeOK
<1>2. Distinct'
  BY <1>1 DEF Distinct, Gapless
<1>3. CASE calm
  <2>1. Prefix /\ Lined /\ Coming
    BY <1>3 DEF Gapless
  <2>2. /\ Len(buffer') = Len(buffer) - 1 /\ Len(buffer) \in Nat /\ h = buffer[1]
        /\ \A i \in 1..Len(buffer') : buffer'[i] = buffer[i + 1] /\ i + 1 \in 1..Len(buffer)
    BY <1>1
  <2>3. Lined'
    <3>1. ASSUME NEW i \in 1..Len(buffer'), NEW j \in 1..Len(buffer'), i < j
          PROVE  buffer'[i] < buffer'[j]
      BY <2>1, <2>2, <3>1 DEF Lined
    <3>2. ASSUME NEW i \in 1..Len(buffer'), NEW v \in Writers, pending[v] # 0
          PROVE  buffer'[i] < pending[v]
      BY <2>1, <2>2, <3>2 DEF Lined
    <3> QED BY <1>1, <3>1, <3>2 DEF Lined
  <2>4. CASE New(h)
    <3>1. h = sent + 1 /\ h \in 1..head
      BY <2>1, <2>4, DeliverNext
    <3>2. seen' = Append(seen, h) /\ sent' = h
      BY <2>4 DEF Deliver
    <3>3. Prefix'
      BY <1>1, <2>1, <3>1, <3>2 DEF Prefix
    <3>4. Coming'
      <4> SUFFICES ASSUME NEW e \in sent' + 1 .. head PROVE OnTheWay(e)'
        BY <1>1 DEF Coming
      <4>1. OnTheWay(e) /\ e # h
        BY <1>1, <2>1, <3>1, <3>2 DEF Coming
      <4>2. CASE \E w \in Writers : pending[w] = e
        BY <1>1, <4>2 DEF OnTheWay
      <4>3. CASE \E i \in 1..Len(buffer) : buffer[i] = e
        <5>1. PICK i \in 1..Len(buffer) : buffer[i] = e
          BY <4>3
        <5>2. i - 1 \in 1..Len(buffer') /\ buffer'[i - 1] = e
          BY <2>2, <4>1, <5>1
        <5> QED BY <5>2 DEF OnTheWay
      <4> QED BY <4>1, <4>2, <4>3 DEF OnTheWay
    <3> QED BY <1>2, <2>3, <3>3, <3>4 DEF Gapless
  <2>5. CASE ~New(h)
    <3>1. UNCHANGED <<seen, sent>> /\ h <= sent
      BY <2>5, <1>1, <2>2 DEF Deliver, New
    <3>2. Prefix'
      BY <2>1, <3>1 DEF Prefix
    <3>3. Coming'
      <4> SUFFICES ASSUME NEW e \in sent + 1 .. head PROVE OnTheWay(e)'
        BY <1>1, <3>1 DEF Coming
      <4>1. OnTheWay(e) /\ e # h
        BY <1>1, <2>1, <2>2, <3>1 DEF Coming
      <4>2. CASE \E w \in Writers : pending[w] = e
        BY <1>1, <4>2 DEF OnTheWay
      <4>3. CASE \E i \in 1..Len(buffer) : buffer[i] = e
        <5>1. PICK i \in 1..Len(buffer) : buffer[i] = e
          BY <4>3
        <5>2. i - 1 \in 1..Len(buffer') /\ buffer'[i - 1] = e
          BY <2>2, <4>1, <5>1
        <5> QED BY <5>2 DEF OnTheWay
      <4> QED BY <4>1, <4>2, <4>3 DEF OnTheWay
    <3> QED BY <1>2, <2>3, <3>2, <3>3 DEF Gapless
  <2> QED BY <2>4, <2>5
<1> QED BY <1>1, <1>2, <1>3 DEF Gapless

LEMMA StepGapless ==
  ASSUME IInv, Gapless, [Next]_vars
  PROVE  Gapless'
<1>1. CASE \E w \in Writers : Commit(w) \/ Fanout(w)
  BY <1>1, CommitGapless, FanoutGapless
<1>2. CASE Subscribe BY <1>2, SubscribeGapless
<1>3. CASE Replay BY <1>3, ReplayGapless
<1>4. CASE Deliver BY <1>4, DeliverGapless
<1>5. CASE CommitElsewhere
  BY <1>5 DEF CommitElsewhere, Gapless, Distinct, Prefix, Lined, Coming
<1>6. CASE ReplayFails
  <2>1. calm' => \A n \in sent' + 1 .. head' : FALSE
    <3>1. calm' => sent' = head'
      BY <1>6 DEF ReplayFails
    <3>2. head' \in Nat
      BY <1>6 DEF ReplayFails, IInv, TypeOK
    <3>3. \A m \in Nat : \A n \in m + 1 .. m : FALSE
      OBVIOUS
    <3> QED BY <3>1, <3>2, <3>3
  <2> QED BY <1>6, <2>1 DEF ReplayFails, Gapless, Distinct, Prefix, Lined, Coming
<1>7. CASE Disconnect \/ Crash
  <2>1. buffer' = <<>> /\ feed' = "off" /\ UNCHANGED <<head, sent, seen, calm>>
    BY <1>7 DEF Disconnect, Crash
  <2>2. Distinct'
    BY <1>7 DEF Disconnect, Crash, Gapless, Distinct
  <2> QED BY <2>1, <2>2 DEF Gapless, Prefix, Lined, Coming
<1>8. CASE UNCHANGED vars
  BY <1>8 DEF vars, Gapless, Distinct, Prefix, Lined, Coming, OnTheWay
<1> QED BY <1>1, <1>2, <1>3, <1>4, <1>5, <1>6, <1>7, <1>8 DEF Next

\* The board keeps what it has.
LEMMA SeenGrows ==
  ASSUME IInv, [Next]_vars
  PROVE  Len(seen) <= Len(seen') /\ \A i \in 1..Len(seen) : seen'[i] = seen[i]
<1>1. seen \in Seq(Nat)
  BY DEF IInv, TypeOK
<1>2. CASE Replay
  <2>1. Since(sent) \in Seq(Nat) /\ seen' = seen \o Since(sent)
    BY <1>2, SinceFacts DEF Replay, IInv, Marks
  <2> QED BY <1>1, <2>1
<1>3. CASE Deliver
  <2>1. seen' = seen \/ seen' = Append(seen, Head(buffer))
    BY <1>3 DEF Deliver
  <2> QED BY <1>1, <2>1
<1>4. CASE seen' = seen
  BY <1>1, <1>4
<1> QED
  BY <1>2, <1>3, <1>4 DEF Next, Commit, Fanout, CommitElsewhere, Subscribe, ReplayFails, Disconnect, Crash, vars

\* A step of the stream grows the log, shows the next events, skips some once it
\* has been disturbed, or is not seen.
LEMMA StepShows ==
  ASSUME IInv, IInv', Gapless, Gapless', [Next]_vars
  PROVE  [F!Next]_<<head, seen, calm>>
<1>1. calm' => calm
  BY DEF Next, Commit, Fanout, CommitElsewhere, Subscribe, Replay, ReplayFails, Deliver, Disconnect, Crash, vars
<1>2. head' = head \/ (head' = head + 1 /\ seen' = seen)
  BY DEF Next, Commit, Fanout, CommitElsewhere, Subscribe, Replay, ReplayFails, Deliver, Disconnect, Crash, vars
<1>3. Len(seen) <= Len(seen') /\ \A i \in 1..Len(seen) : seen'[i] = seen[i]
  BY SeenGrows
<1>4. CASE head' = head + 1 /\ seen' = seen
  BY <1>1, <1>4 DEF F!Next, F!Log
<1>5. CASE head' = head /\ ~calm'
  <2>1. InOrder' /\ OnlyCommitted'
    BY DEF IInv
  <2>2. \A i \in 1..Len(seen') : seen'[i] \in 1..head
    BY <1>5, <2>1 DEF OnlyCommitted
  <2>3. F!Skip
    BY <1>3, <1>5, <2>1, <2>2 DEF F!Skip, InOrder
  <2> QED BY <1>1, <2>3 DEF F!Next
<1>6. CASE head' = head /\ calm'
  <2>1. Prefix /\ Prefix' /\ calm
    BY <1>1, <1>6 DEF Gapless
  <2>2. seen \in Seq(Nat) /\ seen' \in Seq(Nat) /\ head \in Nat
    BY DEF IInv, TypeOK
  <2>3. CASE Len(seen') = Len(seen)
    <3>1. seen' = seen
      BY <1>3, <2>2, <2>3
    <3> QED BY <1>6, <2>1, <3>1
  <2>4. CASE Len(seen') > Len(seen)
    <3> DEFINE n == Len(seen')
    <3>1. n \in 1..n /\ seen'[n] = n /\ n \in Nat
      BY <2>1, <2>2, <2>4 DEF Prefix
    <3>2. n <= head
      BY <1>6, <2>2, <3>1 DEF IInv, OnlyCommitted
    <3>3. n \in Len(seen) + 1 .. head
      BY <2>2, <2>4, <3>2
    <3>4. seen' = [i \in 1..n |-> i]
      BY <2>1, <2>2 DEF Prefix
    <3>5. F!Show
      BY <1>6, <3>3, <3>4 DEF F!Show
    <3> QED BY <1>1, <3>5 DEF F!Next
  <2> QED BY <1>3, <2>2, <2>3, <2>4
<1> QED BY <1>2, <1>4, <1>5, <1>6

\* The stream implements its feed, for any writers, other processes, buffers and
\* replays: until something disturbs it the board shows the log itself, from its
\* first event on, without a gap, over crashes and reconnects, and after that it
\* still only goes forward.
THEOREM StreamIsFeed == Spec => ImplementsFeed
<1>1. Init => Gapless /\ F!Init
  <2>1. Init => F!Init
    BY DEF Init, F!Init
  <2> QED BY <2>1, InitGapless
<1>2. IInv /\ IInv' /\ Gapless /\ [Next]_vars => Gapless' /\ [F!Next]_<<head, seen, calm>>
  BY StepGapless, StepShows
<1> QED BY <1>1, <1>2, Inductive, PTL DEF Spec, ImplementsFeed, F!Spec

-----------------------------------------------------------------------------
(* Attention: the inductive invariant is AttentionInv, below.                *)

-----------------------------------------------------------------------------
(* Reading a log q.                                                          *)

\* Row i is about s and of a kind, and the last such row of the first n.
About(q, i, s, kind) == q[i].session = s /\ q[i].kind = kind
LastOf(q, i, n, s, kind) ==
    i \in 1..n /\ About(q, i, s, kind) /\ \A k \in 1..n : About(q, k, s, kind) => k <= i

\* The last notice of s in the first n rows was a message, and at t it still
\* stands for the next.
Standing(q, s, n, t) ==
    \E i \in 1..n : LastOf(q, i, n, s, "attention") /\ q[i].sent /\ t - q[i].at <= DedupeWindow

\* The notice d was decided on the first d.saw of n rows.
Settled(q, d, n) ==
    /\ d.saw \in 0..n
    /\ d.why = "already notified" => Standing(q, d.session, d.saw, d.when)
    /\ d.why \notin {"already notified", "not wanted"} => ~Standing(q, d.session, d.saw, d.when)
    /\ d.why = "short turn" => d.reason = "turn-complete"

-----------------------------------------------------------------------------
(* The inductive invariant.                                                  *)

\* Every notice was decided on rows before it; what is marked sent reached the phone.
Earned(q, row, n) ==
    row.kind = "attention" =>
      /\ Settled(q, row, n)
      /\ row.sent = (row.why = "")
      /\ row.sent => row.reached

\* What a process carries was read from the log as it was when it read it.
Fit(q, d) ==
    /\ d.step = "free" \/ d.session \in Sessions
    /\ d.step \in {"coalesce", "decide", "send", "record"} => d.reason \in Reasons
    /\ d.step \in {"send", "record"} => Settled(q, d, Len(q))
    /\ d.step = "send" => d.why = ""
    /\ (d.step = "record" /\ d.why = "") => d.reached

\* Those who have a state to write yet, and a notice after it; and those who have
\* only the notice.
Before == {g \in Signals : signal[g].step \in {"read", "append"}}
After == {g \in Signals : signal[g].step \in {"coalesce", "decide", "send", "record"}}

RowsEarned == \A j \in 1..Len(log) : Earned(log, log[j], j - 1)
SignalsFit == \A g \in Signals : Fit(log, signal[g])
Due == 2 * Cardinality(Before) + Cardinality(After)
Spare == Len(log) + Due <= MaxRows

AttentionInv == AttentionTypeOK /\ RowsEarned /\ SignalsFit /\ Spare

-----------------------------------------------------------------------------
(* The newest row of a kind.                                                 *)

LEMMA MaxExists ==
    ASSUME NEW n \in Nat, NEW S \in SUBSET (1..n), S # {}
    PROVE  \E m \in S : \A x \in S : x <= m
<1> DEFINE Above(x) == {y \in S : y > x}
<1> DEFINE T == {Above(x) : x \in S}
<1>1. IsFiniteSet(S)
  <2>1. IsFiniteSet(1..n)
    BY FS_Interval
  <2> QED BY <2>1, FS_Subset
<1>2. T \subseteq FiniteSubsetsOf(S) /\ T # {}
  <2>1. FiniteSubsetsOf(S) = SUBSET S
    BY <1>1, FS_FiniteSubsetsOfFinite
  <2>2. \A x \in S : Above(x) \in SUBSET S
    OBVIOUS
  <2> HIDE DEF Above
  <2>3. T \in SUBSET (SUBSET S) /\ \E x \in S : Above(x) \in T
    BY <2>2
  <2> QED BY <2>1, <2>3
<1>3. PICK A \in T : \A B \in T : ~(<<B, A>> \in StrictSubsetOrdering(S))
  <2> HIDE DEF T
  <2> QED BY <1>2, FS_StrictSubsetOrderingWellFounded, WFMin
<1>4. PICK m \in S : A = Above(m)
  OBVIOUS
<1>5. ASSUME NEW x \in S, ~(x <= m)
      PROVE  FALSE
  <2>1. x \in Nat /\ m \in Nat /\ x > m
    BY <1>5
  <2>2. \A y \in S : y \in Nat
    OBVIOUS
  <2>3. Above(x) \subseteq Above(m)
    <3> SUFFICES ASSUME NEW y \in S, y > x PROVE y > m
      OBVIOUS
    <3> QED BY <2>1, <2>2
  <2>4. x \in Above(m)
    BY <2>1
  <2>5. x \notin Above(x)
    BY <2>1
  <2>6. Above(x) # Above(m) /\ Above(m) \subseteq S
    BY <2>4, <2>5
  <2> HIDE DEF Above
  <2>7. <<Above(x), Above(m)>> \in StrictSubsetOrdering(S)
    BY <2>3, <2>6 DEF StrictSubsetOrdering
  <2> QED BY <1>3, <1>4, <2>7
<1> QED BY <1>5

LEMMA MaxIs ==
    ASSUME NEW n \in Nat, NEW S \in SUBSET (1..n), S # {}
    PROVE  Max(S) \in S /\ \A x \in S : x <= Max(S)
<1>1. \E m \in S : \A x \in S : m >= x
  BY MaxExists
<1> QED BY <1>1 DEF Max

RowsIn(q, s, kind) == {i \in 1..Len(q) : About(q, i, s, kind)}

LEMMA LastIsMax ==
    ASSUME NEW q, Len(q) \in Nat, NEW s, NEW kind
    PROVE  /\ RowsIn(q, s, kind) # {} => LastOf(q, Max(RowsIn(q, s, kind)), Len(q), s, kind)
           /\ \A i : LastOf(q, i, Len(q), s, kind) =>
                RowsIn(q, s, kind) # {} /\ Max(RowsIn(q, s, kind)) = i
<1> DEFINE S == RowsIn(q, s, kind)
<1>1. S \in SUBSET (1..Len(q))
  BY DEF RowsIn
<1>2. S # {} => Max(S) \in S /\ \A x \in S : x <= Max(S)
  BY <1>1, MaxIs
<1>3. ASSUME NEW i, LastOf(q, i, Len(q), s, kind)
      PROVE  S # {} /\ Max(S) = i
  <2>1. i \in S /\ \A x \in S : x <= i
    BY <1>3 DEF LastOf, RowsIn
  <2>2. Max(S) \in S /\ i <= Max(S) /\ Max(S) <= i
    BY <1>2, <2>1
  <2>3. i \in Nat /\ Max(S) \in Nat
    BY <1>1, <2>1, <2>2
  <2> QED BY <2>1, <2>2, <2>3
<1>4. S # {} => LastOf(q, Max(S), Len(q), s, kind)
  BY <1>1, <1>2 DEF LastOf, RowsIn
<1> QED BY <1>3, <1>4

\* Newest(s, {kind}) is the last row of s of that kind, and 0 if it has none.
LEMMA NewestIsLast ==
    ASSUME log \in Seq(StateRow \cup AttentionRow), NEW s, NEW kind
    PROVE  /\ \/ Newest(s, {kind}) = 0 /\ \A i \in 1..Len(log) : ~About(log, i, s, kind)
              \/ LastOf(log, Newest(s, {kind}), Len(log), s, kind)
           /\ \A i : LastOf(log, i, Len(log), s, kind) => Newest(s, {kind}) = i
<1>1. Len(log) \in Nat /\ DOMAIN log = 1..Len(log)
  OBVIOUS
<1>2. RowsOf(s, {kind}) = RowsIn(log, s, kind)
  BY <1>1 DEF RowsOf, RowsIn, About
<1>3. Newest(s, {kind}) = IF RowsIn(log, s, kind) = {} THEN 0 ELSE Max(RowsIn(log, s, kind))
  BY <1>2 DEF Newest
<1>4. RowsIn(log, s, kind) = {} => \A i \in 1..Len(log) : ~About(log, i, s, kind)
  BY DEF RowsIn
<1> HIDE DEF RowsIn
<1> QED BY <1>1, <1>3, <1>4, LastIsMax

-----------------------------------------------------------------------------
(* A log that grows keeps what was read of it.                               *)

Grows(q, r) ==
    /\ Len(q) \in Nat /\ Len(r) \in Nat /\ Len(q) <= Len(r)
    /\ \A i \in 1..Len(q) : r[i] = q[i]

LEMMA LastKept ==
    ASSUME NEW q, NEW r, Grows(q, r), NEW n \in Nat, n <= Len(q), NEW s, NEW kind, NEW i
    PROVE  LastOf(q, i, n, s, kind) <=> LastOf(r, i, n, s, kind)
<1>1. \A k \in 1..n : k \in 1..Len(q) /\ r[k] = q[k]
  BY DEF Grows
<1> QED BY <1>1 DEF LastOf, About

LEMMA StandingKept ==
    ASSUME NEW q, NEW r, Grows(q, r), NEW n \in Nat, n <= Len(q), NEW s, NEW t
    PROVE  Standing(q, s, n, t) <=> Standing(r, s, n, t)
<1>1. \A k \in 1..n : k \in 1..Len(q) /\ r[k] = q[k]
  BY DEF Grows
<1>2. \A k : LastOf(q, k, n, s, "attention") <=> LastOf(r, k, n, s, "attention")
  BY LastKept
<1> QED BY <1>1, <1>2 DEF Standing

LEMMA SettledKept ==
    ASSUME NEW q, NEW r, Grows(q, r), NEW n \in Nat, n <= Len(q), NEW m \in Nat, n <= m, NEW d, Settled(q, d, n)
    PROVE  Settled(r, d, m)
<1>1. d.saw \in Nat /\ d.saw <= Len(q) /\ d.saw \in 0..m
  <2>1. d.saw \in 0..n
    BY DEF Settled
  <2>2. Len(q) \in Nat
    BY DEF Grows
  <2> QED BY <2>1, <2>2
<1>2. Standing(q, d.session, d.saw, d.when) <=> Standing(r, d.session, d.saw, d.when)
  BY <1>1, StandingKept
<1> QED BY <1>1, <1>2 DEF Settled

LEMMA FitKept ==
    ASSUME NEW q, NEW r, Grows(q, r), NEW d, Fit(q, d)
    PROVE  Fit(r, d)
<1>1. Len(q) \in Nat /\ Len(q) <= Len(q) /\ Len(r) \in Nat /\ Len(q) <= Len(r)
  BY DEF Grows
<1>2. Settled(q, d, Len(q)) => Settled(r, d, Len(r))
  BY <1>1, SettledKept
<1> QED BY <1>2 DEF Fit

LEMMA EarnedKept ==
    ASSUME NEW q, NEW r, Grows(q, r), NEW n \in Nat, n <= Len(q), NEW row, Earned(q, row, n)
    PROVE  Earned(r, row, n)
<1>1. Settled(q, row, n) => Settled(r, row, n)
  BY SettledKept
<1> QED BY <1>1 DEF Earned

LEMMA Appended ==
    ASSUME NEW S, NEW q \in Seq(S), NEW row \in S, NEW r, r = Append(q, row)
    PROVE  /\ r \in Seq(S) /\ Len(r) = Len(q) + 1 /\ r[Len(q) + 1] = row /\ Grows(q, r)
BY DEF Grows

LEMMA SameLog ==
    ASSUME NEW S, NEW q \in Seq(S)
    PROVE  Grows(q, q)
BY DEF Grows

-----------------------------------------------------------------------------
(* One process moves.                                                        *)

Row == StateRow \cup AttentionRow
Work == [step : Steps, session : Sessions \cup {None}, reason : Reasons \cup {""},
         state : StateOf, saw : 0..MaxRows, when : 0..MaxTime, why : Whys, reached : BOOLEAN]
Links == [session : Sessions, expires : 0..MaxTime + Lifetime]

LEMMA Typed ==
    ASSUME AttentionTypeOK
    PROVE  /\ now \in 0..MaxTime /\ now \in Nat
           /\ log \in Seq(Row) /\ Len(log) \in Nat /\ Len(log) <= MaxRows
           /\ Len(log) \in 0..MaxRows
           /\ links \subseteq Links
           /\ signal \in [Signals -> Work]
           /\ Grows(log, log)
<1>1. log \in Seq(Row) /\ Len(log) <= MaxRows
  BY DEF AttentionTypeOK, Row
<1>2. Grows(log, log)
  BY <1>1, SameLog
<1>3. Len(log) \in Nat /\ MaxRows \in Nat
  BY <1>1, DurationsAssumption
<1>4. Len(log) \in 0..MaxRows
  <2>1. PICK n \in Nat : n = Len(log)
    BY <1>3
  <2> QED BY <1>1, <1>3, <2>1
<1>5. now \in 0..MaxTime /\ now \in Nat
  <2>1. now \in 0..MaxTime
    BY DEF AttentionTypeOK
  <2> QED BY <2>1
<1>6. links \subseteq Links
  BY DEF AttentionTypeOK, Links
<1>7. signal \in [Signals -> Work]
  BY DEF AttentionTypeOK, Work
<1> QED BY <1>1, <1>2, <1>3, <1>4, <1>5, <1>6, <1>7

\* What a process may append yet.
Weight(step) ==
    IF step \in {"read", "append"} THEN 2
    ELSE IF step \in {"coalesce", "decide", "send", "record"} THEN 1 ELSE 0

LEMMA WeightsSmall == \A step : Weight(step) \in {0, 1, 2}
BY DEF Weight

LEMMA Finite ==
    /\ IsFiniteSet(Before) /\ Cardinality(Before) \in Nat
    /\ IsFiniteSet(After) /\ Cardinality(After) \in Nat
<1>1. Before \in SUBSET Signals /\ After \in SUBSET Signals
  BY DEF Before, After
<1> QED BY <1>1, SignalsAssumption, FS_Subset, FS_CardinalityType

\* Two finite sets with nothing in common.
LEMMA DueStep ==
    ASSUME signal \in [Signals -> Work], NEW g \in Signals, NEW d, signal' = [signal EXCEPT ![g] = d]
    PROVE  /\ Due \in Nat /\ Due' \in Nat
           /\ Due' = Due + Weight(d.step) - Weight(signal[g].step)
<1>1. signal'[g] = d /\ \A h \in Signals : h # g => signal'[h] = signal[h]
  OBVIOUS
<1>2. /\ Before' = IF d.step \in {"read", "append"} THEN Before \cup {g} ELSE Before \ {g}
      /\ g \in Before <=> signal[g].step \in {"read", "append"}
  BY <1>1 DEF Before
<1>3. /\ After' = IF d.step \in {"coalesce", "decide", "send", "record"} THEN After \cup {g} ELSE After \ {g}
      /\ g \in After <=> signal[g].step \in {"coalesce", "decide", "send", "record"}
  BY <1>1 DEF After
<1> DEFINE b == Cardinality(Before)
           a == Cardinality(After)
<1>4. /\ b \in Nat /\ a \in Nat
      /\ Cardinality(Before \cup {g}) = IF g \in Before THEN b ELSE b + 1
      /\ Cardinality(Before \ {g}) = IF g \in Before THEN b - 1 ELSE b
      /\ Cardinality(After \cup {g}) = IF g \in After THEN a ELSE a + 1
      /\ Cardinality(After \ {g}) = IF g \in After THEN a - 1 ELSE a
  BY Finite, FS_AddElement, FS_RemoveElement
<1>5. /\ IsFiniteSet(Before') /\ IsFiniteSet(After')
  BY <1>2, <1>3, Finite, FS_AddElement, FS_RemoveElement
<1>6. Cardinality(Before') \in Nat /\ Cardinality(After') \in Nat
  BY <1>5, FS_CardinalityType
<1>7. Cardinality(Before') = b + (IF d.step \in {"read", "append"} THEN 1 ELSE 0)
                               - (IF signal[g].step \in {"read", "append"} THEN 1 ELSE 0)
  BY <1>2, <1>4
<1>8. Cardinality(After') = a + (IF d.step \in {"coalesce", "decide", "send", "record"} THEN 1 ELSE 0)
                              - (IF signal[g].step \in {"coalesce", "decide", "send", "record"} THEN 1 ELSE 0)
  BY <1>3, <1>4
<1> QED BY <1>4, <1>6, <1>7, <1>8 DEF Due, Weight

\* The room a new process asks for covers what it will append.
LEMMA RoomIsSpare ==
    ASSUME AttentionTypeOK, Room
    PROVE  Len(log) + Due + 2 <= MaxRows
<1> DEFINE Busy == {h \in Signals : signal[h].step # "free"}
<1>1. Busy = Before \cup After /\ Before \cap After = {}
  BY Typed DEF Before, After, Work, Steps
<1>2. Cardinality(Busy) = Cardinality(Before) + Cardinality(After)
  <2>1. Cardinality(Before \cup After) = Cardinality(Before) + Cardinality(After) - Cardinality(Before \cap After)
    BY Finite, FS_Union
  <2>2. Cardinality(Before \cap After) = 0
    BY <1>1, FS_EmptySet
  <2> HIDE DEF Busy
  <2> QED BY <1>1, <2>1, <2>2, Finite
<1>3. Len(log) + 2 * Cardinality(Busy) + 2 <= MaxRows
  BY DEF Room
<1> HIDE DEF Busy
<1> QED BY <1>2, <1>3, Finite, Typed, DurationsAssumption DEF Due

LEMMA SignalsStep ==
    ASSUME SignalsFit, signal \in [Signals -> Work], Grows(log, log'),
           NEW g \in Signals, NEW d, signal' = [signal EXCEPT ![g] = d], Fit(log', d)
    PROVE  SignalsFit'
<1> SUFFICES ASSUME NEW h \in Signals PROVE Fit(log', signal'[h])
  BY DEF SignalsFit
<1>1. CASE h = g
  BY <1>1
<1>2. CASE h # g
  <2>1. signal'[h] = signal[h] /\ Fit(log, signal[h])
    BY <1>2 DEF SignalsFit
  <2> QED BY <2>1, FitKept
<1> QED BY <1>1, <1>2

\* A process goes from one step to another and writes nothing.
LEMMA QuietStep ==
    ASSUME AttentionInv, NEW g \in Signals, NEW d \in Work, signal' = [signal EXCEPT ![g] = d],
           UNCHANGED <<now, log>>, links' \subseteq Links, Fit(log, d),
           Len(log) + Due + Weight(d.step) - Weight(signal[g].step) <= MaxRows
    PROVE  AttentionInv'
<1>1. AttentionTypeOK
  BY DEF AttentionInv
<1>2. signal' \in [Signals -> Work]
  BY <1>1, Typed
<1>3. AttentionTypeOK'
  BY <1>1, <1>2 DEF AttentionTypeOK, Work, Links
<1>4. RowsEarned'
  BY DEF AttentionInv, RowsEarned
<1>5. SignalsFit'
  BY <1>1, Typed, SignalsStep DEF AttentionInv
<1>6. Spare'
  <2>1. Due' = Due + Weight(d.step) - Weight(signal[g].step) /\ Due \in Nat
    BY <1>1, Typed, DueStep
  <2>2. Weight(d.step) \in Nat /\ Weight(signal[g].step) \in Nat /\ Len(log) \in Nat /\ MaxRows \in Nat
    BY <1>1, Typed, WeightsSmall, DurationsAssumption
  <2> QED BY <2>1, <2>2 DEF Spare
<1> QED BY <1>3, <1>4, <1>5, <1>6 DEF AttentionInv

\* Ending is always possible, and owes nothing.
LEMMA FreeFits ==
    /\ Free \in Work /\ Weight(Free.step) = 0
    /\ \A q : Fit(q, Free)
<1>1. 0 \in 0..MaxRows /\ 0 \in 0..MaxTime
  BY DurationsAssumption
<1>2. NoState \in StateOf
  BY DEF NoState, StateOf, Details
<1> QED BY <1>1, <1>2 DEF Free, Work, Weight, Fit, Steps, Whys, Reasons

-----------------------------------------------------------------------------
(* The steps that write nothing.                                             *)

LEMMA Zeros == 0 \in 0..MaxRows /\ 0 \in 0..MaxTime /\ MaxRows \in Nat /\ MaxTime \in Nat
<1>1. MaxRows \in Nat /\ MaxTime \in Nat
  BY DurationsAssumption
<1> QED BY <1>1

\* Where nothing is added to what is owed there is room as before, and a process
\* begins where there is room for all it will write.
LEMMA SpareStays ==
    ASSUME AttentionInv, NEW w, NEW v, Weight(w) <= Weight(v)
    PROVE  Len(log) + Due + Weight(w) - Weight(v) <= MaxRows
<1>1. Len(log) \in Nat /\ Due \in Nat /\ Len(log) + Due <= MaxRows
  BY Typed, Finite DEF AttentionInv, Spare, Due
<1>2. Weight(w) \in Nat /\ Weight(v) \in Nat
  BY WeightsSmall
<1> QED BY <1>1, <1>2, Zeros

LEMMA SpareAtStart ==
    ASSUME AttentionTypeOK, Room, NEW w
    PROVE  Len(log) + Due + Weight(w) - Weight("free") <= MaxRows
<1>1. Len(log) \in Nat /\ Due \in Nat /\ Len(log) + Due + 2 <= MaxRows
  BY Typed, Finite, RoomIsSpare DEF Due
<1>2. Weight(w) \in {0, 1, 2} /\ Weight("free") = 0
  BY WeightsSmall DEF Weight
<1> QED BY <1>1, <1>2, Zeros

LEMMA StartsStep ==
    ASSUME AttentionInv, NEW g \in Signals, signal[g].step = "free", Room,
           NEW d \in Work, d.step \in {"read", "coalesce"}, d.session \in Sessions,
           d.step = "coalesce" => d.reason \in Reasons,
           signal' = [signal EXCEPT ![g] = d], UNCHANGED <<now, log, links>>
    PROVE  AttentionInv'
<1>1. AttentionTypeOK
  BY DEF AttentionInv
<1>2. Fit(log, d)
  BY DEF Fit
<1>3. Len(log) + Due + Weight(d.step) - Weight(signal[g].step) <= MaxRows
  BY <1>1, SpareAtStart
<1>4. links' \subseteq Links
  BY <1>1, Typed
<1> QED BY <1>2, <1>3, <1>4, QuietStep

Started(s, reason, state) ==
    [Free EXCEPT !.session = s, !.reason = reason, !.state = state,
                 !.step = IF state # NoState THEN "read" ELSE "coalesce"]

LEMMA StartedIs ==
    ASSUME NEW s \in Sessions, NEW reason \in Reasons \cup {""}, NEW state \in StateOf,
           state = NoState => reason \in Reasons
    PROVE  LET d == Started(s, reason, state)
           IN  /\ d \in Work /\ d.step \in {"read", "coalesce"} /\ d.session \in Sessions
               /\ d.step = "coalesce" => d.reason \in Reasons
BY Zeros DEF Started, Free, Work, Steps, Whys

LEMMA HookSays ==
    ASSUME NEW hook \in Hooks
    PROVE  /\ FromHook(hook).state \in States /\ FromHook(hook).detail \in Details
           /\ FromHook(hook).reason \in Reasons \cup {""}
<1>1. hook \in {"Notification", "Stop", "UserPromptSubmit", "PostToolUse", "SessionStart", "SessionEnd"}
  BY HooksAssumption
<1> QED BY <1>1 DEF FromHook, States, Details, Reasons

LEMMA BeginStep ==
    ASSUME AttentionInv, NEW g \in Signals,
           \/ \E s \in Claude, hook \in Hooks : ClaudeHook(g, s, hook)
           \/ \E s \in Sessions \ Claude : CodexNotify(g, s) \/ Bell(g, s)
           \/ \E s \in Sessions : SendKeys(g, s) \/ OpenOnMac(g, s) \/ SignedHandoff(g, s)
    PROVE  AttentionInv'
<1>1. ASSUME NEW s \in Sessions, NEW reason \in Reasons \cup {""}, NEW state \in StateOf,
             Starts(g, s, reason, state), state = NoState => reason \in Reasons
      PROVE  AttentionInv'
  <2>1. PICK d : d = Started(s, reason, state)
    OBVIOUS
  <2>2. /\ signal' = [signal EXCEPT ![g] = d]
        /\ signal[g].step = "free" /\ Room /\ UNCHANGED <<now, log, links>>
    BY <1>1, <2>1 DEF Starts, Started
  <2>3. /\ d \in Work /\ d.step \in {"read", "coalesce"} /\ d.session \in Sessions
        /\ d.step = "coalesce" => d.reason \in Reasons
    BY <1>1, <2>1, StartedIs
  <2> QED BY <2>2, <2>3, StartsStep
<1>2. CASE \E s \in Claude, hook \in Hooks : ClaudeHook(g, s, hook)
  <2>1. PICK s \in Claude, hook \in Hooks : ClaudeHook(g, s, hook)
    BY <1>2
  <2>2. PICK reason, state : /\ reason = FromHook(hook).reason
                             /\ state = [state |-> FromHook(hook).state, detail |-> FromHook(hook).detail,
                                         account |-> TRUE]
    OBVIOUS
  <2>3. state \in StateOf /\ state # NoState /\ reason \in Reasons \cup {""}
    BY <2>2, HookSays DEF StateOf, NoState
  <2>4. Starts(g, s, reason, state)
    BY <2>1, <2>2 DEF ClaudeHook
  <2> QED BY <1>1, <2>3, <2>4, SessionsAssumption
<1>3. CASE \E s \in Sessions \ Claude : CodexNotify(g, s) \/ Bell(g, s)
  BY <1>1, <1>3 DEF CodexNotify, Bell, StateOf, NoState, Reasons, Details
<1>4. CASE \E s \in Sessions : SendKeys(g, s) \/ OpenOnMac(g, s) \/ SignedHandoff(g, s)
  <2>1. PICK s \in Sessions : SendKeys(g, s) \/ OpenOnMac(g, s) \/ SignedHandoff(g, s)
    BY <1>4
  <2>2. CASE SendKeys(g, s)
    <3>1. PICK state : state = [state |-> "working", detail |-> "answered from the board", account |-> FALSE]
      OBVIOUS
    <3>2. state \in StateOf /\ state # NoState
      BY <3>1 DEF StateOf, NoState, States, Details
    <3>3. Starts(g, s, "", state)
      BY <2>2, <3>1 DEF SendKeys
    <3> QED BY <1>1, <3>2, <3>3
  <2>3. CASE OpenOnMac(g, s) \/ SignedHandoff(g, s)
    <3>1. PICK state : state = [state |-> "idle", detail |-> "continued in Terminal", account |-> FALSE]
      OBVIOUS
    <3>2. state \in StateOf /\ state # NoState
      BY <3>1 DEF StateOf, NoState, States, Details
    <3>3. Starts(g, s, "", state)
      BY <2>3, <3>1 DEF OpenOnMac, SignedHandoff
    <3> QED BY <1>1, <3>2, <3>3
  <2> QED BY <2>1, <2>2, <2>3
<1> QED BY <1>2, <1>3, <1>4

\* After its state a process waits to tell, if it has something to tell, or ends.
OnwardOf(d) == IF d.reason = "" THEN Free ELSE [d EXCEPT !.step = "coalesce", !.state = NoState]

LEMMA OnwardIs ==
    ASSUME NEW d \in Work, d.session \in Sessions
    PROVE  /\ OnwardOf(d) \in Work
           /\ Weight(OnwardOf(d).step) <= 1 /\ \A q : Fit(q, OnwardOf(d))
<1>1. CASE d.reason = ""
  <2>1. OnwardOf(d) = Free
    BY <1>1 DEF OnwardOf
  <2> QED BY <2>1, FreeFits
<1>2. CASE d.reason # ""
  <2>1. PICK e : e = [d EXCEPT !.step = "coalesce", !.state = NoState]
    OBVIOUS
  <2>2. NoState \in StateOf
    BY DEF NoState, StateOf, Details
  <2>3. e \in Work /\ e.step = "coalesce" /\ e.session = d.session /\ e.reason = d.reason
    BY <2>1, <2>2 DEF Work, Steps
  <2>4. e.reason \in Reasons
    BY <1>2, <2>3 DEF Work
  <2>5. Weight(e.step) = 1 /\ \A q : Fit(q, e)
    BY <2>3, <2>4 DEF Weight, Fit
  <2>6. OnwardOf(d) = e
    BY <1>2, <2>1 DEF OnwardOf
  <2>7. Weight(e.step) <= 1
    BY <2>5
  <2> QED BY <2>3, <2>5, <2>6, <2>7
<1> QED BY <1>1, <1>2

LEMMA OnwardGoes ==
    ASSUME AttentionTypeOK, NEW g \in Signals
    PROVE  Onward(g) = [signal EXCEPT ![g] = OnwardOf(signal[g])]
<1>1. signal \in [Signals -> Work] /\ signal[g] \in Work
  BY Typed
<1>2. CASE signal[g].reason = ""
  BY <1>2 DEF Onward, OnwardOf, Done
<1>3. CASE signal[g].reason # ""
  BY <1>1, <1>3 DEF Onward, OnwardOf
<1> QED BY <1>2, <1>3

LEMMA AtWork ==
    ASSUME AttentionInv, NEW g \in Signals, signal[g].step # "free"
    PROVE  signal[g] \in Work /\ Fit(log, signal[g]) /\ signal[g].session \in Sessions
BY Typed DEF AttentionInv, SignalsFit, Fit

LEMMA AppendFailsStep ==
    ASSUME AttentionInv, NEW g \in Signals, AppendFails(g)
    PROVE  AttentionInv'
<1>1. AttentionTypeOK /\ signal[g].step = "append" /\ signal[g].session \in Sessions
  BY AtWork DEF AttentionInv, AppendFails
<1>2. PICK d : d = OnwardOf(signal[g])
  OBVIOUS
<1>3. d \in Work /\ Weight(d.step) <= 1 /\ Fit(log, d)
  BY <1>1, <1>2, AtWork, OnwardIs
<1>4. Weight(signal[g].step) = 2 /\ Weight(d.step) <= Weight(signal[g].step)
  BY <1>1, <1>3, WeightsSmall DEF Weight
<1>5. Len(log) + Due + Weight(d.step) - Weight(signal[g].step) <= MaxRows
  BY <1>4, SpareStays
<1>6. UNCHANGED <<now, log>> /\ links' \subseteq Links /\ signal' = [signal EXCEPT ![g] = d]
  BY <1>1, <1>2, OnwardGoes, Typed DEF AppendFails
<1> QED BY <1>3, <1>5, <1>6, QuietStep

LEMMA CoalescedStep ==
    ASSUME AttentionInv, NEW g \in Signals, Coalesced(g)
    PROVE  AttentionInv'
<1>1. AttentionTypeOK /\ signal[g].step = "coalesce"
  BY DEF AttentionInv, Coalesced
<1>2. signal[g] \in Work /\ Fit(log, signal[g]) /\ signal[g].session \in Sessions
  BY <1>1, AtWork
<1>3. PICK d : d = [signal[g] EXCEPT !.step = "decide"]
  OBVIOUS
<1>4. d \in Work /\ d.step = "decide" /\ d.session = signal[g].session /\ d.reason = signal[g].reason
  BY <1>2, <1>3 DEF Work, Steps
<1>5. Fit(log, d)
  BY <1>1, <1>2, <1>4 DEF Fit
<1>6. Len(log) + Due + Weight(d.step) - Weight(signal[g].step) <= MaxRows
  <2>1. Weight(d.step) = 1 /\ Weight(signal[g].step) = 1
    BY <1>1, <1>4 DEF Weight
  <2> QED BY <2>1, SpareStays
<1>7. UNCHANGED <<now, log>> /\ links' \subseteq Links /\ signal' = [signal EXCEPT ![g] = d]
  BY <1>1, <1>3, Typed DEF Coalesced
<1> QED BY <1>4, <1>5, <1>6, <1>7, QuietStep

LEMMA KilledStep ==
    ASSUME AttentionInv, NEW g \in Signals, Killed(g)
    PROVE  AttentionInv'
<1>1. AttentionTypeOK
  BY DEF AttentionInv
<1>2. Free \in Work /\ Fit(log, Free) /\ Weight(Free.step) = 0
  BY FreeFits
<1>3. Len(log) + Due + Weight(Free.step) - Weight(signal[g].step) <= MaxRows
  <2>1. Weight(Free.step) <= Weight(signal[g].step)
    BY <1>2, WeightsSmall
  <2> QED BY <2>1, SpareStays
<1>4. UNCHANGED <<now, log>> /\ links' \subseteq Links /\ signal' = [signal EXCEPT ![g] = Free]
  BY <1>1, Typed DEF Killed, Done
<1> QED BY <1>2, <1>3, <1>4, QuietStep

\* What is read of the log is whether the last notice stands.
LEMMA RecentIsStanding ==
    ASSUME AttentionTypeOK, NEW s
    PROVE  recentlyNotified(s) <=> Standing(log, s, Len(log), now)
<1>1. log \in Seq(StateRow \cup AttentionRow) /\ Len(log) \in Nat
  BY Typed DEF AttentionTypeOK
<1> DEFINE n == Newest(s, {"attention"})
<1>2. /\ \/ n = 0 /\ \A i \in 1..Len(log) : ~About(log, i, s, "attention")
         \/ LastOf(log, n, Len(log), s, "attention")
      /\ \A i : LastOf(log, i, Len(log), s, "attention") => n = i
  BY <1>1, NewestIsLast
<1>3. \A i : LastOf(log, i, Len(log), s, "attention") => i \in 1..Len(log) /\ i # 0 /\ About(log, i, s, "attention")
  BY <1>1 DEF LastOf
<1> HIDE DEF n
<1>4. recentlyNotified(s) <=> n # 0 /\ log[n].sent /\ now - log[n].at <= DedupeWindow
  BY DEF recentlyNotified, n
<1> QED BY <1>2, <1>3, <1>4 DEF Standing

LEMMA DecideStep ==
    ASSUME AttentionInv, NEW g \in Signals, Decide(g)
    PROVE  AttentionInv'
<1>1. AttentionTypeOK /\ signal[g].step = "decide"
  BY DEF AttentionInv, Decide
<1>2. signal[g] \in Work /\ Fit(log, signal[g]) /\ signal[g].session \in Sessions
  BY <1>1, AtWork
<1>3. PICK unwanted \in BOOLEAN, says \in Recommender :
        LET why == decide(g, unwanted, says)
        IN signal' = [signal EXCEPT ![g].why = why, ![g].when = now, ![g].saw = Len(log),
                                    ![g].step = IF why = "" THEN "send" ELSE "record"]
  BY DEF Decide
<1>4. PICK why : why = decide(g, unwanted, says)
  OBVIOUS
<1> DEFINE s == signal[g].session
<1>5. /\ why \in {"not wanted", "already notified", "short turn", "", "recommender"}
      /\ why = "already notified" => recentlyNotified(s)
      /\ why \notin {"already notified", "not wanted"} => ~recentlyNotified(s)
      /\ why = "short turn" => signal[g].reason = "turn-complete"
  BY <1>4 DEF decide, Recommender, shortTurn
<1>6. PICK d : d = [signal[g] EXCEPT !.why = why, !.when = now, !.saw = Len(log),
                                     !.step = IF why = "" THEN "send" ELSE "record"]
  OBVIOUS
<1>7. Len(log) \in 0..MaxRows /\ Len(log) \in Nat /\ now \in 0..MaxTime
  BY <1>1, Typed
<1>8. /\ d \in Work /\ d.step = IF why = "" THEN "send" ELSE "record"
      /\ d.session = s /\ d.reason = signal[g].reason
      /\ d.saw = Len(log) /\ d.when = now /\ d.why = why
  BY <1>2, <1>5, <1>6, <1>7 DEF Work, Steps, Whys
<1>9. Settled(log, d, Len(log))
  <2>1. recentlyNotified(s) <=> Standing(log, s, Len(log), now)
    BY <1>1, RecentIsStanding
  <2> HIDE DEF s
  <2>2. d.saw \in 0..Len(log)
    <3>1. PICK n \in Nat : n = Len(log)
      BY <1>7
    <3>2. d.saw = n
      BY <1>8, <3>1
    <3>3. n \in 0..n
      OBVIOUS
    <3> QED BY <3>1, <3>2, <3>3
  <2> QED BY <1>5, <1>8, <2>1, <2>2 DEF Settled
<1>10. Fit(log, d)
  BY <1>1, <1>2, <1>8, <1>9 DEF Fit
<1>11. Len(log) + Due + Weight(d.step) - Weight(signal[g].step) <= MaxRows
  <2>1. Weight(d.step) = 1 /\ Weight(signal[g].step) = 1
    BY <1>1, <1>8 DEF Weight
  <2> QED BY <2>1, SpareStays
<1>12. UNCHANGED <<now, log>> /\ links' \subseteq Links
  BY <1>1, Typed DEF Decide
<1>13. signal' = [signal EXCEPT ![g] = d]
  BY <1>1, <1>3, <1>4, <1>6, Typed
<1> QED BY <1>8, <1>10, <1>11, <1>12, <1>13, QuietStep

LEMMA SendStep ==
    ASSUME AttentionInv, NEW g \in Signals, Send(g)
    PROVE  AttentionInv'
<1>1. AttentionTypeOK /\ signal[g].step = "send"
  BY DEF AttentionInv, Send
<1>2. signal[g] \in Work /\ Fit(log, signal[g]) /\ signal[g].session \in Sessions
  BY <1>1, AtWork
<1>3. PICK link : link = [session |-> signal[g].session, expires |-> now + Lifetime]
  OBVIOUS
<1>4. link \in Links
  <2>1. now + Lifetime \in 0..MaxTime + Lifetime
    BY <1>1, Typed, DurationsAssumption
  <2> QED BY <1>2, <1>3, <2>1 DEF Links
<1>5. PICK reached \in BOOLEAN, failed \in BOOLEAN :
        /\ reached \/ failed
        /\ links' = IF reached THEN links \cup {link} ELSE links
        /\ signal' = [signal EXCEPT ![g].reached = reached, ![g].step = "record",
                                    ![g].why = IF failed THEN "discord failed" ELSE ""]
  BY <1>3 DEF Send
<1>6. PICK d : d = [signal[g] EXCEPT !.reached = reached, !.step = "record",
                                     !.why = IF failed THEN "discord failed" ELSE ""]
  OBVIOUS
<1>7. /\ d \in Work /\ d.step = "record" /\ d.reached = reached
      /\ d.session = signal[g].session /\ d.reason = signal[g].reason
      /\ d.saw = signal[g].saw /\ d.when = signal[g].when
      /\ d.why = IF failed THEN "discord failed" ELSE ""
  BY <1>2, <1>6 DEF Work, Steps, Whys
<1>8. Settled(log, d, Len(log))
  <2>1. Settled(log, signal[g], Len(log)) /\ signal[g].why = ""
    BY <1>1, <1>2 DEF Fit
  <2> QED BY <1>7, <2>1 DEF Settled
<1>9. Fit(log, d)
  BY <1>1, <1>2, <1>5, <1>7, <1>8 DEF Fit
<1>10. Len(log) + Due + Weight(d.step) - Weight(signal[g].step) <= MaxRows
  <2>1. Weight(d.step) = 1 /\ Weight(signal[g].step) = 1
    BY <1>1, <1>7 DEF Weight
  <2> QED BY <2>1, SpareStays
<1>11. UNCHANGED <<now, log>> /\ links' \subseteq Links
  BY <1>1, <1>4, <1>5, Typed DEF Send
<1>12. signal' = [signal EXCEPT ![g] = d]
  BY <1>1, <1>5, <1>6, Typed
<1> QED BY <1>7, <1>9, <1>10, <1>11, <1>12, QuietStep

-----------------------------------------------------------------------------
(* The state is read, and written if it is news.                             *)

\* What is read of a session is one of the states.
LEMMA CurrentIsState ==
    ASSUME AttentionTypeOK, NEW s
    PROVE  CurrentState(s) \in StateOf
<1> DEFINE i == Newest(s, {"state"})
<1>1. CASE i = 0
  BY <1>1 DEF CurrentState, NoState, StateOf, Details
<1>2. CASE i # 0
  <2>1. LastOf(log, i, Len(log), s, "state")
    BY <1>2, NewestIsLast DEF AttentionTypeOK
  <2>2. i \in 1..Len(log) /\ log[i].kind = "state" /\ log \in Seq(Row)
    BY <2>1, Typed DEF LastOf, About
  <2>3. log[i] \in Row
    BY <2>2
  <2>4. log[i].state \in StateOf
    BY <2>2, <2>3 DEF Row, StateRow, AttentionRow
  <2> QED BY <1>2, <2>4 DEF CurrentState
<1> QED BY <1>1, <1>2

LEMMA ReadStateStep ==
    ASSUME AttentionInv, NEW g \in Signals, ReadState(g)
    PROVE  AttentionInv'
<1>1. AttentionTypeOK /\ signal[g].step = "read"
  BY DEF AttentionInv, ReadState
<1>2. signal[g] \in Work /\ Fit(log, signal[g]) /\ signal[g].session \in Sessions
  BY <1>1, AtWork
<1>3. PICK s \in Sessions : s = signal[g].session
  BY <1>2
<1>4. PICK want : want = Carried(signal[g].state, CurrentState(s))
  OBVIOUS
<1>5. CurrentState(s) \in StateOf
  BY <1>1, CurrentIsState
<1>6. want \in StateOf
  BY <1>2, <1>4, <1>5 DEF Carried, Work, StateOf
<1>7. UNCHANGED <<now, log>> /\ links' \subseteq Links
  BY <1>1, Typed DEF ReadState
<1>8. CASE Unchanged(want, CurrentState(s))
  <2>1. signal' = Onward(g)
    BY <1>3, <1>4, <1>8 DEF ReadState
  <2>2. PICK d : d = OnwardOf(signal[g])
    OBVIOUS
  <2>3. d \in Work /\ Weight(d.step) <= 1 /\ Fit(log, d)
    BY <1>2, <2>2, OnwardIs
  <2>4. Weight(signal[g].step) = 2 /\ Weight(d.step) <= Weight(signal[g].step)
    BY <1>1, <2>3, WeightsSmall DEF Weight
  <2>5. Len(log) + Due + Weight(d.step) - Weight(signal[g].step) <= MaxRows
    BY <2>4, SpareStays
  <2>6. signal' = [signal EXCEPT ![g] = d]
    BY <1>1, <2>1, <2>2, OnwardGoes
  <2> QED BY <1>7, <2>3, <2>5, <2>6, QuietStep
<1>9. CASE ~Unchanged(want, CurrentState(s))
  <2>1. signal' = [signal EXCEPT ![g].step = "append", ![g].state = want]
    BY <1>3, <1>4, <1>9 DEF ReadState
  <2>2. PICK d : d = [signal[g] EXCEPT !.step = "append", !.state = want]
    OBVIOUS
  <2>3. d \in Work /\ d.step = "append" /\ d.session = s /\ d.state = want
    BY <1>2, <1>3, <1>6, <2>2 DEF Work, Steps
  <2>4. Fit(log, d)
    BY <2>3 DEF Fit
  <2>5. Len(log) + Due + Weight(d.step) - Weight(signal[g].step) <= MaxRows
    <3>1. Weight(d.step) = 2 /\ Weight(signal[g].step) = 2
      BY <1>1, <2>3 DEF Weight
    <3> QED BY <3>1, SpareStays
  <2>6. signal' = [signal EXCEPT ![g] = d]
    BY <1>1, <2>1, <2>2, Typed
  <2> QED BY <1>7, <2>3, <2>4, <2>5, <2>6, QuietStep
<1> QED BY <1>8, <1>9

\* A row is written and the process that wrote it owes one less.
LEMMA WriteStep ==
    ASSUME AttentionInv, NEW g \in Signals, NEW d \in Work, NEW row \in Row,
           signal' = [signal EXCEPT ![g] = d], \A q : Fit(q, d),
           Weight(d.step) + 1 <= Weight(signal[g].step),
           log' = Append(log, row), Earned(log, row, Len(log)),
           UNCHANGED <<now, links>>
    PROVE  AttentionInv'
<1>1. AttentionTypeOK
  BY DEF AttentionInv
<1>2. log \in Seq(Row) /\ Len(log) \in Nat /\ signal \in [Signals -> Work]
  BY <1>1, Typed
<1>3. /\ log' \in Seq(Row) /\ Len(log') = Len(log) + 1 /\ log'[Len(log) + 1] = row /\ Grows(log, log')
  BY <1>2, Appended
<1>4. Spare'
  <2>1. Due' = Due + Weight(d.step) - Weight(signal[g].step) /\ Due \in Nat
    BY <1>2, DueStep
  <2>2. Weight(d.step) \in Nat /\ Weight(signal[g].step) \in Nat
    BY WeightsSmall
  <2>3. Len(log) + Due <= MaxRows
    BY DEF AttentionInv, Spare
  <2>4. Len(log') + Due' <= MaxRows
    BY <1>2, <1>3, <2>1, <2>2, <2>3, Zeros
  <2> QED BY <2>4 DEF Spare
<1>5. Len(log') <= MaxRows
  <2>1. Due' \in Nat
    BY <1>2, DueStep
  <2> QED BY <1>2, <1>3, <1>4, <2>1, Zeros DEF Spare
<1>6. signal' \in [Signals -> Work]
  BY <1>2
<1>7. AttentionTypeOK'
  <2>1. log' \in Seq(StateRow \cup AttentionRow)
    BY <1>3 DEF Row
  <2>2. /\ now' \in 0..MaxTime
        /\ links' \subseteq [session : Sessions, expires : 0..MaxTime + Lifetime]
    BY <1>1 DEF AttentionTypeOK
  <2> QED BY <1>5, <1>6, <2>1, <2>2 DEF AttentionTypeOK, Work
<1>8. RowsEarned'
  <2> SUFFICES ASSUME NEW j \in 1..Len(log') PROVE Earned(log', log'[j], j - 1)
    BY DEF RowsEarned
  <2>1. CASE j \in 1..Len(log)
    <3>1. log'[j] = log[j] /\ Earned(log, log[j], j - 1)
      BY <1>3, <2>1 DEF Grows, AttentionInv, RowsEarned
    <3>2. j - 1 \in Nat /\ j - 1 <= Len(log)
      BY <1>2, <2>1
    <3> QED BY <1>3, <3>1, <3>2, EarnedKept
  <2>2. CASE j = Len(log) + 1
    <3>1. log'[j] = row /\ j - 1 = Len(log) /\ Len(log) <= Len(log)
      BY <1>2, <1>3, <2>2
    <3>2. Earned(log', row, Len(log))
      BY <1>2, <1>3, <3>1, EarnedKept
    <3> QED BY <3>1, <3>2
  <2> QED BY <1>2, <1>3, <2>1, <2>2
<1>9. SignalsFit'
  BY <1>2, <1>3, SignalsStep DEF AttentionInv
<1> QED BY <1>4, <1>7, <1>8, <1>9 DEF AttentionInv

LEMMA AppendStateStep ==
    ASSUME AttentionInv, NEW g \in Signals, AppendState(g)
    PROVE  AttentionInv'
<1>1. AttentionTypeOK /\ signal[g].step = "append"
  BY DEF AttentionInv, AppendState
<1>2. signal[g] \in Work /\ Fit(log, signal[g]) /\ signal[g].session \in Sessions
  BY <1>1, AtWork
<1>3. PICK row : row = [kind |-> "state", session |-> signal[g].session, at |-> now,
                        state |-> signal[g].state]
  OBVIOUS
<1>4. log' = Append(log, row) /\ signal' = Onward(g) /\ UNCHANGED <<now, links>>
  BY <1>3 DEF AppendState
<1>5. signal[g].state \in StateOf
  BY <1>2 DEF Work
<1>6. row \in Row /\ row.kind = "state"
  BY <1>1, <1>2, <1>3, <1>5, Typed DEF Row, StateRow
<1>7. Earned(log, row, Len(log))
  BY <1>6 DEF Earned
<1>8. PICK d : d = OnwardOf(signal[g])
  OBVIOUS
<1>9. d \in Work /\ Weight(d.step) <= 1 /\ \A q : Fit(q, d)
  BY <1>2, <1>8, OnwardIs
<1>10. Weight(d.step) + 1 <= Weight(signal[g].step)
  <2>1. Weight(signal[g].step) = 2 /\ Weight(d.step) \in {0, 1, 2}
    BY <1>1, WeightsSmall DEF Weight
  <2> QED BY <1>9, <2>1
<1>11. signal' = [signal EXCEPT ![g] = d]
  BY <1>1, <1>4, <1>8, OnwardGoes
<1> QED BY <1>4, <1>6, <1>7, <1>9, <1>10, <1>11, WriteStep

-----------------------------------------------------------------------------
(* The notice is recorded.                                                   *)

LEMMA RecordStep ==
    ASSUME AttentionInv, NEW g \in Signals, Record(g)
    PROVE  AttentionInv'
<1>1. AttentionTypeOK /\ signal[g].step = "record"
  BY DEF AttentionInv, Record
<1>2. signal[g] \in Work /\ Fit(log, signal[g]) /\ signal[g].session \in Sessions
  BY <1>1, AtWork
<1>3. PICK d : d = signal[g]
  OBVIOUS
<1>4. PICK row : row = [kind |-> "attention", session |-> d.session, at |-> now, reason |-> d.reason,
                        sent |-> d.why = "", why |-> d.why, when |-> d.when, saw |-> d.saw,
                        reached |-> d.reached]
  OBVIOUS
<1>5. log' = Append(log, row) /\ signal' = [signal EXCEPT ![g] = Free] /\ UNCHANGED <<now, links>>
  BY <1>3, <1>4 DEF Record, Outcome, Done
<1>6. /\ d.session \in Sessions /\ d.reason \in Reasons /\ d.why \in Whys /\ d.when \in 0..MaxTime
      /\ d.saw \in 0..MaxRows /\ d.reached \in BOOLEAN /\ now \in 0..MaxTime
  BY <1>1, <1>2, <1>3, Typed DEF Work, Fit
<1>7. /\ row.kind = "attention" /\ row.session = d.session /\ row.reason = d.reason
      /\ row.sent = (d.why = "") /\ row.why = d.why /\ row.when = d.when /\ row.saw = d.saw
      /\ row.reached = d.reached
  BY <1>4
<1>8. row \in AttentionRow
  BY <1>4, <1>6 DEF AttentionRow
<1>9. Earned(log, row, Len(log))
  <2>1. Settled(log, d, Len(log)) /\ (d.why = "" => d.reached)
    BY <1>1, <1>2, <1>3 DEF Fit
  <2>2. Settled(log, row, Len(log))
    BY <1>7, <2>1 DEF Settled
  <2> QED BY <1>7, <2>1, <2>2 DEF Earned
<1>10. Weight(Free.step) + 1 <= Weight(signal[g].step)
  BY <1>1, FreeFits DEF Weight
<1>11. row \in Row
  BY <1>8 DEF Row
<1> QED BY <1>5, <1>9, <1>10, <1>11, FreeFits, WriteStep

-----------------------------------------------------------------------------
(* The invariant holds.                                                      *)

LEMMA InitAttention == AttentionInit => AttentionInv
<1> SUFFICES ASSUME AttentionInit PROVE AttentionInv
  OBVIOUS
<1>1. log = <<>> /\ Len(log) = 0 /\ DOMAIN log = {} /\ log \in Seq(StateRow \cup AttentionRow)
  BY DEF AttentionInit
<1>2. signal \in [Signals -> Work] /\ \A g \in Signals : signal[g] = Free
  BY FreeFits DEF AttentionInit
<1>3. AttentionTypeOK
  <2>1. now \in 0..MaxTime /\ links \subseteq [session : Sessions, expires : 0..MaxTime + Lifetime]
    BY Zeros DEF AttentionInit
  <2>2. Len(log) <= MaxRows
    BY <1>1, Zeros
  <2> QED BY <1>1, <1>2, <2>1, <2>2 DEF AttentionTypeOK, Work
<1>4. RowsEarned
  BY <1>1 DEF RowsEarned
<1>5. SignalsFit
  BY <1>2, FreeFits DEF SignalsFit
<1>6. Spare
  <2>1. Before = {} /\ After = {}
    <3>1. Free.step = "free"
      BY DEF Free
    <3>2. \A g \in Signals : signal[g].step = "free"
      BY <1>2, <3>1
    <3> QED BY <3>2 DEF Before, After
  <2>2. Due = 0
    BY <2>1, FS_EmptySet DEF Due
  <2> QED BY <1>1, <2>2, Zeros DEF Spare
<1> QED BY <1>3, <1>4, <1>5, <1>6 DEF AttentionInv

LEMMA TickStep ==
    ASSUME AttentionInv, Tick
    PROVE  AttentionInv'
<1>1. /\ UNCHANGED <<log, signal>> /\ now' = now + 1 /\ now < MaxTime
      /\ links' \subseteq links
  BY DEF Tick
<1>2. AttentionTypeOK
  BY DEF AttentionInv
<1>3. now' \in 0..MaxTime
  <2>1. now \in 0..MaxTime
    BY <1>2 DEF AttentionTypeOK
  <2> QED BY <1>1, <2>1, Zeros
<1>4. AttentionTypeOK'
  BY <1>1, <1>2, <1>3 DEF AttentionTypeOK
<1>5. RowsEarned' /\ SignalsFit'
  BY <1>1 DEF AttentionInv, RowsEarned, SignalsFit
<1>6. Spare'
  BY <1>1 DEF AttentionInv, Spare, Due, Before, After
<1> QED BY <1>4, <1>5, <1>6 DEF AttentionInv

LEMMA AttentionStutter == AttentionInv /\ UNCHANGED attentionVars => AttentionInv'
<1> SUFFICES ASSUME AttentionInv, UNCHANGED attentionVars PROVE AttentionInv'
  OBVIOUS
<1>1. UNCHANGED <<now, log, links, signal>>
  BY DEF attentionVars
<1>2. AttentionTypeOK'
  BY <1>1 DEF AttentionInv, AttentionTypeOK
<1>3. RowsEarned' /\ SignalsFit'
  BY <1>1 DEF AttentionInv, RowsEarned, SignalsFit
<1>4. Spare'
  BY <1>1 DEF AttentionInv, Spare, Due, Before, After
<1> QED BY <1>2, <1>3, <1>4 DEF AttentionInv

LEMMA NextAttention == AttentionInv /\ [AttentionNext]_attentionVars => AttentionInv'
<1> SUFFICES ASSUME AttentionInv, [AttentionNext]_attentionVars PROVE AttentionInv'
  OBVIOUS
<1>1. CASE Tick
  BY <1>1, TickStep
<1>2. CASE \E g \in Signals :
       \/ \E s \in Claude, hook \in Hooks : ClaudeHook(g, s, hook)
       \/ \E s \in Sessions \ Claude : CodexNotify(g, s) \/ Bell(g, s)
       \/ \E s \in Sessions : SendKeys(g, s) \/ OpenOnMac(g, s) \/ SignedHandoff(g, s)
  BY <1>2, BeginStep
<1>3. CASE \E g \in Signals : ReadState(g) \/ AppendState(g) \/ AppendFails(g) \/ Coalesced(g) \/ Decide(g)
                              \/ Send(g) \/ Record(g) \/ Killed(g)
  BY <1>3, ReadStateStep, AppendStateStep, AppendFailsStep, CoalescedStep, DecideStep,
     SendStep, RecordStep, KilledStep
<1>4. CASE UNCHANGED attentionVars
  BY <1>4, AttentionStutter
<1> QED BY <1>1, <1>2, <1>3, <1>4 DEF AttentionNext

LEMMA AttentionInvariance == AttentionSpec => []AttentionInv
BY InitAttention, NextAttention, PTL DEF AttentionSpec

-----------------------------------------------------------------------------
(* What is told, and what the board shows.                                   *)

\* Every variable keeps its type, and the log never outgrows its bound.
THEOREM AttentionTypeCorrect == AttentionSpec => []AttentionTypeOK
<1>1. AttentionInv => AttentionTypeOK
  BY DEF AttentionInv
<1> QED BY AttentionInvariance, <1>1, PTL

\* A row of the log and what it was decided on.
LEMMA RowIsEarned ==
    ASSUME AttentionInv, NEW s \in Sessions, NEW j \in RowsOf(s, {"attention"})
    PROVE  /\ j \in Nat /\ j \in 1..Len(log) /\ j <= Len(log) /\ j # 0 /\ Len(log) \in Nat
           /\ log[j].session = s /\ log[j].kind = "attention"
           /\ Settled(log, log[j], j - 1) /\ log[j].saw \in Nat /\ log[j].saw < j
           /\ log[j].sent = (log[j].why = "") /\ (log[j].sent => log[j].reached)
<1>1. AttentionTypeOK /\ RowsEarned
  BY DEF AttentionInv
<1>2. Len(log) \in Nat /\ DOMAIN log = 1..Len(log)
  BY <1>1, Typed
<1>3. j \in 1..Len(log) /\ log[j].session = s /\ log[j].kind = "attention"
  BY <1>2 DEF RowsOf
<1>4. Earned(log, log[j], j - 1)
  BY <1>1, <1>3 DEF RowsEarned
<1>5. Settled(log, log[j], j - 1)
  BY <1>3, <1>4 DEF Earned
<1>6. j \in Nat /\ j <= Len(log) /\ j # 0
  BY <1>2, <1>3
<1>7. log[j].saw \in Nat /\ log[j].saw < j
  <2>1. log[j].saw \in 0..(j - 1)
    BY <1>5 DEF Settled
  <2> QED BY <1>6, <2>1
<1>8. log[j].sent = (log[j].why = "") /\ (log[j].sent => log[j].reached)
  BY <1>3, <1>4 DEF Earned
<1> QED BY <1>2, <1>3, <1>5, <1>6, <1>7, <1>8

\* A message that stands when another notice is decided, with nothing between.
LEMMA RepeatStands ==
    ASSUME AttentionInv, NEW s \in Sessions, NEW i \in Told(s), NEW j \in RowsOf(s, {"attention"}),
           Repeats(i, j), ~\E k \in RowsOf(s, {"attention"}) : i < k /\ k < j
    PROVE  Standing(log, s, log[j].saw, log[j].when)
<1>1. /\ i \in Nat /\ i \in 1..Len(log) /\ log[i].session = s /\ log[i].kind = "attention" /\ log[i].sent
  BY RowIsEarned DEF Told
<1>2. /\ j \in Nat /\ log[j].saw \in Nat /\ log[j].saw < j /\ j <= Len(log) /\ Len(log) \in Nat
  BY RowIsEarned
<1>3. i <= log[j].saw /\ log[j].when - log[i].at <= DedupeWindow
  BY DEF Repeats
<1> DEFINE n == log[j].saw
<1>4. i \in 1..n
  BY <1>1, <1>2, <1>3
<1>5. ASSUME NEW k \in 1..n, About(log, k, s, "attention")
      PROVE  k <= i
  <2>1. k \in Nat /\ k < j /\ k \in 1..Len(log)
    BY <1>2, <1>5
  <2>2. k \in RowsOf(s, {"attention"})
    <3>1. DOMAIN log = 1..Len(log)
      BY Typed DEF AttentionInv
    <3> QED BY <1>5, <2>1, <3>1 DEF RowsOf, About
  <2>3. ~(i < k)
    BY <2>1, <2>2
  <2> QED BY <1>1, <2>1, <2>3
<1>6. LastOf(log, i, n, s, "attention")
  BY <1>1, <1>4, <1>5 DEF LastOf, About
<1> QED BY <1>1, <1>3, <1>4, <1>6 DEF Standing

\* A notice is held as a repetition only for a message that did reach the phone
\* (recentlyNotified reads what was sent, and record writes it after the send).
THEOREM SilenceRestsOnAMessage == AttentionSpec => []SilenceIsEarned
<1>1. AttentionInv => SilenceIsEarned
  <2> SUFFICES ASSUME AttentionInv, NEW s \in Sessions, NEW j \in RowsOf(s, {"attention"})
               PROVE  /\ log[j].why = "already notified" => \E i \in Told(s) : Repeats(i, j) /\ log[i].reached
                      /\ log[j].why = "short turn" => log[j].reason = "turn-complete"
    BY DEF SilenceIsEarned
  <2>1. /\ j \in Nat /\ j <= Len(log) /\ Len(log) \in Nat /\ log[j].session = s
        /\ Settled(log, log[j], j - 1) /\ log[j].saw \in Nat /\ log[j].saw < j
    BY RowIsEarned
  <2>2. ASSUME log[j].why = "already notified"
        PROVE  \E i \in Told(s) : Repeats(i, j) /\ log[i].reached
    <3>1. Standing(log, s, log[j].saw, log[j].when)
      BY <2>1, <2>2 DEF Settled
    <3>2. PICK i \in 1..log[j].saw : /\ LastOf(log, i, log[j].saw, s, "attention") /\ log[i].sent
                                     /\ log[j].when - log[i].at <= DedupeWindow
      BY <3>1 DEF Standing
    <3>3. i \in Nat /\ i < j /\ i <= log[j].saw /\ i \in 1..Len(log)
      BY <2>1, <3>2
    <3>4. i \in RowsOf(s, {"attention"})
      <4>1. DOMAIN log = 1..Len(log)
        BY Typed DEF AttentionInv
      <4> QED BY <3>2, <3>3, <4>1 DEF RowsOf, LastOf, About
    <3>5. log[i].reached
      BY <3>2, <3>4, RowIsEarned
    <3> QED BY <3>2, <3>3, <3>4, <3>5 DEF Told, Repeats
  <2>3. log[j].why = "short turn" => log[j].reason = "turn-complete"
    BY <2>1 DEF Settled
  <2> QED BY <2>2, <2>3
<1> QED BY AttentionInvariance, <1>1, PTL

\* The rows of a kind, the last of them, and of those that count the last.
LEMMA LastIsAmong ==
    ASSUME AttentionTypeOK, NEW s, NEW kind, NEW j, LastOf(log, j, Len(log), s, kind)
    PROVE  LET N == RowsOf(s, {kind})
           IN  N \in SUBSET (1..Len(log)) /\ Len(log) \in Nat /\ j \in N /\ \A k \in N : k <= j
<1>1. DOMAIN log = 1..Len(log) /\ Len(log) \in Nat
  BY Typed
<1> QED BY <1>1 DEF LastOf, RowsOf, About

\* The newest five of N, less those of D.
Counted(N, D) == {m \in N : Cardinality({k \in N : k > m}) < 5 /\ m \notin D}

LEMMA NextToLast ==
    ASSUME NEW n \in Nat, NEW N \in SUBSET (1..n), NEW i \in N, NEW j \in N, i < j,
           \A k \in N : k <= j, ~\E k \in N : i < k /\ k < j, NEW D, j \in D, i \notin D
    PROVE  Counted(N, D) # {} /\ Max(Counted(N, D)) = i
<1> DEFINE rows == Counted(N, D)
<1>1. \A k \in N : k \in Nat
  OBVIOUS
<1>2. \A k \in N : k > i => k = j
  BY <1>1
<1>3. {k \in N : k > i} = {j}
  BY <1>1, <1>2
<1>4. i \in rows
  <2>1. Cardinality({k \in N : k > i}) = 1
    BY <1>3, FS_Singleton
  <2> QED BY <2>1 DEF Counted
<1>5. \A k \in rows : k \in Nat /\ k <= i
  BY <1>1, <1>2 DEF Counted
<1>6. rows \in SUBSET (1..n)
  BY DEF Counted
<1> HIDE DEF rows
<1>7. Max(rows) \in rows /\ \A x \in rows : x <= Max(rows)
  BY <1>4, <1>6, MaxIs
<1>8. Max(rows) = i
  <2>1. PICK m : m = Max(rows)
    OBVIOUS
  <2>2. m \in Nat /\ m <= i /\ i <= m /\ i \in Nat
    BY <1>1, <1>4, <1>5, <1>7, <2>1
  <2> QED BY <2>1, <2>2
<1> QED BY <1>4, <1>8 DEF rows

\* The notice that repeats the announced end of a turn is recorded as withheld,
\* and the card passes it over (decide and isDuplicateSignal).
THEOREM FinishedIsShown == AttentionSpec => []FinishedStaysIdle
<1>1. AttentionInv => FinishedStaysIdle
  <2> SUFFICES ASSUME AttentionInv, NEW s \in Sessions, NEW i \in Told(s),
                      NEW j, j = Newest(s, {"attention"}),
                      CurrentState(s) = NoState, log[i].reason = "turn-complete", Repeats(i, j),
                      log[j].why # "not wanted",
                      ~\E k \in RowsOf(s, {"attention"}) : i < k /\ k < j
               PROVE  Card(s) = "idle"
    BY DEF FinishedStaysIdle
  <2> DEFINE N == RowsOf(s, {"attention"})
  <2>1. i \in N /\ log[i].sent /\ i \in Nat /\ i < j /\ i # 0
    <3>1. i \in N /\ log[i].sent /\ i < j
      BY DEF Told, Repeats
    <3>2. i \in Nat /\ i # 0
      BY <3>1, RowIsEarned
    <3> QED BY <3>1, <3>2
  <2>2. LastOf(log, j, Len(log), s, "attention")
    <3>1. ~(\A k \in 1..Len(log) : ~About(log, k, s, "attention"))
      BY <2>1, RowIsEarned DEF About
    <3> QED BY <3>1, NewestIsLast DEF AttentionInv, AttentionTypeOK
  <2>3. N \in SUBSET (1..Len(log)) /\ Len(log) \in Nat /\ j \in N /\ \A k \in N : k <= j
    BY <2>2, LastIsAmong DEF AttentionInv
  <2>4. log[j].why = "already notified" /\ ~log[j].sent
    <3>1. Standing(log, s, log[j].saw, log[j].when)
      BY <2>3, RepeatStands
    <3>2. log[j].session = s /\ Settled(log, log[j], j - 1) /\ log[j].sent = (log[j].why = "")
      BY <2>3, RowIsEarned
    <3> QED BY <3>1, <3>2 DEF Settled
  <2>5. isDuplicateSignal(log[j]) /\ ~isDuplicateSignal(log[i])
    BY <2>1, <2>4 DEF isDuplicateSignal
  <2> DEFINE D == {m \in N : isDuplicateSignal(log[m])}
             rows == Counted(N, D)
  <2>6. j \in D /\ i \notin D
    BY <2>3, <2>5
  <2>7. rows # {} /\ Max(rows) = i
    <3>1. ~\E k \in N : i < k /\ k < j
      OBVIOUS
    <3> HIDE DEF D, N
    <3> QED BY <2>1, <2>3, <2>6, <3>1, NextToLast
  <2>8. rows = {m \in N : Cardinality({k \in N : k > m}) < 5 /\ ~isDuplicateSignal(log[m])}
    BY DEF Counted
  <2>9. lastAttention(s) = IF rows = {} THEN 0 ELSE Max(rows)
    BY <2>8 DEF lastAttention
  <2>10. lastAttention(s) = i /\ i # 0 /\ log[i].reason # "wants-attention"
    BY <2>1, <2>7, <2>9
  <2> QED BY <2>10 DEF Card
<1> QED BY AttentionInvariance, <1>1, PTL

=============================================================================
