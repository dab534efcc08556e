--------------------------- MODULE AcpClientProofs ---------------------------
(***************************************************************************)
(* Nobody is lost on a connection to an agent, whatever the agent writes   *)
(* and whenever it dies: who waits will be told, by the reply that is his, *)
(* and the read loop never stops on a caller's channel.                    *)
(***************************************************************************)
EXTENDS AcpClient, SequenceTheorems, TLAPS

-----------------------------------------------------------------------------
(* The inductive invariant.                                                  *)

\* A reply carries the id of the request it was written for.
Matched(q) == \A i \in 1..Len(q) : q[i].kind = "reply" => q[i].id = q[i].of

\* A request is filed, sent and answered under the number of its channel, which
\* is the number of the call; and numbers come from calls already made.
Numbered ==
    /\ \A e \in pending : e.id = e.ch /\ e.ch <= made
    /\ \A e \in asked : e.id = e.ch
    /\ Matched(inbox)
    /\ reader.step = "handing" => reader.ch \in Ids /\ reader.of = reader.ch /\ reader.ch <= made
    /\ \A k \in wake : k <= made
    /\ \A k \in Ids : made < k => chan[k] = None

\* Two calls under way have two channels.
OwnChannels ==
    /\ \A c \in Callers : call[c].step # "idle" =>
         call[c].ch \in Ids /\ call[c].id = call[c].ch /\ call[c].ch <= made
    /\ \A c, d \in Callers :
         (call[c].step # "idle" /\ call[d].step # "idle" /\ c # d) => call[c].ch # call[d].ch

\* A reply lies in the channel of the call it answers.
RightReplies == \A k \in Ids : (chan[k] # None /\ chan[k].kind = "reply") => chan[k].of = k

\* The four places of a channel somebody waits on.
Filed(k) == \E e \in pending : e.ch = k
Handed(k) == reader.step = "handing" /\ reader.ch = k
Known(k) == Filed(k) \/ Handed(k) \/ k \in wake \/ chan[k] # None

\* Every call under way has its channel there.
Placed ==
    \A c \in Callers, k \in Ids : (call[c].step # "idle" /\ call[c].ch = k) => Known(k)

\* A channel is in one of them at a time, and the list of fail is made once, of
\* what is filed when the connection is closed, and nothing is filed after.
OnePlace ==
    /\ \A k \in Ids : Filed(k) => ~Handed(k) /\ chan[k] = None
    /\ \A k \in Ids : Handed(k) => chan[k] = None
    /\ \A k \in wake : chan[k] = None
    /\ wake # {} => reader.step = "waking"
    /\ closed => pending = {}
    /\ closed <=> reader.step \in {"waking", "ended"}

IInv == TypeOK /\ Numbered /\ OwnChannels /\ RightReplies /\ Placed /\ OnePlace

LEMMA InitIInv == Init => IInv
<1> SUFFICES ASSUME Init PROVE IInv
  OBVIOUS
<1>1. TypeOK
  <2>1. <<>> \in Seq(Message)
    OBVIOUS
  <2>2. /\ Reading \in [step : {"reading", "handing", "failing", "waking", "ended"},
                        ch : 0..MaxCalls, of : 0..MaxCalls]
        /\ Idle \in [step : {"idle", "registered", "waiting"}, id : 0..MaxCalls, ch : 0..MaxCalls]
        /\ 0 \in 0..MaxCalls /\ 0 \in 0..Capacity
    BY BoundsAssumption DEF Reading, Idle
  <2> QED BY <2>1, <2>2 DEF Init, TypeOK
<1>2. Numbered
  BY DEF Init, Numbered, Matched, Reading, Ids
<1>3. OwnChannels /\ RightReplies /\ Placed /\ OnePlace
  BY DEF Init, OwnChannels, RightReplies, Placed, Known, OnePlace, Filed, Handed, Reading, Idle, Ids
<1> QED BY <1>1, <1>2, <1>3 DEF IInv

-----------------------------------------------------------------------------
(* The agent and the process.                                                *)

\* What only concerns the process and what it has written leaves the callers
\* and the loop where they were.
LEMMA AgentSide ==
    ASSUME IInv, UNCHANGED <<loop, calls, chan, asked>>,
           proc' \in {"running", "exited"}, out' \in BOOLEAN, reaping' \in BOOLEAN, reaped' \in BOOLEAN,
           inbox' \in Seq(Message), Matched(inbox')
    PROVE  IInv'
<1> USE DEF loop, calls
<1>1. TypeOK'
  BY DEF IInv, TypeOK
<1>2. Numbered'
  BY DEF IInv, Numbered
<1>3. OwnChannels' /\ RightReplies'
  BY DEF IInv, OwnChannels, RightReplies
<1>4. Placed' /\ OnePlace'
  BY DEF IInv, Placed, Known, OnePlace, Filed, Handed
<1> QED BY <1>1, <1>2, <1>3, <1>4 DEF IInv

LEMMA WrittenStep ==
    ASSUME IInv, NEW m \in Message, m.kind = "reply" => m.id = m.of, Written(m)
    PROVE  IInv'
<1>1. inbox \in Seq(Message) /\ Matched(inbox)
  BY DEF IInv, TypeOK, Numbered
<1>2. inbox' = Append(inbox, m)
  BY DEF Written
<1>3. inbox' \in Seq(Message) /\ Len(inbox') = Len(inbox) + 1
  BY <1>1, <1>2
<1>4. Matched(inbox')
  <2> SUFFICES ASSUME NEW i \in 1..Len(inbox'), inbox'[i].kind = "reply"
               PROVE  inbox'[i].id = inbox'[i].of
    BY DEF Matched
  <2>1. Len(inbox) \in Nat
    BY <1>1
  <2>2. CASE i \in 1..Len(inbox)
    <3>1. inbox'[i] = inbox[i]
      BY <1>1, <1>2, <2>2
    <3> QED BY <1>1, <2>2, <3>1 DEF Matched
  <2>3. CASE i = Len(inbox) + 1
    <3>1. inbox'[i] = m
      BY <1>1, <1>2, <2>3
    <3> QED BY <3>1
  <2> QED BY <1>3, <2>1, <2>2, <2>3
<1>5. /\ UNCHANGED <<loop, calls, chan, asked>>
      /\ proc' = proc /\ out' = out /\ reaping' = reaping /\ reaped' = reaped
  BY DEF Written
<1> QED BY <1>3, <1>4, <1>5, AgentSide DEF IInv, TypeOK

LEMMA AgentWritesStep ==
    ASSUME IInv, AgentWrites
    PROVE  IInv'
<1>1. CASE \E e \in asked : Written([kind |-> "reply", id |-> e.id, of |-> e.ch])
  <2>1. PICK e \in asked : Written([kind |-> "reply", id |-> e.id, of |-> e.ch])
    BY <1>1
  <2>2. e \in Entry /\ e.id = e.ch
    BY DEF IInv, TypeOK, Numbered
  <2>3. [kind |-> "reply", id |-> e.id, of |-> e.ch] \in Message
    BY <2>2 DEF Entry, Message
  <2> QED BY <2>1, <2>2, <2>3, WrittenStep
<1>2. CASE \E kind \in {"update", "garbage"} : Written([kind |-> kind])
  <2>1. PICK kind \in {"update", "garbage"} : Written([kind |-> kind])
    BY <1>2
  <2>2. [kind |-> kind] \in Message
    BY DEF Message
  <2> QED BY <2>1, <2>2, WrittenStep
<1>3. CASE \E r \in Requests : Written([kind |-> "request", req |-> r])
  <2>1. PICK r \in Requests : Written([kind |-> "request", req |-> r])
    BY <1>3
  <2>2. [kind |-> "request", req |-> r] \in Message
    BY DEF Message
  <2> QED BY <2>1, <2>2, WrittenStep
<1> QED BY <1>1, <1>2, <1>3 DEF AgentWrites

\* The process exits, lets go of its output, is reaped or killed.
LEMMA ProcessStep ==
    ASSUME IInv, AgentExits \/ OutputCloses \/ Reap \/ Close
    PROVE  IInv'
<1>1. UNCHANGED <<loop, calls, chan, asked, inbox>>
  BY DEF AgentExits, OutputCloses, Reap, Close
<1>2. /\ proc' \in {"running", "exited"} /\ out' \in BOOLEAN
      /\ reaping' \in BOOLEAN /\ reaped' \in BOOLEAN
  BY DEF AgentExits, OutputCloses, Reap, Close, IInv, TypeOK
<1>3. inbox' \in Seq(Message) /\ Matched(inbox')
  BY <1>1 DEF IInv, TypeOK, Numbered
<1> QED BY <1>1, <1>2, <1>3, AgentSide

-----------------------------------------------------------------------------
(* The callers.                                                              *)

LEMMA RegisterStep ==
    ASSUME IInv, NEW c \in Callers, Register(c)
    PROVE  IInv'
<1> DEFINE n == made + 1
<1> DEFINE mine == [id |-> n, ch |-> n]
<1>0. /\ call[c].step = "idle" /\ ~closed /\ made < MaxCalls
      /\ made' = n /\ pending' = pending \cup {mine}
      /\ call' = [call EXCEPT ![c] = [step |-> "registered", id |-> n, ch |-> n]]
      /\ UNCHANGED <<agent, loop, chan>>
  BY DEF Register, NextId
<1>1. n \in Ids /\ n \in Nat /\ made \in Nat
  BY <1>0, BoundsAssumption DEF IInv, TypeOK, Ids
<1>2. mine \in Entry
  BY <1>1 DEF Entry
<1>3. TypeOK'
  <2>1. [step |-> "registered", id |-> n, ch |-> n]
           \in [step : {"idle", "registered", "waiting"}, id : 0..MaxCalls, ch : 0..MaxCalls]
    BY <1>1, BoundsAssumption DEF Ids
  <2>2. call' \in [Callers -> [step : {"idle", "registered", "waiting"}, id : 0..MaxCalls, ch : 0..MaxCalls]]
    BY <1>0, <2>1 DEF IInv, TypeOK
  <2>3. pending' \subseteq Entry /\ made' \in 0..MaxCalls
    BY <1>0, <1>1, <1>2, BoundsAssumption DEF IInv, TypeOK, Ids
  <2> QED BY <1>0, <2>2, <2>3 DEF IInv, TypeOK, agent, loop
<1>4. Numbered'
  <2>1. \A e \in pending' : e.id = e.ch /\ e.ch <= made'
    BY <1>0, <1>1 DEF IInv, Numbered, TypeOK, Entry, Ids
  <2>2. /\ \A e \in asked' : e.id = e.ch
        /\ Matched(inbox')
    BY <1>0 DEF IInv, Numbered, agent
  <2>3. reader'.step = "handing" => reader'.ch \in Ids /\ reader'.of = reader'.ch /\ reader'.ch <= made'
    BY <1>0, <1>1 DEF IInv, Numbered, loop, Ids
  <2>4. \A k \in wake' : k <= made'
    BY <1>0, <1>1 DEF IInv, Numbered, TypeOK, loop, Ids
  <2>5. \A k \in Ids : made' < k => chan'[k] = None
    BY <1>0, <1>1 DEF IInv, Numbered, Ids
  <2> QED BY <2>1, <2>2, <2>3, <2>4, <2>5 DEF Numbered
<1>5. call'[c] = [step |-> "registered", id |-> n, ch |-> n] /\ \A d \in Callers : d # c => call'[d] = call[d]
  BY <1>0 DEF IInv, TypeOK
<1>6. OwnChannels'
  <2>1. \A d \in Callers : call'[d].step # "idle" =>
          call'[d].ch \in Ids /\ call'[d].id = call'[d].ch /\ call'[d].ch <= made'
    BY <1>0, <1>1, <1>5 DEF IInv, OwnChannels, Ids
  <2>2. \A d \in Callers : (d # c /\ call'[d].step # "idle") => call'[d].ch # n
    BY <1>1, <1>5 DEF IInv, OwnChannels, Ids
  <2>3. \A a, b \in Callers : (a # c /\ b # c /\ call'[a].step # "idle" /\ call'[b].step # "idle" /\ a # b)
          => call'[a].ch # call'[b].ch
    BY <1>5 DEF IInv, OwnChannels
  <2> QED BY <1>5, <2>1, <2>2, <2>3 DEF OwnChannels
<1>7. RightReplies'
  BY <1>0 DEF IInv, RightReplies
<1>8. Placed'
  <2> SUFFICES ASSUME NEW d \in Callers, NEW k \in Ids, call'[d].step # "idle", call'[d].ch = k
               PROVE  Known(k)'
    BY DEF Placed
  <2>1. CASE d = c
    <3>1. k = mine.ch /\ mine \in pending'
      BY <1>0, <1>5, <2>1
    <3>2. Filed(k)'
      BY <3>1 DEF Filed
    <3> QED BY <3>2 DEF Known
  <2>2. CASE d # c
    BY <1>0, <1>5, <2>2 DEF IInv, Placed, Known, Filed, Handed, loop
  <2> QED BY <2>1, <2>2
<1>9. OnePlace'
  <2>1. \A k \in Ids : Filed(k)' => ~Handed(k)' /\ chan'[k] = None
    <3> SUFFICES ASSUME NEW k \in Ids, Filed(k)'
                 PROVE  ~Handed(k)' /\ chan'[k] = None
      OBVIOUS
    <3>1. CASE k = n
      BY <1>0, <1>1, <3>1 DEF IInv, Numbered, Handed, loop, Ids
    <3>2. CASE Filed(k)
      BY <1>0, <3>2 DEF IInv, OnePlace, Handed, loop
    <3> QED BY <1>0, <3>1, <3>2 DEF Filed
  <2>2. \A k \in Ids : Handed(k)' => chan'[k] = None
    BY <1>0 DEF IInv, OnePlace, Handed, loop
  <2>3. \A k \in wake' : chan'[k] = None
    BY <1>0 DEF IInv, OnePlace, loop
  <2> QED BY <1>0, <2>1, <2>2, <2>3 DEF IInv, OnePlace, loop
<1> QED BY <1>3, <1>4, <1>6, <1>7, <1>8, <1>9 DEF IInv

LEMMA SendStep ==
    ASSUME IInv, NEW c \in Callers, Send(c)
    PROVE  IInv'
<1>0. /\ call[c].step = "registered"
      /\ asked' = asked \cup {[id |-> call[c].id, ch |-> call[c].ch]}
      /\ call' = [call EXCEPT ![c].step = "waiting"]
      /\ UNCHANGED <<proc, out, reaping, reaped, inbox, loop, made, pending, chan>>
  BY DEF Send
<1> DEFINE Call == [step : {"idle", "registered", "waiting"}, id : 0..MaxCalls, ch : 0..MaxCalls]
<1>1. call \in [Callers -> Call] /\ call[c].ch \in Ids /\ call[c].id = call[c].ch
  BY <1>0 DEF IInv, TypeOK, OwnChannels
<1>2. /\ call' \in [Callers -> Call]
      /\ \A d \in Callers : /\ call'[d].ch = call[d].ch /\ call'[d].id = call[d].id
                            /\ call'[d].step = "idle" <=> call[d].step = "idle"
  BY <1>0, <1>1
<1> HIDE DEF Call
<1>3. asked' \subseteq Entry /\ \A e \in asked' : e.id = e.ch
  BY <1>0, <1>1 DEF IInv, TypeOK, Numbered, Entry
<1>4. TypeOK'
  BY <1>0, <1>2, <1>3 DEF IInv, TypeOK, Call, loop
<1>5. Numbered'
  BY <1>0, <1>3 DEF IInv, Numbered, loop
<1>6. OwnChannels' /\ RightReplies'
  BY <1>0, <1>2 DEF IInv, OwnChannels, RightReplies
<1>7. Placed'
  BY <1>0, <1>2 DEF IInv, Placed, Known, Filed, Handed, loop
<1>8. OnePlace'
  BY <1>0 DEF IInv, OnePlace, Filed, Handed, loop
<1> QED BY <1>4, <1>5, <1>6, <1>7, <1>8 DEF IInv

\* A call that stops waiting takes out its own entry and no other.
LEMMA ForgetStep ==
    ASSUME IInv, NEW c \in Callers, call[c].step # "idle", Forget(c)
    PROVE  IInv'
<1>0. /\ pending' = {e \in pending : e.id # call[c].id}
      /\ call' = [call EXCEPT ![c] = Idle]
      /\ UNCHANGED <<agent, loop, made, chan>>
  BY DEF Forget
<1>1. call'[c] = Idle /\ \A d \in Callers : d # c => call'[d] = call[d]
  BY <1>0 DEF IInv, TypeOK
<1>2. TypeOK'
  <2>1. Idle \in [step : {"idle", "registered", "waiting"}, id : 0..MaxCalls, ch : 0..MaxCalls]
    BY BoundsAssumption DEF Idle
  <2> QED BY <1>0, <2>1 DEF IInv, TypeOK, agent, loop
<1>3. Numbered'
  BY <1>0 DEF IInv, Numbered, agent, loop
<1>4. OwnChannels' /\ RightReplies'
  BY <1>0, <1>1 DEF IInv, OwnChannels, RightReplies, Idle
<1>5. Placed'
  <2> SUFFICES ASSUME NEW d \in Callers, NEW k \in Ids, call'[d].step # "idle", call'[d].ch = k
               PROVE  Known(k)'
    BY DEF Placed
  <2>1. d # c /\ call'[d] = call[d] /\ call[d].ch # call[c].ch /\ call[c].id = call[c].ch
    BY <1>1 DEF IInv, OwnChannels, Idle
  <2>2. Filed(k) => Filed(k)'
    BY <1>0, <2>1 DEF IInv, Numbered, Filed
  <2> QED BY <1>0, <2>1, <2>2 DEF IInv, Placed, Known, Handed, loop
<1>6. OnePlace'
  BY <1>0 DEF IInv, OnePlace, Filed, Handed, loop
<1> QED BY <1>2, <1>3, <1>4, <1>5, <1>6 DEF IInv

LEMMA ReturnStep ==
    ASSUME IInv, NEW c \in Callers, Return(c)
    PROVE  IInv'
<1> DEFINE mine == call[c].ch
<1>0. /\ call[c].step = "waiting" /\ chan[mine] # None
      /\ call' = [call EXCEPT ![c] = Idle]
      /\ chan' = [chan EXCEPT ![mine] = None]
      /\ UNCHANGED <<agent, loop, made, pending>>
  BY DEF Return
<1>1. call'[c] = Idle /\ \A d \in Callers : d # c => call'[d] = call[d]
  BY <1>0 DEF IInv, TypeOK
<1>2. mine \in Ids
  BY <1>0 DEF IInv, OwnChannels
<1>3. chan'[mine] = None /\ \A k \in Ids : k # mine => chan'[k] = chan[k]
  BY <1>0, <1>2 DEF IInv, TypeOK
<1> HIDE DEF mine
<1>4. TypeOK'
  <2>1. Idle \in [step : {"idle", "registered", "waiting"}, id : 0..MaxCalls, ch : 0..MaxCalls]
    BY BoundsAssumption DEF Idle
  <2> QED BY <1>0, <2>1 DEF IInv, TypeOK, agent, loop
<1>5. Numbered'
  BY <1>0, <1>3 DEF IInv, Numbered, agent, loop
<1>6. OwnChannels' /\ RightReplies'
  BY <1>0, <1>1, <1>3 DEF IInv, OwnChannels, RightReplies, Idle
<1>7. Placed'
  <2> SUFFICES ASSUME NEW d \in Callers, NEW k \in Ids, call'[d].step # "idle", call'[d].ch = k
               PROVE  Known(k)'
    BY DEF Placed
  <2>1. d # c /\ call'[d] = call[d]
    BY <1>1 DEF Idle
  <2>2. call[d].ch = k /\ k # mine
    BY <1>0, <2>1 DEF IInv, OwnChannels, mine
  <2> QED BY <1>0, <1>3, <2>1, <2>2 DEF IInv, Placed, Known, Filed, Handed, loop
<1>8. OnePlace'
  <2>1. \A k \in wake : k \in Ids
    BY DEF IInv, TypeOK
  <2> QED BY <1>0, <1>3, <2>1 DEF IInv, OnePlace, Filed, Handed, loop
<1> QED BY <1>4, <1>5, <1>6, <1>7, <1>8 DEF IInv

-----------------------------------------------------------------------------
(* The read loop.                                                            *)

\* What is left unread is matched still, and its head was.
LEMMA Unread ==
    ASSUME IInv, NEW kind, Takes(kind)
    PROVE  /\ inbox' \in Seq(Message) /\ Matched(inbox')
           /\ Head(inbox) \in Message /\ Head(inbox).kind = kind
           /\ kind = "reply" => Head(inbox).id = Head(inbox).of
<1>1. inbox \in Seq(Message) /\ Matched(inbox) /\ inbox # <<>>
  BY DEF IInv, TypeOK, Numbered, Takes
<1>2. inbox' = Tail(inbox) /\ Head(inbox).kind = kind
  BY DEF Takes
<1>3. /\ inbox' \in Seq(Message) /\ Head(inbox) \in Message /\ Head(inbox) = inbox[1]
      /\ Len(inbox) \in Nat /\ Len(inbox) >= 1 /\ Len(inbox') = Len(inbox) - 1
      /\ \A i \in 1..Len(inbox') : inbox'[i] = inbox[i + 1]
  BY <1>1, <1>2, HeadTailProperties
<1>4. Matched(inbox')
  BY <1>1, <1>3 DEF Matched
<1> QED BY <1>1, <1>2, <1>3, <1>4 DEF Matched

\* A loop that stops reading, or counts something, or takes a request, holds
\* nobody's channel before or after.
LEMMA LoopOnly ==
    ASSUME IInv, UNCHANGED <<calls, chan, asked, wake, closed>>,
           reader.step = "reading", reader' \in {reader, [Reading EXCEPT !.step = "failing"]},
           proc' \in {"running", "exited"}, out' \in BOOLEAN, reaping' \in BOOLEAN, reaped' \in BOOLEAN,
           inbox' \in Seq(Message), Matched(inbox'),
           notify' \in 0..Capacity, served' \in [Requests -> {"none", "running", "answered"}]
    PROVE  IInv'
<1> USE DEF calls
<1>1. /\ reader' \in [step : {"reading", "handing", "failing", "waking", "ended"},
                      ch : 0..MaxCalls, of : 0..MaxCalls]
      /\ reader'.step \in {"reading", "failing"}
  BY BoundsAssumption DEF IInv, TypeOK, Reading
<1>2. TypeOK'
  BY <1>1 DEF IInv, TypeOK
<1>3. Numbered'
  BY <1>1 DEF IInv, Numbered
<1>4. OwnChannels' /\ RightReplies'
  BY DEF IInv, OwnChannels, RightReplies
<1>5. Placed' /\ OnePlace'
  BY <1>1 DEF IInv, Placed, Known, OnePlace, Filed, Handed
<1> QED BY <1>2, <1>3, <1>4, <1>5 DEF IInv

LEMMA ReadUpdateStep ==
    ASSUME IInv, ReadUpdate
    PROVE  IInv'
<1>1. Takes("update")
  BY DEF ReadUpdate
<1>2. inbox' \in Seq(Message) /\ Matched(inbox')
  BY <1>1, Unread
<1>3. notify' \in 0..Capacity /\ reader' \in {reader, [Reading EXCEPT !.step = "failing"]}
  BY BoundsAssumption DEF ReadUpdate, IInv, TypeOK
<1> QED BY <1>1, <1>2, <1>3, LoopOnly DEF ReadUpdate, Takes, IInv, TypeOK

LEMMA ReadRequestStep ==
    ASSUME IInv, ReadRequest
    PROVE  IInv'
<1>1. Takes("request")
  BY DEF ReadRequest
<1>2. inbox' \in Seq(Message) /\ Matched(inbox')
  BY <1>1, Unread
<1>3. served' \in [Requests -> {"none", "running", "answered"}]
  BY DEF ReadRequest, IInv, TypeOK
<1> QED BY <1>1, <1>2, <1>3, LoopOnly DEF ReadRequest, Takes, IInv, TypeOK

LEMMA ReadGarbageStep ==
    ASSUME IInv, ReadGarbage
    PROVE  IInv'
<1>1. Takes("garbage")
  BY DEF ReadGarbage
<1>2. inbox' \in Seq(Message) /\ Matched(inbox')
  BY <1>1, Unread
<1> QED BY <1>1, <1>2, LoopOnly DEF ReadGarbage, Takes, IInv, TypeOK

LEMMA ReadEndStep ==
    ASSUME IInv, ReadEnd \/ ReadCut
    PROVE  IInv'
<1>1. /\ UNCHANGED <<calls, chan, asked, wake, closed, inbox, notify, served>>
      /\ reader.step = "reading" /\ reader' = [Reading EXCEPT !.step = "failing"]
      /\ proc' = proc /\ out' = out /\ reaping' \in BOOLEAN /\ reaped' = reaped
  BY DEF ReadEnd, ReadCut, agent, IInv, TypeOK
<1>2. inbox' \in Seq(Message) /\ Matched(inbox')
  BY <1>1 DEF IInv, TypeOK, Numbered
<1> QED BY <1>1, <1>2, LoopOnly DEF IInv, TypeOK

\* The channel filed under the id goes from the list into the loop's hands.
LEMMA ReadReplyStep ==
    ASSUME IInv, ReadReply
    PROVE  IInv'
<1> DEFINE n == Head(inbox).id
<1>0. Takes("reply")
  BY DEF ReadReply
<1>1. /\ inbox' \in Seq(Message) /\ Matched(inbox')
      /\ n = Head(inbox).of
  BY <1>0, Unread
<1>2. /\ reader.step = "reading"
      /\ pending' = {e \in pending : e.id # n}
      /\ UNCHANGED <<proc, out, reaping, reaped, asked, wake, notify, served, closed, made, call, chan>>
  BY <1>0 DEF ReadReply, Takes, Without
<1>3. \/ \E e \in pending : e.id = n /\ reader' = [step |-> "handing", ch |-> e.ch, of |-> n]
      \/ (\A e \in pending : e.id # n) /\ reader' = reader
  BY <1>1 DEF ReadReply
<1> HIDE DEF n
<1>4. \A e \in pending : e \in Entry /\ e.id \in Ids /\ e.ch \in Ids /\ e.id = e.ch /\ e.ch <= made
  BY DEF IInv, TypeOK, Numbered, Entry
<1>5. \/ /\ \E e \in pending : e.ch = n
         /\ n \in Ids /\ n <= made /\ reader' = [step |-> "handing", ch |-> n, of |-> n]
      \/ (\A e \in pending : e.ch # n) /\ reader' = reader
  BY <1>3, <1>4
<1>6. TypeOK'
  <2>1. reader' \in [step : {"reading", "handing", "failing", "waking", "ended"},
                     ch : 0..MaxCalls, of : 0..MaxCalls]
    BY <1>5, BoundsAssumption DEF IInv, TypeOK, Ids
  <2> QED BY <1>1, <1>2, <2>1 DEF IInv, TypeOK
<1>7. Numbered'
  BY <1>1, <1>2, <1>5 DEF IInv, Numbered
<1>8. OwnChannels' /\ RightReplies'
  BY <1>2 DEF IInv, OwnChannels, RightReplies
<1>9. Placed'
  <2> SUFFICES ASSUME NEW c \in Callers, NEW k \in Ids, call'[c].step # "idle", call'[c].ch = k
               PROVE  Known(k)'
    BY DEF Placed
  <2>1. Filed(k) \/ k \in wake \/ chan[k] # None
    BY <1>2 DEF IInv, Placed, Known, Handed
  <2>2. CASE Filed(k)
    <3>1. PICK e \in pending : e.ch = k
      BY <2>2 DEF Filed
    <3>2. CASE k = n
      BY <1>5, <3>1, <3>2 DEF Known, Handed
    <3>3. CASE k # n
      BY <1>2, <1>4, <3>1, <3>3 DEF Known, Filed
    <3> QED BY <3>2, <3>3
  <2> QED BY <1>2, <2>1, <2>2 DEF Known
<1>10. OnePlace'
  <2>1. \A k \in Ids : Filed(k)' => Filed(k) /\ k # n
    BY <1>2, <1>4 DEF Filed
  <2>2. \A k \in Ids : Handed(k)' => k = n /\ Filed(k)
    BY <1>2, <1>5 DEF Handed, Filed
  <2>3. \A k \in Ids : Filed(k) => chan'[k] = None
    BY <1>2 DEF IInv, OnePlace
  <2>4. wake' = {} /\ ~closed'
    BY <1>2 DEF IInv, OnePlace
  <2>5. reader'.step \notin {"waking", "ended"}
    BY <1>2, <1>5
  <2> QED BY <2>1, <2>2, <2>3, <2>4, <2>5 DEF OnePlace
<1> QED BY <1>6, <1>7, <1>8, <1>9, <1>10 DEF IInv

\* The loop writes to the channel it holds, and lets go of it.
LEMMA HandStep ==
    ASSUME IInv, Hand
    PROVE  IInv'
<1> DEFINE n == reader.ch
<1>0. /\ reader.step = "handing" /\ chan[n] = None
      /\ chan' = [chan EXCEPT ![n] = [kind |-> "reply", of |-> reader.of]]
      /\ reader' = Reading
      /\ UNCHANGED <<agent, wake, notify, served, closed, calls>>
  BY DEF Hand
<1>1. n \in Ids /\ reader.of = n /\ n <= made
  BY <1>0 DEF IInv, Numbered
<1> HIDE DEF n
<1>2. /\ [kind |-> "reply", of |-> n] \in Reply
      /\ [kind |-> "reply", of |-> n] # None
  BY <1>1, NoneAssumption DEF Reply
<1>3. /\ chan'[n] = [kind |-> "reply", of |-> n]
      /\ \A k \in Ids : k # n => chan'[k] = chan[k]
      /\ chan' \in [Ids -> Reply \cup {Failure, None}]
  BY <1>0, <1>1, <1>2 DEF IInv, TypeOK
<1>4. TypeOK'
  <2>1. Reading \in [step : {"reading", "handing", "failing", "waking", "ended"},
                     ch : 0..MaxCalls, of : 0..MaxCalls]
    BY BoundsAssumption DEF Reading
  <2> QED BY <1>0, <1>3, <2>1 DEF IInv, TypeOK, agent, calls
<1>5. Numbered'
  <2>1. \A k \in Ids : made' < k => chan'[k] = None
    <3>1. made \in Nat /\ n \in Nat
      BY <1>1, BoundsAssumption DEF IInv, TypeOK, Ids
    <3>2. \A k \in Ids : made < k => k # n
      BY <1>1, <3>1 DEF Ids
    <3> QED BY <1>0, <1>3, <3>2 DEF IInv, Numbered, calls
  <2>2. reader'.step # "handing"
    BY <1>0 DEF Reading
  <2> QED BY <1>0, <2>1, <2>2 DEF IInv, Numbered, agent, calls
<1>6. OwnChannels'
  BY <1>0 DEF IInv, OwnChannels, calls
<1>7. RightReplies'
  BY <1>3 DEF IInv, RightReplies
<1>8. Placed'
  <2> SUFFICES ASSUME NEW c \in Callers, NEW k \in Ids, call'[c].step # "idle", call'[c].ch = k
               PROVE  Known(k)'
    BY DEF Placed
  <2>1. CASE k = n
    BY <1>2, <1>3, <2>1 DEF Known
  <2>2. CASE k # n
    <3>1. ~Handed(k)
      BY <2>2 DEF Handed, n
    <3> QED BY <1>0, <1>3, <2>2, <3>1 DEF IInv, Placed, Known, Filed, calls
  <2> QED BY <2>1, <2>2
<1>9. OnePlace'
  <2>1. Handed(n) /\ ~Filed(n)
    BY <1>0, <1>1 DEF IInv, OnePlace, Handed, n
  <2>2. \A k \in Ids : Filed(k)' => Filed(k) /\ k # n
    BY <1>0, <2>1 DEF Filed, calls
  <2>3. \A k \in Ids : ~Handed(k)'
    BY <1>0 DEF Handed, Reading
  <2>4. wake' = {} /\ ~closed' /\ reader'.step = "reading"
    BY <1>0 DEF IInv, OnePlace, Reading
  <2> QED BY <1>3, <2>2, <2>3, <2>4 DEF IInv, OnePlace
<1> QED BY <1>4, <1>5, <1>6, <1>7, <1>8, <1>9 DEF IInv

\* Whoever is filed when the connection closes is on the list of those to wake.
LEMMA FailStep ==
    ASSUME IInv, Fail
    PROVE  IInv'
<1>0. /\ reader.step = "failing" /\ reader' = [Reading EXCEPT !.step = "waking"]
      /\ wake' = {e.ch : e \in pending}
      /\ pending' = {} /\ closed' = TRUE
      /\ UNCHANGED <<agent, notify, served, made, call, chan>>
  BY DEF Fail
<1>1. \A e \in pending : e.ch \in Ids /\ e.ch <= made
  BY DEF IInv, TypeOK, Numbered, Entry
<1>2. /\ reader' \in [step : {"reading", "handing", "failing", "waking", "ended"},
                      ch : 0..MaxCalls, of : 0..MaxCalls]
      /\ reader'.step = "waking"
  BY <1>0, BoundsAssumption DEF Reading
<1>3. TypeOK'
  <2>1. wake' \subseteq Ids /\ pending' \subseteq Entry
    BY <1>0, <1>1
  <2> QED BY <1>0, <1>2, <2>1 DEF IInv, TypeOK, agent
<1>4. Numbered'
  BY <1>0, <1>1, <1>2 DEF IInv, Numbered, agent
<1>5. OwnChannels' /\ RightReplies'
  BY <1>0 DEF IInv, OwnChannels, RightReplies
<1>6. \A k \in Ids : k \in wake' <=> Filed(k)
  BY <1>0 DEF Filed
<1>7. Placed'
  <2>1. \A k \in Ids : ~Handed(k) /\ k \notin wake
    BY <1>0 DEF IInv, OnePlace, Handed
  <2> QED BY <1>0, <1>6, <2>1 DEF IInv, Placed, Known
<1>8. OnePlace'
  <2>1. \A k \in wake' : k \in Ids /\ chan'[k] = None
    BY <1>0, <1>1, <1>6 DEF IInv, OnePlace
  <2>2. \A k \in Ids : ~Filed(k)' /\ ~Handed(k)'
    BY <1>0, <1>2 DEF Filed, Handed
  <2> QED BY <1>0, <1>2, <2>1, <2>2 DEF OnePlace
<1> QED BY <1>3, <1>4, <1>5, <1>7, <1>8 DEF IInv

LEMMA WakeStep ==
    ASSUME IInv, NEW n \in wake, Wake(n)
    PROVE  IInv'
<1>0. /\ reader.step = "waking" /\ chan[n] = None
      /\ chan' = [chan EXCEPT ![n] = Failure]
      /\ wake' = wake \ {n}
      /\ UNCHANGED <<agent, reader, notify, served, closed, calls>>
  BY DEF Wake
<1>1. n \in Ids /\ n <= made /\ n \in Nat /\ made \in Nat
  BY BoundsAssumption DEF IInv, TypeOK, Numbered, Ids
<1>2. Failure # None /\ Failure.kind # "reply"
  BY NoneAssumption DEF Failure
<1>3. /\ chan'[n] = Failure
      /\ \A k \in Ids : k # n => chan'[k] = chan[k]
      /\ chan' \in [Ids -> Reply \cup {Failure, None}]
  BY <1>0, <1>1 DEF IInv, TypeOK
<1>4. TypeOK'
  BY <1>0, <1>3 DEF IInv, TypeOK, agent, calls
<1>5. Numbered'
  <2>1. \A k \in Ids : made < k => k # n
    BY <1>1 DEF Ids
  <2> QED BY <1>0, <1>3, <2>1 DEF IInv, Numbered, agent, calls
<1>6. OwnChannels' /\ RightReplies'
  BY <1>0, <1>2, <1>3 DEF IInv, OwnChannels, RightReplies, calls
<1>7. Placed'
  <2> SUFFICES ASSUME NEW c \in Callers, NEW k \in Ids, call'[c].step # "idle", call'[c].ch = k
               PROVE  Known(k)'
    BY DEF Placed
  <2>1. CASE k = n
    BY <1>2, <1>3, <2>1 DEF Known
  <2>2. CASE k # n
    BY <1>0, <1>3, <2>2 DEF IInv, Placed, Known, Filed, Handed, calls
  <2> QED BY <2>1, <2>2
<1>8. OnePlace'
  <2>1. \A k \in Ids : ~Filed(k)' /\ ~Handed(k)'
    BY <1>0 DEF IInv, OnePlace, Filed, Handed, calls
  <2>2. \A k \in wake' : chan'[k] = None
    BY <1>0, <1>3 DEF IInv, TypeOK, OnePlace
  <2> QED BY <1>0, <2>1, <2>2 DEF IInv, OnePlace, calls
<1> QED BY <1>4, <1>5, <1>6, <1>7, <1>8 DEF IInv

LEMMA EndStep ==
    ASSUME IInv, End
    PROVE  IInv'
<1>0. /\ reader.step = "waking" /\ wake = {} /\ reader' = [Reading EXCEPT !.step = "ended"]
      /\ UNCHANGED <<agent, wake, notify, served, closed, calls, chan>>
  BY DEF End
<1>1. /\ reader' \in [step : {"reading", "handing", "failing", "waking", "ended"},
                      ch : 0..MaxCalls, of : 0..MaxCalls]
      /\ reader'.step = "ended"
  BY <1>0, BoundsAssumption DEF Reading
<1>2. TypeOK'
  BY <1>0, <1>1 DEF IInv, TypeOK, agent, calls
<1>3. Numbered'
  BY <1>0, <1>1 DEF IInv, Numbered, agent, calls
<1>4. OwnChannels' /\ RightReplies'
  BY <1>0 DEF IInv, OwnChannels, RightReplies, calls
<1>5. Placed' /\ OnePlace'
  BY <1>0, <1>1 DEF IInv, Placed, Known, OnePlace, Filed, Handed, calls
<1> QED BY <1>2, <1>3, <1>4, <1>5 DEF IInv

\* The session takes notifications and answers the agent's requests.
LEMMA SessionSide ==
    ASSUME IInv, Drain \/ \E r \in Requests : Respond(r)
    PROVE  IInv'
<1>1. UNCHANGED <<agent, reader, wake, closed, calls, chan>>
  BY DEF Drain, Respond
<1>2. notify' \in 0..Capacity /\ served' \in [Requests -> {"none", "running", "answered"}]
  BY BoundsAssumption DEF Drain, Respond, IInv, TypeOK
<1>3. TypeOK' /\ Numbered'
  BY <1>1, <1>2 DEF IInv, TypeOK, Numbered, agent, calls
<1>4. OwnChannels' /\ RightReplies'
  BY <1>1 DEF IInv, OwnChannels, RightReplies, calls
<1>5. Placed' /\ OnePlace'
  BY <1>1 DEF IInv, Placed, Known, OnePlace, Filed, Handed, calls
<1> QED BY <1>3, <1>4, <1>5 DEF IInv

LEMMA Stutter == IInv /\ UNCHANGED vars => IInv'
<1> SUFFICES ASSUME IInv, UNCHANGED vars PROVE IInv'
  OBVIOUS
<1>1. TypeOK' /\ Numbered'
  BY DEF IInv, TypeOK, Numbered, vars
<1>2. OwnChannels' /\ RightReplies'
  BY DEF IInv, OwnChannels, RightReplies, vars
<1>3. Placed' /\ OnePlace'
  BY DEF IInv, Placed, Known, OnePlace, Filed, Handed, vars
<1> QED BY <1>1, <1>2, <1>3 DEF IInv

LEMMA NextIInv == IInv /\ [Next]_vars => IInv'
<1> SUFFICES ASSUME IInv, [Next]_vars PROVE IInv'
  OBVIOUS
<1>1. CASE \E c \in Callers : Register(c) \/ Calling(c) \/ Cancel(c)
  <2> PICK c \in Callers : Register(c) \/ Calling(c) \/ Cancel(c)
    BY <1>1
  <2>1. CASE Register(c)
    BY <2>1, RegisterStep
  <2>2. CASE Send(c)
    BY <2>2, SendStep
  <2>3. CASE SendFails(c) \/ Cancel(c)
    BY <2>3, ForgetStep DEF SendFails, Cancel
  <2>4. CASE Return(c)
    BY <2>4, ReturnStep
  <2> QED BY <2>1, <2>2, <2>3, <2>4 DEF Calling
<1>2. CASE AgentWrites \/ AgentExits \/ OutputCloses \/ Reap \/ Close
  BY <1>2, AgentWritesStep, ProcessStep
<1>3. CASE Read
  BY <1>3, ReadReplyStep, HandStep, ReadUpdateStep, ReadRequestStep, ReadGarbageStep,
     ReadEndStep, FailStep, WakeStep, EndStep DEF Read
<1>4. CASE Drain \/ \E r \in Requests : Respond(r)
  BY <1>4, SessionSide
<1>5. CASE UNCHANGED vars
  BY <1>5, Stutter
<1> QED BY <1>1, <1>2, <1>3, <1>4, <1>5 DEF Next

LEMMA Invariance == Spec => []IInv
BY InitIInv, NextIInv, PTL DEF Spec

-----------------------------------------------------------------------------
(* What the connection promises.                                             *)

\* Every variable keeps its type: the channels hold one message at most, and the
\* queue of notifications is never over its capacity.
THEOREM TypeCorrect == Spec => []TypeOK
<1>1. IInv => TypeOK
  BY DEF IInv
<1> QED BY Invariance, <1>1, PTL

\* A call that waits is known to somebody who will tell it, however the reply, the
\* cancelling of other calls and the end of the connection fall out (Call, and
\* fail taking the list of the pending).
THEOREM NobodyIsOrphaned == Spec => []NoOrphan
<1>1. IInv => NoOrphan
  <2> SUFFICES ASSUME IInv, NEW c \in Callers, call[c].step = "waiting",
                      NEW k, k = call[c].ch
               PROVE  \/ ~closed /\ \E e \in pending : e.ch = k
                      \/ reader.step = "handing" /\ reader.ch = k
                      \/ k \in wake
                      \/ chan[k] # None
    BY DEF NoOrphan
  <2>1. k \in Ids
    BY DEF IInv, OwnChannels
  <2>2. Known(k)
    BY <2>1 DEF IInv, Placed
  <2>3. Filed(k) => ~closed
    BY DEF IInv, OnePlace, Filed
  <2> QED BY <2>2, <2>3 DEF Known, Filed, Handed
<1> QED BY Invariance, <1>1, PTL

\* No call is given the reply of another, though ids are forgotten with calls that
\* give up and the agent may answer late or twice (the ids of Call only go up).
THEOREM RepliesAreOwn == Spec => []ReplyIsOwn
<1>1. IInv => ReplyIsOwn
  BY DEF IInv, ReplyIsOwn, RightReplies, OwnChannels
<1> QED BY Invariance, <1>1, PTL

\* The loop, and fail after it, never find a channel full, which would stop them
\* for good: each is written to once (the buffer of one in Call).
NeverBlocked ==
    /\ reader.step = "handing" => chan[reader.ch] = None
    /\ \A k \in wake : chan[k] = None

THEOREM LoopIsFree == Spec => []NeverBlocked
<1>1. IInv => NeverBlocked
  BY DEF IInv, Numbered, OnePlace, Handed, NeverBlocked
<1> QED BY Invariance, <1>1, PTL

\* When the loop has ended, a call that has not returned has its message already:
\* none is filed on a closed connection, in the loop's hands, or still to wake.
AllTold ==
    reader.step = "ended" => \A c \in Callers : call[c].step # "idle" => chan[call[c].ch] # None

THEOREM EndTellsAll == Spec => []AllTold
<1>1. IInv => AllTold
  <2> SUFFICES ASSUME IInv, reader.step = "ended", NEW c \in Callers, call[c].step # "idle",
                      NEW k, k = call[c].ch
               PROVE  chan[k] # None
    BY DEF AllTold
  <2>1. k \in Ids /\ Known(k)
    BY DEF IInv, OwnChannels, Placed
  <2>2. ~Filed(k) /\ ~Handed(k) /\ k \notin wake
    BY DEF IInv, OnePlace, Filed, Handed
  <2> QED BY <2>1, <2>2 DEF Known
<1> QED BY Invariance, <1>1, PTL
=============================================================================
