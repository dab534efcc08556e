----------------------------- MODULE QueueProofs -----------------------------
(* Proofs about Queue, for any sets of workers, owners, tasks and leases and  *)
(* any bounds.                                                               *)
EXTENDS Queue, TLAPS

\* What a call in flight knows: it names a task once it needs one, it read the
\* clock in the past, and an end still to be journalled is already in the table.
CallsInOrder ==
  \A w \in Workers :
    /\ op[w].step \in {"insert", "readback", "extend", "record"} => op[w].task \in Tasks
    /\ op[w].step = "record" => op[w].event \in Events
    /\ op[w].now <= clock
    /\ op[w].step = "record" /\ op[w].event \in Terminal
         => row[op[w].task].state = op[w].event

\* A task that was never filed was never claimed.
AbsentIsNew ==
  \A t \in Tasks : row[t].state = "absent" => row[t].token = 0 /\ row[t].attempt = 0

\* A row names an owner exactly while it is claimed.
OwnedIffClaimed == \A t \in Tasks : row[t].owner # NoOwner <=> row[t].state = "claimed"

\* The inductive invariant.
IInv ==
  /\ TypeOK
  /\ CallsInOrder
  /\ OwnedIffClaimed
  /\ FenceHolds
  /\ GrantsAgree
  /\ JournalEndsAreTrue
  /\ AbsentIsNew

-----------------------------------------------------------------------------
\* The row a claim writes is a row, field by field.
LEMMA TakenRow ==
  ASSUME NEW r \in Row, NEW owner \in Owners, NEW deadline \in Nat
  PROVE  /\ Taken(r, owner, deadline) \in Row
         /\ Taken(r, owner, deadline).state = "claimed"
         /\ Taken(r, owner, deadline).owner = owner
         /\ Taken(r, owner, deadline).token = r.token + 1
         /\ Taken(r, owner, deadline).attempt = r.attempt + 1
<1>1. r.token + 1 \in Nat /\ r.attempt + 1 \in Nat /\ r.filed \in Nat
  BY DEF Row
<1>2. /\ Taken(r, owner, deadline).state = "claimed"
      /\ Taken(r, owner, deadline).owner = owner
      /\ Taken(r, owner, deadline).token = r.token + 1
      /\ Taken(r, owner, deadline).lease = deadline
      /\ Taken(r, owner, deadline).attempt = r.attempt + 1
      /\ Taken(r, owner, deadline).filed = r.filed
  BY DEF Row, Taken
<1>3. Taken(r, owner, deadline) \in Row
  BY <1>1, <1>2 DEF Row, States, Taken
<1> QED
  BY <1>2, <1>3

\* The row a finish, a release or a cancellation writes is a row.
LEMMA VacatedRow ==
  ASSUME NEW r \in Row, NEW state \in States
  PROVE  /\ Vacated(r, state) \in Row
         /\ Vacated(r, state).state = state
         /\ Vacated(r, state).owner = NoOwner
         /\ Vacated(r, state).token = r.token
         /\ Vacated(r, state).attempt = r.attempt
  BY DEF Vacated, Row

\* The row a first filing writes is a row.
LEMMA FiledRow ==
  ASSUME NEW now \in Nat
  PROVE  /\ [NoRow EXCEPT !.state = "ready", !.filed = now] \in Row
         /\ [NoRow EXCEPT !.state = "ready", !.filed = now].owner = NoOwner
         /\ [NoRow EXCEPT !.state = "ready", !.filed = now].token = 0
         /\ [NoRow EXCEPT !.state = "ready", !.filed = now].attempt = 0
         /\ [NoRow EXCEPT !.state = "ready", !.filed = now].state = "ready"
  BY DEF NoRow, Row, States

\* The row a renewal writes differs in its lease alone.
LEMMA RenewedRow ==
  ASSUME NEW r \in Row, NEW deadline \in Nat
  PROVE  /\ [r EXCEPT !.lease = deadline] \in Row
         /\ [r EXCEPT !.lease = deadline].state = r.state
         /\ [r EXCEPT !.lease = deadline].owner = r.owner
         /\ [r EXCEPT !.lease = deadline].token = r.token
         /\ [r EXCEPT !.lease = deadline].attempt = r.attempt
  BY DEF Row

\* Every local state a call can be put in is one.
LEMMA CallTypes ==
  /\ Idle \in Call
  /\ \A t \in Tasks : \A e \in Events :
       [Idle EXCEPT !.step = "record", !.task = t, !.event = e] \in Call
  /\ \A t \in Tasks : \A n \in Nat :
       [Idle EXCEPT !.step = "insert", !.task = t, !.now = n] \in Call
  /\ \A t \in Tasks : [Idle EXCEPT !.step = "readback", !.task = t] \in Call
  /\ \A n \in Nat : \A l \in Leases :
       [Idle EXCEPT !.step = "take", !.now = n, !.lease = l] \in Call
  BY DEF Idle, Call, Steps, Events

\* The local state of a renewal.
LEMMA RenewCall ==
  ASSUME NEW t \in Tasks, NEW k \in Nat, NEW n \in Nat, NEW l \in Leases
  PROVE  [Idle EXCEPT !.step = "extend", !.task = t, !.token = k,
                      !.now = n, !.lease = l] \in Call
  BY DEF Idle, Call, Steps, Events

-----------------------------------------------------------------------------
\* The initial state satisfies the inductive invariant.
LEMMA InitIInv == Init => IInv
<1> SUFFICES ASSUME Init PROVE IInv
  OBVIOUS
<1>1. TypeOK
  BY CallTypes DEF Init, TypeOK, NoRow, Row, States
<1>2. CallsInOrder
  BY DEF Init, CallsInOrder, Idle
<1>3. OwnedIffClaimed /\ FenceHolds /\ GrantsAgree /\ JournalEndsAreTrue /\ AbsentIsNew
  BY DEF Init, OwnedIffClaimed, FenceHolds, GrantsAgree, JournalEndsAreTrue, AbsentIsNew,
         NoRow, Terminal
<1> QED
  BY <1>1, <1>2, <1>3 DEF IInv

\* The deadline a claim or a renewal computes is a time.
LEMMA DeadlineType ==
  ASSUME TypeOK, NEW w \in Workers
  PROVE  op[w].now + op[w].lease \in Nat
<1>1. op[w].now \in Nat /\ op[w].lease \in Leases \cup {0}
  BY DEF TypeOK, Call
<1>2. op[w].lease \in Nat
  BY <1>1, LeasesAssumption
<1> QED
  BY <1>1, <1>2

\* Every step keeps the types.
LEMMA StepTypeOK ==
  ASSUME TypeOK, CallsInOrder, [Next]_vars
  PROVE  TypeOK'
<1>1. ASSUME NEW w \in Workers, NEW t \in Tasks, BeginFile(w, t)
      PROVE  TypeOK'
  BY <1>1, CallTypes DEF BeginFile, TypeOK
<1>2. ASSUME NEW w \in Workers, FileInsert(w)
      PROVE  TypeOK'
  <2>1. op[w].task \in Tasks /\ op[w].now \in Nat
    BY <1>2 DEF FileInsert, CallsInOrder, TypeOK, Call
  <2>2. [NoRow EXCEPT !.state = "ready", !.filed = op[w].now] \in Row
    BY <2>1, FiledRow
  <2> QED
    BY <1>2, <2>1, <2>2, CallTypes DEF FileInsert, TypeOK, Recording, Events
<1>3. ASSUME NEW w \in Workers, NEW lease \in Leases, BeginClaim(w, lease)
      PROVE  TypeOK'
  BY <1>3, CallTypes DEF BeginClaim, TypeOK
<1>4. ASSUME NEW w \in Workers, ClaimUpdate(w)
      PROVE  TypeOK'
  <2>1. PICK t \in Tasks :
          /\ row' = [row EXCEPT ![t] = Taken(row[t], OwnerOf[w], op[w].now + op[w].lease)]
          /\ op' = [op EXCEPT ![w] = [Idle EXCEPT !.step = "readback", !.task = t]]
          /\ UNCHANGED <<grants, journal, clock>>
    BY <1>4 DEF ClaimUpdate, Oldest, Claimable
  <2>2. Taken(row[t], OwnerOf[w], op[w].now + op[w].lease) \in Row
    BY DeadlineType, OwnersAssumption, TakenRow DEF TypeOK
  <2> QED
    BY <2>1, <2>2, CallTypes DEF TypeOK
<1>5. ASSUME NEW w \in Workers, FileExisting(w) \/ ClaimNoWork(w) \/ ClaimLost(w) \/ Crash(w)
      PROVE  TypeOK'
  BY <1>5, CallTypes DEF FileExisting, ClaimNoWork, ClaimLost, Crash, TypeOK
<1>6. ASSUME NEW w \in Workers, ClaimRead(w)
      PROVE  TypeOK'
  <2>1. PICK t \in Tasks :
          /\ grants' = grants \cup {[worker |-> w, task |-> t, token |-> row[t].token]}
          /\ Recording(w, t, "claimed")
          /\ UNCHANGED <<row, journal, clock>>
    BY <1>6 DEF ClaimRead, LatestLease, OwnedBy
  <2>2. [worker |-> w, task |-> t, token |-> row[t].token] \in Grant
    BY DEF TypeOK, Row, Grant
  <2>3. [Idle EXCEPT !.step = "record", !.task = t, !.event = "claimed"] \in Call
    BY CallTypes DEF Events
  <2> QED
    BY <2>1, <2>2, <2>3 DEF TypeOK, Recording
<1>7. ASSUME NEW w \in Workers, NEW g \in grants, NEW lease \in Leases, BeginRenew(w, g, lease)
      PROVE  TypeOK'
  <2>1. g.task \in Tasks /\ g.token \in Nat /\ clock \in Nat
    BY DEF TypeOK, Grant
  <2> QED
    BY <1>7, <2>1, RenewCall DEF BeginRenew, TypeOK
<1>8. ASSUME NEW w \in Workers, RenewUpdate(w)
      PROVE  TypeOK'
  <2>1. op[w].task \in Tasks
    BY <1>8 DEF RenewUpdate, CallsInOrder
  <2>2. [row[op[w].task] EXCEPT !.lease = op[w].now + op[w].lease] \in Row
    BY <2>1, DeadlineType, RenewedRow DEF TypeOK
  <2> QED
    BY <1>8, <2>1, <2>2, CallTypes DEF RenewUpdate, TypeOK
<1>9. ASSUME NEW w \in Workers, NEW g \in grants, NEW outcome \in Outcomes, Finish(w, g, outcome)
      PROVE  TypeOK'
  <2>1. g.task \in Tasks /\ outcome \in States /\ outcome \in Events
    BY OutcomesAssumption DEF TypeOK, Grant, States, Events, Terminal
  <2> QED
    BY <1>9, <2>1, CallTypes, VacatedRow DEF Finish, TypeOK, Recording
<1>10. ASSUME NEW w \in Workers, NEW g \in grants, Release(w, g)
       PROVE  TypeOK'
  <2>1. g.task \in Tasks /\ "ready" \in States /\ "released" \in Events
    BY DEF TypeOK, Grant, States, Events, Terminal
  <2> QED
    BY <1>10, <2>1, CallTypes, VacatedRow DEF Release, TypeOK, Recording
<1>11. ASSUME NEW w \in Workers, NEW t \in Tasks, CancelReady(w, t)
       PROVE  TypeOK'
  <2>1. "canceled" \in States /\ "canceled" \in Events
    BY DEF States, Events, Terminal
  <2> QED
    BY <1>11, <2>1, CallTypes, VacatedRow DEF CancelReady, TypeOK, Recording
<1>12. ASSUME NEW w \in Workers, Record(w)
       PROVE  TypeOK'
  BY <1>12, CallTypes DEF Record, CallsInOrder, TypeOK
<1>13. CASE Tick
  BY <1>13 DEF Tick, TypeOK
<1>14. CASE UNCHANGED vars
  BY <1>14 DEF vars, TypeOK
<1> QED
  BY <1>1, <1>2, <1>3, <1>4, <1>5, <1>6, <1>7, <1>8, <1>9, <1>10, <1>11, <1>12, <1>13, <1>14
  DEF Next

-----------------------------------------------------------------------------
\* The parts of the inductive invariant that speak of rows and claims.
RowInv ==
  OwnedIffClaimed /\ FenceHolds /\ GrantsAgree /\ JournalEndsAreTrue /\ AbsentIsNew

\* A step that leaves the table, the claims and the log alone and moves one
\* worker to a local state with nothing left to journal keeps the invariant.
LEMMA LocalStep ==
  ASSUME IInv, NEW w \in Workers, NEW c \in Call,
         op' = [op EXCEPT ![w] = c], UNCHANGED <<row, grants, journal, clock>>,
         c.step # "record", c.step \in {"insert", "readback", "extend"} => c.task \in Tasks,
         c.now <= clock
  PROVE  CallsInOrder' /\ RowInv'
<1>1. CallsInOrder'
  BY DEF IInv, TypeOK, CallsInOrder
<1>2. RowInv'
  BY DEF IInv, RowInv, OwnedIffClaimed, FenceHolds, GrantsAgree, JournalEndsAreTrue,
         AbsentIsNew, Holds
<1> QED
  BY <1>1, <1>2

\* A step that changes one task that is not closed, and has its worker journal
\* the change next or nothing, keeps the calls in order.
LEMMA OpenTaskStep ==
  ASSUME TypeOK, CallsInOrder, NEW w \in Workers, NEW t \in Tasks, NEW r \in Row,
         NEW c \in Call,
         row[t].state \notin Terminal,
         row' = [row EXCEPT ![t] = r], op' = [op EXCEPT ![w] = c],
         UNCHANGED clock, c.now <= clock, c.task \in Tasks \/ c = Idle,
         c.step = "record" => c.event \in Events /\ c.task = t,
         c.step = "record" /\ c.event \in Terminal => r.state = c.event
  PROVE  CallsInOrder'
<1> SUFFICES ASSUME NEW v \in Workers
             PROVE  CallsInOrder!(v)'
  BY DEF CallsInOrder
<1>1. CASE v = w
  BY <1>1 DEF TypeOK, CallsInOrder, Idle
<1>2. CASE v # w
  <2>1. op'[v] = op[v]
    BY <1>2 DEF TypeOK
  <2>2. op[v].step = "record" /\ op[v].event \in Terminal => op[v].task # t
    BY DEF CallsInOrder
  <2>3. \A u \in Tasks : u # t => row'[u] = row[u]
    BY DEF TypeOK
  <2> QED
    BY <2>1, <2>2, <2>3 DEF CallsInOrder
<1> QED
  BY <1>1, <1>2

\* The row part of the invariant survives a step that vacates a claimed task,
\* opens an absent one or closes a ready one: no token moves.
LEMMA VacateStep ==
  ASSUME TypeOK, RowInv, NEW t \in Tasks, NEW r \in Row,
         row[t].state \notin Terminal,
         row' = [row EXCEPT ![t] = r], UNCHANGED <<grants, journal>>,
         r.owner = NoOwner, r.state \notin {"claimed", "absent"}, r.token = row[t].token
  PROVE  RowInv'
<1>0. \A u \in Tasks : u # t => row'[u] = row[u]
  BY DEF TypeOK
<1>00. row'[t] = r
  BY DEF TypeOK
<1>1. OwnedIffClaimed'
  BY <1>0, <1>00 DEF RowInv, OwnedIffClaimed
<1>2. FenceHolds'
  <2> SUFFICES ASSUME NEW g \in grants
               PROVE  /\ g.token <= row'[g.task].token
                      /\ Holds(g.task, g.token)' => row'[g.task].owner = OwnerOf[g.worker]
    BY DEF FenceHolds, Holds
  <2>1. g.task \in Tasks /\ g.token \in Nat
    BY DEF TypeOK, Grant
  <2>2. CASE g.task = t
    BY <2>1, <2>2, <1>00 DEF RowInv, FenceHolds, Holds, TypeOK, Row
  <2>3. CASE g.task # t
    BY <2>1, <2>3, <1>0 DEF RowInv, FenceHolds, Holds
  <2> QED
    BY <2>2, <2>3
<1>3. GrantsAgree'
  BY DEF RowInv, GrantsAgree
<1>4. JournalEndsAreTrue'
  BY <1>0 DEF RowInv, JournalEndsAreTrue
<1>5. AbsentIsNew'
  BY <1>0, <1>00 DEF RowInv, AbsentIsNew
<1> QED
  BY <1>1, <1>2, <1>3, <1>4, <1>5 DEF RowInv

\* The row part survives a claim: the new token is above every claim ever told.
LEMMA TakeStep ==
  ASSUME TypeOK, RowInv, NEW t \in Tasks, NEW r \in Row,
         row[t].state \notin Terminal,
         row' = [row EXCEPT ![t] = r], UNCHANGED <<grants, journal>>,
         r.owner \in Owners, r.state = "claimed", r.token = row[t].token + 1
  PROVE  RowInv'
<1>0. /\ \A u \in Tasks : u # t => row'[u] = row[u]
      /\ row'[t] = r
  BY DEF TypeOK
<1>1. OwnedIffClaimed'
  BY <1>0, OwnersAssumption DEF RowInv, OwnedIffClaimed
<1>2. FenceHolds'
  <2> SUFFICES ASSUME NEW g \in grants
               PROVE  /\ g.token <= row'[g.task].token
                      /\ Holds(g.task, g.token)' => row'[g.task].owner = OwnerOf[g.worker]
    BY DEF FenceHolds, Holds
  <2>1. g.task \in Tasks /\ g.token \in Nat /\ row[t].token \in Nat
    BY DEF TypeOK, Grant, Row
  <2>2. CASE g.task = t
    <3>1. g.token <= row[t].token
      BY <2>2 DEF RowInv, FenceHolds
    <3>2. g.token < r.token
      BY <2>1, <3>1
    <3> QED
      BY <2>1, <2>2, <3>2, <1>0 DEF Holds
  <2>3. CASE g.task # t
    BY <2>1, <2>3, <1>0 DEF RowInv, FenceHolds, Holds
  <2> QED
    BY <2>2, <2>3
<1>3. GrantsAgree'
  BY DEF RowInv, GrantsAgree
<1>4. JournalEndsAreTrue'
  BY <1>0 DEF RowInv, JournalEndsAreTrue
<1>5. AbsentIsNew'
  BY <1>0 DEF RowInv, AbsentIsNew
<1> QED
  BY <1>1, <1>2, <1>3, <1>4, <1>5 DEF RowInv

\* The row part survives a renewal, which moves a deadline and nothing else.
LEMMA RenewStep ==
  ASSUME TypeOK, RowInv, NEW t \in Tasks, NEW r \in Row,
         row' = [row EXCEPT ![t] = r], UNCHANGED <<grants, journal>>,
         r.owner = row[t].owner, r.state = row[t].state, r.token = row[t].token,
         r.attempt = row[t].attempt
  PROVE  RowInv'
<1>1. \A u \in Tasks : /\ row'[u].owner = row[u].owner
                       /\ row'[u].state = row[u].state
                       /\ row'[u].token = row[u].token
                       /\ row'[u].attempt = row[u].attempt
  BY DEF TypeOK
<1>2. \A g \in grants : g.task \in Tasks
  BY DEF TypeOK, Grant
<1> QED
  BY <1>1, <1>2
  DEF RowInv, OwnedIffClaimed, FenceHolds, GrantsAgree, JournalEndsAreTrue, AbsentIsNew, Holds

\* The row part survives a read-back: it tells a claim that the row itself
\* holds for the reader's owner, so it agrees with every earlier one.
LEMMA ReadStep ==
  ASSUME TypeOK, RowInv, NEW w \in Workers, NEW t \in OwnedBy(OwnerOf[w]),
         grants' = grants \cup {[worker |-> w, task |-> t, token |-> row[t].token]},
         UNCHANGED <<row, journal>>
  PROVE  RowInv'
<1> DEFINE n == [worker |-> w, task |-> t, token |-> row[t].token]
<1>1. t \in Tasks /\ row[t].owner = OwnerOf[w] /\ OwnerOf[w] # NoOwner /\ row[t].token \in Nat
  BY OwnersAssumption DEF OwnedBy, TypeOK, Row
<1>2. row[t].state = "claimed"
  BY <1>1 DEF RowInv, OwnedIffClaimed
<1>3. FenceHolds'
  BY <1>1 DEF RowInv, FenceHolds, Holds
<1>4. ASSUME NEW g \in grants, g.task = t, g.token = row[t].token
      PROVE  OwnerOf[g.worker] = OwnerOf[w]
  BY <1>1, <1>2, <1>4 DEF RowInv, FenceHolds, Holds
<1>5. GrantsAgree'
  <2> SUFFICES ASSUME NEW g \in grants', NEW h \in grants', g.task = h.task, g.token = h.token
               PROVE  OwnerOf[g.worker] = OwnerOf[h.worker]
    BY DEF GrantsAgree
  <2>1. CASE g \in grants /\ h \in grants
    BY <2>1 DEF RowInv, GrantsAgree
  <2>2. CASE g = n /\ h = n
    BY <2>2
  <2>3. CASE g \in grants /\ h = n
    BY <2>3, <1>4
  <2>4. CASE g = n /\ h \in grants
    BY <2>4, <1>4
  <2> QED
    BY <2>1, <2>2, <2>3, <2>4
<1>6. OwnedIffClaimed' /\ JournalEndsAreTrue' /\ AbsentIsNew'
  BY DEF RowInv, OwnedIffClaimed, JournalEndsAreTrue, AbsentIsNew
<1> QED
  BY <1>3, <1>5, <1>6 DEF RowInv

\* Every step keeps the inductive invariant.
LEMMA StepIInv == IInv /\ [Next]_vars => IInv'
<1> SUFFICES ASSUME IInv, [Next]_vars
             PROVE  CallsInOrder' /\ RowInv'
  BY StepTypeOK DEF IInv, RowInv
<1>0. TypeOK /\ CallsInOrder /\ RowInv
  BY DEF IInv, RowInv
<1>1. ASSUME NEW w \in Workers, NEW t \in Tasks, BeginFile(w, t)
      PROVE  CallsInOrder' /\ RowInv'
  <2> DEFINE c == [Idle EXCEPT !.step = "insert", !.task = t, !.now = clock]
  <2>1. c \in Call /\ c.step = "insert" /\ c.task = t /\ c.now = clock
    BY <1>0, CallTypes DEF TypeOK, Idle
  <2>2. c.now <= clock
    BY <1>0, <2>1 DEF TypeOK
  <2> HIDE DEF c
  <2>3. op' = [op EXCEPT ![w] = c] /\ UNCHANGED <<row, grants, journal, clock>>
    BY <1>1 DEF BeginFile, c
  <2> QED
    BY <2>1, <2>2, <2>3, LocalStep
<1>2. ASSUME NEW w \in Workers, FileInsert(w)
      PROVE  CallsInOrder' /\ RowInv'
  <2> DEFINE t == op[w].task
             r == [NoRow EXCEPT !.state = "ready", !.filed = op[w].now]
             c == [Idle EXCEPT !.step = "record", !.task = t, !.event = "filed"]
  <2>1. t \in Tasks /\ op[w].now \in Nat /\ row[t].state = "absent"
    BY <1>0, <1>2 DEF FileInsert, CallsInOrder, TypeOK, Call
  <2>2. c \in Call /\ c.step = "record" /\ c.task = t /\ c.event = "filed" /\ c.now = 0
    BY <2>1, CallTypes DEF Events, Idle
  <2>3. r \in Row /\ r.owner = NoOwner /\ r.token = 0 /\ r.state = "ready"
    BY <2>1, FiledRow
  <2>4. row' = [row EXCEPT ![t] = r] /\ op' = [op EXCEPT ![w] = c]
          /\ UNCHANGED <<grants, journal, clock>>
    BY <1>2 DEF FileInsert, Recording
  <2>5. clock \in Nat /\ "filed" \in Events /\ "filed" \notin Terminal /\ "absent" \notin Terminal
    BY <1>0 DEF TypeOK, Events, Terminal
  <2>6. row[t].token = 0
    BY <1>0, <2>1 DEF RowInv, AbsentIsNew
  <2> HIDE DEF t, r, c
  <2>7. CallsInOrder'
    <3>1. c.now <= clock /\ UNCHANGED clock /\ row[t].state \notin Terminal
      BY <2>1, <2>2, <2>4, <2>5
    <3>2. c.step = "record" => c.event \in Events /\ c.task = t
      BY <2>2, <2>5
    <3>3. ~(c.step = "record" /\ c.event \in Terminal)
      BY <2>2, <2>5
    <3> QED
      BY <1>0, <2>1, <2>2, <2>3, <2>4, <3>1, <3>2, <3>3, OpenTaskStep
  <2>8. RowInv'
    BY <1>0, <2>1, <2>3, <2>4, <2>5, <2>6, VacateStep
  <2> QED
    BY <2>7, <2>8
<1>3. ASSUME NEW w \in Workers, NEW lease \in Leases, BeginClaim(w, lease)
      PROVE  CallsInOrder' /\ RowInv'
  <2> DEFINE c == [Idle EXCEPT !.step = "take", !.now = clock, !.lease = lease]
  <2>1. c \in Call /\ c.step = "take" /\ c.now = clock
    BY <1>0, CallTypes DEF TypeOK, Idle
  <2>2. c.now <= clock
    BY <1>0, <2>1 DEF TypeOK
  <2> HIDE DEF c
  <2>3. op' = [op EXCEPT ![w] = c] /\ UNCHANGED <<row, grants, journal, clock>>
    BY <1>3 DEF BeginClaim, c
  <2> QED
    BY <2>1, <2>2, <2>3, LocalStep
<1>4. ASSUME NEW w \in Workers, ClaimUpdate(w)
      PROVE  CallsInOrder' /\ RowInv'
  <2>1. PICK t \in Tasks :
          /\ row[t].state \in {"ready", "claimed"}
          /\ row' = [row EXCEPT ![t] = Taken(row[t], OwnerOf[w], op[w].now + op[w].lease)]
          /\ op' = [op EXCEPT ![w] = [Idle EXCEPT !.step = "readback", !.task = t]]
          /\ UNCHANGED <<grants, journal, clock>>
    BY <1>4 DEF ClaimUpdate, Oldest, Claimable
  <2> DEFINE r == Taken(row[t], OwnerOf[w], op[w].now + op[w].lease)
             c == [Idle EXCEPT !.step = "readback", !.task = t]
  <2>2. c \in Call /\ c.step = "readback" /\ c.task = t /\ c.now = 0
    BY CallTypes DEF Idle
  <2>3. OwnerOf[w] \in Owners /\ row[t] \in Row
    BY <1>0, OwnersAssumption DEF TypeOK
  <2>4. r \in Row /\ r.state = "claimed" /\ r.owner \in Owners /\ r.token = row[t].token + 1
    BY <1>0, <2>3, DeadlineType, TakenRow
  <2>5. clock \in Nat /\ row[t].state \notin Terminal
    BY <1>0, <2>1 DEF TypeOK, Terminal
  <2> HIDE DEF r, c
  <2>6. row' = [row EXCEPT ![t] = r] /\ op' = [op EXCEPT ![w] = c]
    BY <2>1 DEF r, c
  <2>7. CallsInOrder'
    <3>1. c.now <= clock /\ UNCHANGED clock /\ c.step # "record"
      BY <2>1, <2>2, <2>5
    <3> QED
      BY <1>0, <2>2, <2>4, <2>5, <2>6, <3>1, OpenTaskStep
  <2>8. RowInv'
    BY <1>0, <2>1, <2>4, <2>5, <2>6, TakeStep
  <2> QED
    BY <2>7, <2>8
<1>5. ASSUME NEW w \in Workers, FileExisting(w) \/ ClaimNoWork(w) \/ ClaimLost(w) \/ Crash(w)
      PROVE  CallsInOrder' /\ RowInv'
  <2>1. Idle \in Call /\ Idle.step = "idle" /\ Idle.now = 0
    BY CallTypes DEF Idle
  <2>2. Idle.now <= clock
    BY <1>0, <2>1 DEF TypeOK
  <2>3. op' = [op EXCEPT ![w] = Idle] /\ UNCHANGED <<row, grants, journal, clock>>
    BY <1>5 DEF FileExisting, ClaimNoWork, ClaimLost, Crash
  <2> QED
    BY <2>1, <2>2, <2>3, LocalStep
<1>6. ASSUME NEW w \in Workers, ClaimRead(w)
      PROVE  CallsInOrder' /\ RowInv'
  <2>1. PICK t \in OwnedBy(OwnerOf[w]) :
          /\ grants' = grants \cup {[worker |-> w, task |-> t, token |-> row[t].token]}
          /\ Recording(w, t, "claimed")
          /\ UNCHANGED <<row, journal, clock>>
    BY <1>6 DEF ClaimRead, LatestLease
  <2>2. RowInv'
    BY <1>0, <2>1, ReadStep
  <2>3. CallsInOrder'
    BY <1>0, <2>1 DEF CallsInOrder, Recording, OwnedBy, TypeOK, Idle, Events, Terminal
  <2> QED
    BY <2>2, <2>3
<1>7. ASSUME NEW w \in Workers, NEW g \in grants, NEW lease \in Leases, BeginRenew(w, g, lease)
      PROVE  CallsInOrder' /\ RowInv'
  <2> DEFINE c == [Idle EXCEPT !.step = "extend", !.task = g.task, !.token = g.token,
                               !.now = clock, !.lease = lease]
  <2>1. g.task \in Tasks /\ g.token \in Nat /\ clock \in Nat
    BY <1>0 DEF TypeOK, Grant
  <2>2. c \in Call /\ c.step = "extend" /\ c.task \in Tasks /\ c.now = clock
    BY <2>1, RenewCall DEF Idle
  <2>3. c.now <= clock
    BY <2>1, <2>2
  <2> HIDE DEF c
  <2>4. op' = [op EXCEPT ![w] = c] /\ UNCHANGED <<row, grants, journal, clock>>
    BY <1>7 DEF BeginRenew, c
  <2> QED
    BY <2>2, <2>3, <2>4, LocalStep
<1>8. ASSUME NEW w \in Workers, RenewUpdate(w)
      PROVE  CallsInOrder' /\ RowInv'
  <2>1. op[w].task \in Tasks
    BY <1>0, <1>8 DEF RenewUpdate, CallsInOrder
  <2>2. CASE UNCHANGED row
    <3>1. Idle \in Call /\ Idle.step = "idle" /\ Idle.now = 0
      BY CallTypes DEF Idle
    <3>2. Idle.now <= clock
      BY <1>0, <3>1 DEF TypeOK
    <3> QED
      BY <1>8, <2>2, <3>1, <3>2, LocalStep DEF RenewUpdate
  <2>3. CASE Holds(op[w].task, op[w].token)
    <3> DEFINE t == op[w].task
               r == [row[t] EXCEPT !.lease = op[w].now + op[w].lease]
    <3>1. /\ r \in Row
          /\ r.state = row[t].state
          /\ r.owner = row[t].owner
          /\ r.token = row[t].token
          /\ r.attempt = row[t].attempt
      BY <1>0, <2>1, DeadlineType, RenewedRow DEF TypeOK
    <3>2. row[t].state = "claimed" /\ row[t].state \notin Terminal
      BY <2>3 DEF Holds, Terminal
    <3>3. row' = [row EXCEPT ![t] = r] /\ op' = [op EXCEPT ![w] = Idle]
            /\ UNCHANGED <<grants, journal, clock>>
      BY <1>8, <2>3 DEF RenewUpdate
    <3>4. Idle \in Call /\ Idle.step # "record" /\ Idle.now = 0 /\ clock \in Nat
      BY <1>0, CallTypes DEF Idle, TypeOK
    <3> HIDE DEF t, r
    <3>5. t \in Tasks
      BY <2>1 DEF t
    <3>6. CallsInOrder'
      <4>1. Idle.now <= clock /\ UNCHANGED clock
        BY <3>3, <3>4
      <4> QED
        BY <1>0, <3>1, <3>2, <3>3, <3>4, <3>5, <4>1, OpenTaskStep
    <3>7. RowInv'
      BY <1>0, <3>1, <3>3, <3>5, RenewStep
    <3> QED
      BY <3>6, <3>7
  <2> QED
    BY <1>8, <2>2, <2>3 DEF RenewUpdate
<1>9. ASSUME NEW w \in Workers, NEW g \in grants, NEW outcome \in Outcomes, Finish(w, g, outcome)
      PROVE  CallsInOrder' /\ RowInv'
  <2> DEFINE t == g.task
             r == Vacated(row[t], outcome)
             c == [Idle EXCEPT !.step = "record", !.task = t, !.event = outcome]
  <2>1. t \in Tasks /\ row[t].state = "claimed"
    BY <1>0, <1>9 DEF Finish, Holds, TypeOK, Grant
  <2>2. outcome \in Events /\ outcome \in States \ {"claimed", "absent"}
    BY OutcomesAssumption DEF Events, States, Terminal
  <2>3. /\ r \in Row
        /\ r.state = outcome
        /\ r.owner = NoOwner
        /\ r.token = row[t].token
    BY <1>0, <2>1, <2>2, VacatedRow DEF TypeOK
  <2>4. c \in Call /\ c.step = "record" /\ c.task = t /\ c.event = outcome /\ c.now = 0
    BY <2>1, <2>2, CallTypes DEF Idle
  <2>5. row' = [row EXCEPT ![t] = r] /\ op' = [op EXCEPT ![w] = c]
          /\ UNCHANGED <<grants, journal, clock>>
    BY <1>9 DEF Finish, Recording
  <2>6. c.event = r.state
    BY <2>3, <2>4
  <2> HIDE DEF t, r, c
  <2>7. c.now <= clock /\ UNCHANGED clock /\ row[t].state \notin Terminal
    BY <1>0, <2>1, <2>4, <2>5 DEF TypeOK, Terminal
  <2>8. (c.step = "record" => c.event \in Events /\ c.task = t)
          /\ (c.step = "record" /\ c.event \in Terminal => r.state = c.event)
    BY <2>2, <2>3, <2>4, <2>6
  <2>9. CallsInOrder'
    BY <1>0, <2>1, <2>3, <2>4, <2>5, <2>7, <2>8, OpenTaskStep
  <2>10. RowInv'
    BY <1>0, <2>1, <2>2, <2>3, <2>5, <2>7, VacateStep
  <2> QED
    BY <2>9, <2>10
<1>10. ASSUME NEW w \in Workers, NEW g \in grants, Release(w, g)
      PROVE  CallsInOrder' /\ RowInv'
  <2> DEFINE t == g.task
             r == Vacated(row[t], "ready")
             c == [Idle EXCEPT !.step = "record", !.task = t, !.event = "released"]
  <2>1. t \in Tasks /\ row[t].state = "claimed"
    BY <1>0, <1>10 DEF Release, Holds, TypeOK, Grant
  <2>2. "released" \in Events /\ "ready" \in States \ {"claimed", "absent"}
    BY OutcomesAssumption DEF Events, States, Terminal
  <2>3. /\ r \in Row
        /\ r.state = "ready"
        /\ r.owner = NoOwner
        /\ r.token = row[t].token
    BY <1>0, <2>1, <2>2, VacatedRow DEF TypeOK
  <2>4. c \in Call /\ c.step = "record" /\ c.task = t /\ c.event = "released" /\ c.now = 0
    BY <2>1, <2>2, CallTypes DEF Idle
  <2>5. row' = [row EXCEPT ![t] = r] /\ op' = [op EXCEPT ![w] = c]
          /\ UNCHANGED <<grants, journal, clock>>
    BY <1>10 DEF Release, Recording
  <2>6. "released" \notin Terminal
    BY <2>3, <2>4 DEF Terminal
  <2> HIDE DEF t, r, c
  <2>7. c.now <= clock /\ UNCHANGED clock /\ row[t].state \notin Terminal
    BY <1>0, <2>1, <2>4, <2>5 DEF TypeOK, Terminal
  <2>8. (c.step = "record" => c.event \in Events /\ c.task = t)
          /\ (c.step = "record" /\ c.event \in Terminal => r.state = c.event)
    BY <2>2, <2>3, <2>4, <2>6
  <2>9. CallsInOrder'
    BY <1>0, <2>1, <2>3, <2>4, <2>5, <2>7, <2>8, OpenTaskStep
  <2>10. RowInv'
    BY <1>0, <2>1, <2>2, <2>3, <2>5, <2>7, VacateStep
  <2> QED
    BY <2>9, <2>10
<1>11. ASSUME NEW w \in Workers, NEW t \in Tasks, CancelReady(w, t)
      PROVE  CallsInOrder' /\ RowInv'
  <2> DEFINE r == Vacated(row[t], "canceled")
             c == [Idle EXCEPT !.step = "record", !.task = t, !.event = "canceled"]
  <2>1. t \in Tasks /\ row[t].state = "ready"
    BY <1>0, <1>11 DEF CancelReady, Holds, TypeOK, Grant
  <2>2. "canceled" \in Events /\ "canceled" \in States \ {"claimed", "absent"}
    BY OutcomesAssumption DEF Events, States, Terminal
  <2>3. /\ r \in Row
        /\ r.state = "canceled"
        /\ r.owner = NoOwner
        /\ r.token = row[t].token
    BY <1>0, <2>1, <2>2, VacatedRow DEF TypeOK
  <2>4. c \in Call /\ c.step = "record" /\ c.task = t /\ c.event = "canceled" /\ c.now = 0
    BY <2>1, <2>2, CallTypes DEF Idle
  <2>5. row' = [row EXCEPT ![t] = r] /\ op' = [op EXCEPT ![w] = c]
          /\ UNCHANGED <<grants, journal, clock>>
    BY <1>11 DEF CancelReady, Recording
  <2>6. c.event = r.state
    BY <2>3, <2>4
  <2> HIDE DEF r, c
  <2>7. c.now <= clock /\ UNCHANGED clock /\ row[t].state \notin Terminal
    BY <1>0, <2>1, <2>4, <2>5 DEF TypeOK, Terminal
  <2>8. (c.step = "record" => c.event \in Events /\ c.task = t)
          /\ (c.step = "record" /\ c.event \in Terminal => r.state = c.event)
    BY <2>2, <2>3, <2>4, <2>6
  <2>9. CallsInOrder'
    BY <1>0, <2>1, <2>3, <2>4, <2>5, <2>7, <2>8, OpenTaskStep
  <2>10. RowInv'
    BY <1>0, <2>1, <2>2, <2>3, <2>5, <2>7, VacateStep
  <2> QED
    BY <2>9, <2>10
<1>12. ASSUME NEW w \in Workers, Record(w)
       PROVE  CallsInOrder' /\ RowInv'
  <2>1. CallsInOrder'
    BY <1>0, <1>12 DEF Record, CallsInOrder, TypeOK, Idle
  <2>2. JournalEndsAreTrue'
    BY <1>0, <1>12 DEF Record, CallsInOrder, TypeOK, RowInv, JournalEndsAreTrue
  <2>3. OwnedIffClaimed' /\ FenceHolds' /\ GrantsAgree' /\ AbsentIsNew'
    BY <1>0, <1>12
    DEF Record, RowInv, OwnedIffClaimed, FenceHolds, GrantsAgree, AbsentIsNew, Holds
  <2> QED
    BY <2>1, <2>2, <2>3 DEF RowInv
<1>13. CASE Tick
  <2>1. CallsInOrder'
    BY <1>0, <1>13 DEF Tick, CallsInOrder, TypeOK, Call
  <2>2. RowInv'
    BY <1>0, <1>13 DEF Tick, RowInv, OwnedIffClaimed, FenceHolds, GrantsAgree,
                       JournalEndsAreTrue, AbsentIsNew, Holds
  <2> QED
    BY <2>1, <2>2
<1>14. CASE UNCHANGED vars
  BY <1>0, <1>14 DEF vars, CallsInOrder, RowInv, OwnedIffClaimed, FenceHolds, GrantsAgree,
                     JournalEndsAreTrue, AbsentIsNew, Holds
<1> QED
  BY <1>1, <1>2, <1>3, <1>4, <1>5, <1>6, <1>7, <1>8, <1>9, <1>10, <1>11, <1>12, <1>13, <1>14
  DEF Next

-----------------------------------------------------------------------------
\* The inductive invariant holds in every reachable state, whatever the workers,
\* tasks, leases and bounds.
THEOREM Inductive == Spec => []IInv
<1>1. Init => IInv
  BY InitIInv
<1>2. IInv /\ [Next]_vars => IInv'
  BY StepIInv
<1> QED
  BY <1>1, <1>2, PTL DEF Spec

\* Types: the table, the calls, the claims and the log stay what they are.
THEOREM TypeCorrect == Spec => []TypeOK
  BY Inductive, PTL DEF IInv

\* The fence (queue.go:206-212): whoever presents the live token of a task is
\* the owner its row names.
THEOREM FenceCorrect == Spec => []FenceHolds
  BY Inductive, PTL DEF IInv

\* One claim, one owner: a task and a token are never handed to two owners.
THEOREM ExclusiveClaims == Spec => []GrantsAgree
  BY Inductive, PTL DEF IInv

\* A task the log calls closed is closed in the table.
THEOREM JournalNeverLies == Spec => []JournalEndsAreTrue
  BY Inductive, PTL DEF IInv

-----------------------------------------------------------------------------
\* What one step may do to one task: nothing, or one of the writes, each under
\* the condition its WHERE clause states.
TaskStep(t) ==
  \/ UNCHANGED row[t]
  \/ row[t].state = "absent" /\ row'[t].owner = NoOwner
       /\ row'[t].token = row[t].token /\ row'[t].attempt = row[t].attempt
  \/ row[t].state \in {"ready", "claimed"}
       /\ (row[t].state = "ready" \/ row[t].lease <= clock)
       /\ row'[t].token = row[t].token + 1 /\ row'[t].attempt = row[t].attempt + 1
  \/ row[t].state \in {"ready", "claimed"} /\ row'[t].owner \in {NoOwner, row[t].owner}
       /\ row'[t].token = row[t].token /\ row'[t].attempt = row[t].attempt

\* Every step does one of these to every task.
LEMMA StepTasks ==
  ASSUME IInv, [Next]_vars, NEW t \in Tasks
  PROVE  TaskStep(t)
<1>0. TypeOK /\ CallsInOrder /\ row[t] \in Row
  BY DEF IInv, TypeOK
<1>1. ASSUME NEW w \in Workers, FileInsert(w)
      PROVE  TaskStep(t)
  <2>1. op[w].task \in Tasks /\ op[w].now \in Nat
    BY <1>0, <1>1 DEF FileInsert, CallsInOrder, TypeOK, Call
  <2>2. op[w].task # t => row'[t] = row[t]
    BY <1>0, <1>1 DEF FileInsert, TypeOK
  <2>3. op[w].task = t => /\ row[t].state = "absent"
                          /\ row'[t] = [NoRow EXCEPT !.state = "ready", !.filed = op[w].now]
    BY <1>0, <1>1 DEF FileInsert, TypeOK
  <2>4. row[t].state = "absent" => row[t].token = 0 /\ row[t].attempt = 0
    BY DEF IInv, AbsentIsNew
  <2> QED
    BY <2>1, <2>2, <2>3, <2>4, FiledRow DEF TaskStep
<1>2. ASSUME NEW w \in Workers, ClaimUpdate(w)
      PROVE  TaskStep(t)
  <2>1. PICK u \in Tasks :
          /\ row[u].state = "ready" \/ (row[u].state = "claimed" /\ row[u].lease <= op[w].now)
          /\ row' = [row EXCEPT ![u] = Taken(row[u], OwnerOf[w], op[w].now + op[w].lease)]
    <3>1. \A u \in Oldest(Claimable(op[w].now)) :
            /\ u \in Tasks
            /\ row[u].state = "ready" \/ (row[u].state = "claimed" /\ row[u].lease <= op[w].now)
      <4> TAKE u \in Oldest(Claimable(op[w].now))
      <4>1. u \in Claimable(op[w].now)
        BY DEF Oldest
      <4> QED
        BY <4>1 DEF Claimable
    <3> QED
      BY <1>2, <3>1 DEF ClaimUpdate
  <2>2. CASE u # t
    BY <1>0, <2>1, <2>2 DEF TypeOK, TaskStep
  <2>3. CASE u = t
    <3>1. op[w].now \in Nat /\ clock \in Nat /\ op[w].now <= clock /\ row[t].lease \in Nat
      BY <1>0 DEF TypeOK, CallsInOrder, Call, Row
    <3>2. row[t].state = "ready" \/ (row[t].state = "claimed" /\ row[t].lease <= clock)
      BY <2>1, <2>3, <3>1
    <3>3. row'[t] = Taken(row[t], OwnerOf[w], op[w].now + op[w].lease)
      BY <1>0, <2>1, <2>3 DEF TypeOK
    <3>4. OwnerOf[w] \in Owners /\ op[w].now + op[w].lease \in Nat
      BY <1>0, DeadlineType, OwnersAssumption
    <3>5. row'[t].token = row[t].token + 1 /\ row'[t].attempt = row[t].attempt + 1
      BY <1>0, <3>3, <3>4, TakenRow
    <3> QED
      BY <3>2, <3>5 DEF TaskStep
  <2> QED
    BY <2>2, <2>3
<1>3. ASSUME NEW w \in Workers, RenewUpdate(w)
      PROVE  TaskStep(t)
  <2>1. CASE row'[t] = row[t]
    BY <2>1 DEF TaskStep
  <2>2. CASE row'[t] # row[t]
    <3>1. op[w].task \in Tasks
      BY <1>0, <1>3 DEF RenewUpdate, CallsInOrder
    <3>2. op[w].task = t /\ Holds(t, op[w].token)
            /\ row'[t] = [row[t] EXCEPT !.lease = op[w].now + op[w].lease]
      BY <1>0, <1>3, <2>2, <3>1 DEF RenewUpdate, TypeOK
    <3> QED
      BY <1>0, <3>2, DeadlineType, RenewedRow DEF TaskStep, Holds
  <2> QED
    BY <2>1, <2>2
<1>4. ASSUME NEW u \in Tasks, NEW state \in States, row[u].state \in {"ready", "claimed"},
             row' = [row EXCEPT ![u] = Vacated(row[u], state)]
      PROVE  TaskStep(t)
  <2>1. u # t => row'[t] = row[t]
    BY <1>0, <1>4 DEF TypeOK
  <2>2. u = t => row'[t] = Vacated(row[t], state)
    BY <1>0, <1>4 DEF TypeOK
  <2> QED
    BY <1>0, <1>4, <2>1, <2>2, VacatedRow DEF TaskStep
<1>5. ASSUME NEW w \in Workers, NEW g \in grants, NEW outcome \in Outcomes, Finish(w, g, outcome)
      PROVE  TaskStep(t)
  <2>1. g.task \in Tasks /\ outcome \in States
    BY <1>0, OutcomesAssumption DEF TypeOK, Grant, States, Terminal
  <2> QED
    BY <1>4, <1>5, <2>1 DEF Finish, Holds
<1>6. ASSUME NEW w \in Workers, NEW g \in grants, Release(w, g)
      PROVE  TaskStep(t)
  <2>1. g.task \in Tasks /\ "ready" \in States
    BY <1>0 DEF TypeOK, Grant, States
  <2> QED
    BY <1>4, <1>6, <2>1 DEF Release, Holds
<1>7. ASSUME NEW w \in Workers, NEW u \in Tasks, CancelReady(w, u)
      PROVE  TaskStep(t)
  BY <1>4, <1>7 DEF CancelReady, States, Terminal
<1>8. CASE UNCHANGED row
  BY <1>8 DEF TaskStep
<1> QED
  BY <1>1, <1>2, <1>3, <1>5, <1>6, <1>7, <1>8
  DEF Next, vars, BeginFile, FileExisting, BeginClaim, ClaimNoWork, ClaimRead, ClaimLost,
      BeginRenew, Record, Crash, Tick

\* No theft: a task changes hands only when free or expired, and never without a
\* new token, so every earlier claim is fenced from that step on.
THEOREM HandsChangeFairly == Spec => NoTheft
<1>1. ASSUME IInv, [Next]_vars, NEW t \in Tasks
      PROVE  /\ row'[t].owner \notin {NoOwner, row[t].owner} =>
                  /\ row[t].state = "ready" \/ row[t].lease <= clock
                  /\ row'[t].token > row[t].token
             /\ row'[t].attempt - row[t].attempt = row'[t].token - row[t].token
  <2>1. TaskStep(t)
    BY <1>1, StepTasks
  <2>2. row[t].token \in Nat /\ row[t].attempt \in Nat
    BY <1>1 DEF IInv, TypeOK, Row
  <2> QED
    BY <2>1, <2>2 DEF TaskStep
<1>2. IInv /\ [Next]_vars =>
        [\A t \in Tasks :
           /\ row'[t].owner \notin {NoOwner, row[t].owner} =>
                /\ row[t].state = "ready" \/ row[t].lease <= clock
                /\ row'[t].token > row[t].token
           /\ row'[t].attempt - row[t].attempt = row'[t].token - row[t].token]_vars
  BY <1>1
<1> QED
  BY <1>2, Inductive, PTL DEF Spec, NoTheft

\* Closed is closed: no call reopens or rewrites a finished or canceled task.
THEOREM ClosedIsFinal == Spec => TerminalIsFinal
<1>1. ASSUME IInv, [Next]_vars, NEW t \in Tasks, row[t].state \in Terminal
      PROVE  row'[t] = row[t]
  <2>1. TaskStep(t)
    BY <1>1, StepTasks
  <2> QED
    BY <1>1, <2>1 DEF TaskStep, Terminal
<1>2. IInv /\ [Next]_vars =>
        [\A t \in Tasks : row[t].state \in Terminal => row'[t] = row[t]]_vars
  BY <1>1
<1> QED
  BY <1>2, Inductive, PTL DEF Spec, TerminalIsFinal
=============================================================================
