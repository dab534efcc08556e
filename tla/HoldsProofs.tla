----------------------------- MODULE HoldsProofs -----------------------------
(* Proofs about Holds, for any agents, owners, paths and leases.              *)
EXTENDS Holds, TLAPS

\* What a claim in flight knows.  It read the clock in the past; and as long as
\* its snapshot is fresh, no live hold of another session contends with it.
CallsInOrder ==
  \A a \in Agents :
    /\ op[a].now <= clock
    /\ op[a].step = "decided" /\ op[a].fresh =>
         \A p \in op[a].want, q \in Paths :
           hold[q].owner \notin {NoOwner, OwnerOf[a]} /\ Overlaps(p, q)
             => hold[q].lease <= op[a].now

\* The inductive invariant of the table.
IInv == TypeOK /\ CallsInOrder /\ Exclusion

-----------------------------------------------------------------------------
\* Contention does not depend on who is asked first.
LEMMA OverlapsSymmetric == \A p, q : Overlaps(p, q) <=> Overlaps(q, p)
  BY DEF Overlaps

\* Every local state a claim is put in is one.
LEMMA CallTypes ==
  /\ Idle \in Call
  /\ \A want \in SUBSET Paths : \A n \in Nat : \A l \in Leases :
       [Idle EXCEPT !.step = "begin", !.want = want, !.now = n, !.lease = l] \in Call
  /\ \A c \in Call : [c EXCEPT !.fresh = FALSE] \in Call
  /\ \A c \in Call : [c EXCEPT !.step = "decided", !.fresh = TRUE] \in Call
  BY DEF Idle, Call

\* The deadline a claim computes is a time.
LEMMA DeadlineType ==
  ASSUME TypeOK, NEW a \in Agents
  PROVE  op[a].now + op[a].lease \in Nat
<1>1. op[a].now \in Nat /\ op[a].lease \in Leases \cup {0}
  BY DEF TypeOK, Call
<1>2. op[a].lease \in Nat
  BY <1>1, LeasesAssumption
<1> QED
  BY <1>1, <1>2

\* The upserts write rows: the caller's on the paths it wants, all others as they were.
LEMMA UpsertRows ==
  ASSUME NEW owner \in Owners, NEW want \in SUBSET Paths, NEW deadline \in Nat,
         hold \in [Paths -> Row]
  PROVE  /\ Upserts(owner, want, deadline) \in [Paths -> Row]
         /\ \A p \in Paths \ want : Upserts(owner, want, deadline)[p] = hold[p]
         /\ \A p \in want : /\ Upserts(owner, want, deadline)[p].owner = owner
                            /\ Upserts(owner, want, deadline)[p].lease = deadline
         /\ \A p \in want : hold[p].owner \notin {NoOwner, owner}
              => Upserts(owner, want, deadline)[p].token = hold[p].token + 1
<1>1. ASSUME NEW p \in want
      PROVE  [owner |-> owner, lease |-> deadline,
              token |-> CASE hold[p].owner = NoOwner -> 1
                          [] hold[p].owner = owner -> hold[p].token
                          [] OTHER -> hold[p].token + 1] \in Row
  <2>1. hold[p].token \in Nat
    BY <1>1 DEF Row
  <2> QED
    BY <2>1 DEF Row
<1> QED
  BY <1>1 DEF Upserts

\* A commit leaves the other calls what they were, but for their freshness.
LEMMA StaleCalls ==
  ASSUME NEW calls \in [Agents -> Call], NEW a \in Agents
  PROVE  /\ OthersStale(calls, a) \in [Agents -> Call]
         /\ OthersStale(calls, a)[a] = calls[a]
         /\ \A b \in Agents : OthersStale(calls, a)[b].now = calls[b].now
         /\ \A b \in Agents \ {a} : OthersStale(calls, a)[b].fresh = FALSE
<1>1. \A b \in Agents : /\ calls[b] \in Call
                        /\ [calls[b] EXCEPT !.fresh = FALSE] \in Call
                        /\ [calls[b] EXCEPT !.fresh = FALSE].now = calls[b].now
                        /\ [calls[b] EXCEPT !.fresh = FALSE].fresh = FALSE
  BY DEF Call
<1> QED
  BY <1>1 DEF OthersStale

-----------------------------------------------------------------------------
\* The initial state satisfies the inductive invariant.
LEMMA InitIInv == Init => IInv
<1> SUFFICES ASSUME Init PROVE IInv
  OBVIOUS
<1>1. TypeOK
  BY CallTypes DEF Init, TypeOK, NoRow, Row
<1>2. CallsInOrder /\ Exclusion
  BY DEF Init, CallsInOrder, Exclusion, Live, Idle, NoRow
<1> QED
  BY <1>1, <1>2 DEF IInv

\* Every step keeps the types.
LEMMA StepTypeOK == TypeOK /\ [Next]_vars => TypeOK'
<1> SUFFICES ASSUME TypeOK, [Next]_vars PROVE TypeOK'
  OBVIOUS
<1>1. ASSUME NEW a \in Agents, NEW want \in SUBSET Paths, NEW lease \in Leases,
             BeginClaim(a, want, lease)
      PROVE  TypeOK'
  BY <1>1, CallTypes DEF BeginClaim, TypeOK
<1>2. ASSUME NEW a \in Agents, ClaimDecide(a)
      PROVE  TypeOK'
  <2>1. op' = [op EXCEPT ![a] = [op[a] EXCEPT !.step = "decided", !.fresh = TRUE]]
    BY <1>2 DEF ClaimDecide, TypeOK, Call
  <2>2. [op[a] EXCEPT !.step = "decided", !.fresh = TRUE] \in Call
    BY CallTypes DEF TypeOK
  <2> QED
    BY <1>2, <2>1, <2>2 DEF ClaimDecide, TypeOK
<1>3. ASSUME NEW a \in Agents, ClaimRefused(a) \/ ClaimAborted(a)
      PROVE  TypeOK'
  BY <1>3, CallTypes DEF ClaimRefused, ClaimAborted, TypeOK
<1>4. ASSUME NEW a \in Agents, ClaimCommit(a)
      PROVE  TypeOK'
  <2> DEFINE want == op[a].want
             deadline == op[a].now + op[a].lease
  <2>1. want \in SUBSET Paths /\ deadline \in Nat /\ OwnerOf[a] \in Owners
    BY DeadlineType, OwnersAssumption DEF TypeOK, Call
  <2>2. hold' \in [Paths -> Row]
    BY <1>4, <2>1, UpsertRows DEF ClaimCommit, TypeOK
  <2>3. op' \in [Agents -> Call]
    BY <1>4, CallTypes, StaleCalls DEF ClaimCommit, TypeOK
  <2>4. carried' \subseteq [agent : Agents, path : Paths, token : Nat]
    <3>1. \A p \in want : hold'[p].token \in Nat
      BY <2>1, <2>2 DEF Row
    <3>2. carried' = carried \cup {[agent |-> a, path |-> p, token |-> hold'[p].token] : p \in want}
      BY <1>4 DEF ClaimCommit
    <3> QED
      BY <2>1, <3>1, <3>2 DEF TypeOK
  <2>5. promised' \in [Agents -> [Paths -> Nat]]
    <3>1. promised' = [promised EXCEPT ![a] = [p \in Paths |-> IF p \in want THEN deadline ELSE @[p]]]
      BY <1>4 DEF ClaimCommit
    <3> QED
      BY <2>1, <3>1 DEF TypeOK
  <2> QED
    BY <1>4, <2>2, <2>3, <2>4, <2>5 DEF ClaimCommit, TypeOK
<1>5. ASSUME NEW a \in Agents, NEW gone, NEW asked, Drop(a, gone, asked)
      PROVE  TypeOK'
  <2>1. NoRow \in Row
    BY DEF NoRow, Row
  <2>2. hold' \in [Paths -> Row]
    BY <1>5, <2>1 DEF Drop, TypeOK
  <2>3. op' \in [Agents -> Call]
    BY <1>5, StaleCalls DEF Drop, TypeOK
  <2>4. promised' \in [Agents -> [Paths -> Nat]]
    BY <1>5 DEF Drop, TypeOK
  <2> QED
    BY <1>5, <2>2, <2>3, <2>4 DEF Drop, TypeOK
<1>6. CASE Tick
  BY <1>6 DEF Tick, TypeOK
<1>7. CASE UNCHANGED vars
  BY <1>7 DEF vars, TypeOK
<1> QED
  BY <1>1, <1>2, <1>3, <1>4, <1>5, <1>6, <1>7
  DEF Next, Release, ReleaseOwned, ReleaseAll

\* Every step keeps the inductive invariant.
LEMMA StepIInv == IInv /\ [Next]_vars => IInv'
<1> SUFFICES ASSUME IInv, [Next]_vars
             PROVE  CallsInOrder' /\ Exclusion'
  BY StepTypeOK DEF IInv
<1>0. TypeOK /\ CallsInOrder /\ Exclusion /\ clock \in Nat
  BY DEF IInv, TypeOK
<1>1. ASSUME NEW a \in Agents, NEW want \in SUBSET Paths, NEW lease \in Leases,
             BeginClaim(a, want, lease)
      PROVE  CallsInOrder' /\ Exclusion'
  <2>1. CallsInOrder'
    BY <1>0, <1>1 DEF BeginClaim, CallsInOrder, TypeOK, Idle
  <2> QED
    BY <1>0, <1>1, <2>1 DEF BeginClaim, Exclusion, Live
<1>2. ASSUME NEW a \in Agents, ClaimDecide(a)
      PROVE  CallsInOrder' /\ Exclusion'
  <2>1. op' = [op EXCEPT ![a] = [op[a] EXCEPT !.step = "decided", !.fresh = TRUE]]
    BY <1>0, <1>2 DEF ClaimDecide, TypeOK, Call
  <2>2. op'[a].now = op[a].now /\ op'[a].want = op[a].want
    BY <1>0, <2>1 DEF TypeOK, Call
  <2>3. op[a].now \in Nat /\ op[a].want \subseteq Paths
    BY <1>0 DEF TypeOK, Call
  <2>4. ASSUME NEW p \in op[a].want, NEW q \in Paths,
               hold[q].owner \notin {NoOwner, OwnerOf[a]}, Overlaps(p, q)
        PROVE  hold[q].lease <= op[a].now
    <3>1. hold[q].lease \in Nat
      BY <1>0 DEF TypeOK, Row
    <3>2. ~(hold[q].lease > op[a].now)
      BY <1>2, <2>4 DEF ClaimDecide, Conflicts
    <3> QED
      BY <2>3, <3>1, <3>2
  <2>5. CallsInOrder'
    BY <1>0, <1>2, <2>1, <2>2, <2>4 DEF ClaimDecide, CallsInOrder, TypeOK
  <2> QED
    BY <1>0, <1>2, <2>5 DEF ClaimDecide, Exclusion, Live
<1>3. ASSUME NEW a \in Agents, ClaimRefused(a) \/ ClaimAborted(a)
      PROVE  CallsInOrder' /\ Exclusion'
  <2>1. CallsInOrder'
    BY <1>0, <1>3 DEF ClaimRefused, ClaimAborted, CallsInOrder, TypeOK, Idle
  <2> QED
    BY <1>0, <1>3, <2>1 DEF ClaimRefused, ClaimAborted, Exclusion, Live
<1>4. ASSUME NEW a \in Agents, ClaimCommit(a)
      PROVE  CallsInOrder' /\ Exclusion'
  <2> DEFINE want == op[a].want
             deadline == op[a].now + op[a].lease
             owner == OwnerOf[a]
  <2>1. want \in SUBSET Paths /\ deadline \in Nat /\ owner \in Owners /\ owner # NoOwner
    BY <1>0, DeadlineType, OwnersAssumption DEF TypeOK, Call
  <2>2. /\ \A p \in Paths \ want : hold'[p] = hold[p]
        /\ \A p \in want : hold'[p].owner = owner
    BY <1>0, <1>4, <2>1, UpsertRows DEF ClaimCommit, TypeOK
  <2>3. op[a].now \in Nat /\ op[a].now <= clock /\ clock' = clock
    BY <1>0, <1>4 DEF TypeOK, CallsInOrder, Call, ClaimCommit
  \* The fresh snapshot: whoever contends with the new holds has expired.
  <2>4. ASSUME NEW p \in want, NEW q \in Paths \ want, Overlaps(p, q),
               hold[q].owner # NoOwner, hold[q].lease > clock
        PROVE  hold[q].owner = owner
    <3>1. hold[q].lease \in Nat /\ ~(hold[q].lease <= op[a].now)
      BY <1>0, <2>3, <2>4 DEF TypeOK, Row
    <3> QED
      BY <1>0, <1>4, <2>4, <3>1 DEF ClaimCommit, CallsInOrder
  <2>5. Exclusion'
    <3> SUFFICES ASSUME NEW p \in Paths, NEW q \in Paths, Live(p)', Live(q)', Overlaps(p, q)
                 PROVE  hold'[p].owner = hold'[q].owner
      BY DEF Exclusion, Live
    <3>1. CASE p \in want /\ q \in want
      BY <2>2, <3>1
    <3>2. CASE p \notin want /\ q \notin want
      BY <1>0, <2>2, <2>3, <3>2 DEF Exclusion, Live
    <3>3. CASE p \in want /\ q \notin want
      BY <2>2, <2>3, <2>4, <3>3 DEF Live
    <3>4. CASE p \notin want /\ q \in want
      BY <2>2, <2>3, <2>4, <3>4, OverlapsSymmetric DEF Live
    <3> QED
      BY <3>1, <3>2, <3>3, <3>4
  <2>6. CallsInOrder'
    <3> DEFINE calls == [op EXCEPT ![a] = Idle]
    <3>1. calls \in [Agents -> Call] /\ calls[a] = Idle /\ \A b \in Agents \ {a} : calls[b] = op[b]
      BY <1>0, CallTypes DEF TypeOK
    <3>2. op' = OthersStale(calls, a)
      BY <1>4 DEF ClaimCommit
    <3> HIDE DEF calls
    <3>3. op'[a] = Idle
      BY <3>1, <3>2, StaleCalls
    <3>4. ASSUME NEW b \in Agents \ {a}
          PROVE  op'[b].now = op[b].now /\ op'[b].fresh = FALSE
      <4>1. calls[b] = op[b]
        BY <3>1
      <4>2. OthersStale(calls, a)[b].now = calls[b].now
        BY <3>1, StaleCalls
      <4>3. OthersStale(calls, a)[b].fresh = FALSE
        BY <3>1, StaleCalls
      <4> QED
        BY <3>2, <4>1, <4>2, <4>3
    <3>5. op'[a].now <= clock' /\ op'[a].step # "decided"
      BY <1>0, <2>3, <3>3 DEF Idle
    <3>6. \A b \in Agents \ {a} : op'[b].now <= clock' /\ ~op'[b].fresh
      BY <1>0, <2>3, <3>4 DEF CallsInOrder
    <3> QED
      BY <3>5, <3>6 DEF CallsInOrder
  <2> QED
    BY <2>5, <2>6
<1>5. ASSUME NEW a \in Agents, NEW gone, NEW asked, Drop(a, gone, asked)
      PROVE  CallsInOrder' /\ Exclusion'
  <2>1. \A p \in Paths : hold'[p] = hold[p] \/ hold'[p].owner = NoOwner
    BY <1>5 DEF Drop, NoRow
  <2>2. Exclusion'
    BY <1>0, <1>5, <2>1 DEF Drop, Exclusion, Live
  <2>3. op'[a] = op[a] /\ \A b \in Agents \ {a} : op'[b].now = op[b].now /\ op'[b].fresh = FALSE
    BY <1>0, <1>5, StaleCalls DEF Drop, TypeOK
  <2>4. CallsInOrder'
    BY <1>0, <1>5, <2>3 DEF Drop, CallsInOrder
  <2> QED
    BY <2>2, <2>4
<1>6. CASE Tick
  <2>1. clock' = clock + 1 /\ UNCHANGED <<hold, op>>
    BY <1>6 DEF Tick
  <2>2. \A b \in Agents : op[b].now \in Nat
    BY <1>0 DEF TypeOK, Call
  <2>3. CallsInOrder'
    BY <1>0, <2>1, <2>2 DEF CallsInOrder
  <2>4. \A p \in Paths : hold[p].lease \in Nat
    BY <1>0 DEF TypeOK, Row
  <2>5. \A p \in Paths : Live(p)' => Live(p)
    BY <1>0, <2>1, <2>4 DEF Live
  <2> QED
    BY <1>0, <2>1, <2>3, <2>5 DEF Exclusion
<1>7. CASE UNCHANGED vars
  BY <1>0, <1>7 DEF vars, CallsInOrder, Exclusion, Live
<1> QED
  BY <1>1, <1>2, <1>3, <1>4, <1>5, <1>6, <1>7
  DEF Next, Release, ReleaseOwned, ReleaseAll

-----------------------------------------------------------------------------
\* The inductive invariant holds in every reachable state.
THEOREM Inductive == Spec => []IInv
<1>1. Init => IInv
  BY InitIInv
<1>2. IInv /\ [Next]_vars => IInv'
  BY StepIInv
<1> QED
  BY <1>1, <1>2, PTL DEF Spec

\* Types: the table, the claims in flight and what agents were told keep theirs.
THEOREM TypeCorrect == Spec => []TypeOK
  BY Inductive, PTL DEF IInv

\* Mutual exclusion over trees (holds.go:17-31): two live holds that contend
\* have one owner.
THEOREM ExclusionCorrect == Spec => []Exclusion
  BY Inductive, PTL DEF IInv

-----------------------------------------------------------------------------
\* Every agent has a session name of its own.
PrivateNames == \A a, b \in Agents : OwnerOf[a] = OwnerOf[b] => a = b

\* No step of another agent takes a promised path away.
LEMMA StepGrantStands ==
  ASSUME PrivateNames, IInv, GrantStands, [Next]_vars
  PROVE  GrantStands'
<1>0. TypeOK /\ CallsInOrder /\ clock \in Nat
  BY DEF IInv, TypeOK
<1>1. ASSUME NEW a \in Agents, ClaimCommit(a)
      PROVE  GrantStands'
  <2> DEFINE want == op[a].want
             deadline == op[a].now + op[a].lease
             owner == OwnerOf[a]
  <2>1. want \in SUBSET Paths /\ deadline \in Nat /\ owner \in Owners /\ owner # NoOwner
    BY <1>0, DeadlineType, OwnersAssumption DEF TypeOK, Call
  <2>2. /\ \A p \in Paths \ want : hold'[p] = hold[p]
        /\ \A p \in want : hold'[p].owner = owner /\ hold'[p].lease = deadline
    BY <1>0, <1>1, <2>1, UpsertRows DEF ClaimCommit, TypeOK
  <2>3. promised' = [promised EXCEPT ![a] = [p \in Paths |-> IF p \in want THEN deadline ELSE @[p]]]
    BY <1>1 DEF ClaimCommit
  <2>4. /\ \A p \in want : promised'[a][p] = deadline
        /\ \A p \in Paths \ want : promised'[a][p] = promised[a][p]
        /\ \A b \in Agents \ {a} : promised'[b] = promised[b]
    BY <1>0, <2>1, <2>3 DEF TypeOK
  <2>5. op[a].now \in Nat /\ op[a].now <= clock /\ clock' = clock
    BY <1>0, <1>1 DEF TypeOK, CallsInOrder, Call, ClaimCommit
  <2>6. ASSUME NEW b \in Agents \ {a}, NEW p \in want, promised[b][p] > clock
        PROVE  FALSE
    <3>1. hold[p].owner = OwnerOf[b] /\ hold[p].lease = promised[b][p] /\ OwnerOf[b] # owner
      BY <2>1, <2>6 DEF GrantStands, PrivateNames
    <3>2. OwnerOf[b] # NoOwner /\ Overlaps(p, p)
      BY OwnersAssumption DEF Overlaps
    <3>3. hold[p].lease <= op[a].now
      BY <1>0, <1>1, <2>1, <3>1, <3>2 DEF ClaimCommit, CallsInOrder
    <3>4. promised[b][p] \in Nat
      BY <1>0, <2>1 DEF TypeOK
    <3> QED
      BY <1>0, <2>5, <2>6, <3>1, <3>3, <3>4
  <2> SUFFICES ASSUME NEW b \in Agents, NEW p \in Paths, promised'[b][p] > clock
               PROVE  hold'[p].owner = OwnerOf[b] /\ hold'[p].lease = promised'[b][p]
    BY <2>5 DEF GrantStands
  <2>7. CASE p \in want
    BY <2>2, <2>4, <2>6, <2>7
  <2>8. CASE p \notin want
    <3>1. hold'[p] = hold[p] /\ promised'[b][p] = promised[b][p]
      BY <2>2, <2>4, <2>8
    <3> QED
      BY <3>1 DEF GrantStands
  <2> QED
    BY <2>7, <2>8
<1>2. ASSUME NEW a \in Agents, NEW gone, NEW asked, Drop(a, gone, asked),
             gone \subseteq asked, \A p \in gone : hold[p].owner = OwnerOf[a]
      PROVE  GrantStands'
  <2>1. /\ hold' = [p \in Paths |-> IF p \in gone THEN NoRow ELSE hold[p]]
        /\ promised' = [promised EXCEPT ![a] = [p \in Paths |-> IF p \in asked THEN 0 ELSE @[p]]]
        /\ clock' = clock
    BY <1>2 DEF Drop
  <2> SUFFICES ASSUME NEW b \in Agents, NEW p \in Paths, promised'[b][p] > clock
               PROVE  hold'[p].owner = OwnerOf[b] /\ hold'[p].lease = promised'[b][p]
    BY <2>1 DEF GrantStands
  <2>2. promised'[b][p] = promised[b][p] /\ (b = a => p \notin asked)
    BY <1>0, <2>1 DEF TypeOK
  <2>3. hold[p].owner = OwnerOf[b] /\ hold[p].lease = promised[b][p]
    BY <2>2 DEF GrantStands
  <2>4. p \notin gone
    BY <1>2, <2>2, <2>3 DEF PrivateNames
  <2> QED
    BY <2>1, <2>2, <2>3, <2>4
<1>3. ASSUME UNCHANGED <<hold, promised>>, clock' = clock \/ clock' = clock + 1
      PROVE  GrantStands'
  <2> SUFFICES ASSUME NEW b \in Agents, NEW p \in Paths, promised[b][p] > clock'
               PROVE  hold[p].owner = OwnerOf[b] /\ hold[p].lease = promised[b][p]
    BY <1>3 DEF GrantStands
  <2>1. promised[b][p] \in Nat
    BY <1>0 DEF TypeOK
  <2>2. promised[b][p] > clock
    BY <1>0, <1>3, <2>1
  <2> QED
    BY <2>2 DEF GrantStands
<1>4. ASSUME NEW a \in Agents, NEW asked \in SUBSET Paths,
             \/ \E g \in carried : Release(a, g.token, asked)
             \/ ReleaseOwned(a, asked)
             \/ ReleaseAll(a)
      PROVE  GrantStands'
  <2>1. CASE \E g \in carried : Release(a, g.token, asked)
    <3>1. PICK g \in carried : Release(a, g.token, asked)
      BY <2>1
    <3> DEFINE gone == {p \in OwnedAmong(a, asked) : hold[p].token = g.token}
    <3>2. Drop(a, gone, asked) /\ gone \subseteq asked /\ \A p \in gone : hold[p].owner = OwnerOf[a]
      BY <3>1 DEF Release, OwnedAmong
    <3> HIDE DEF gone
    <3> QED
      BY <1>2, <3>2
  <2>2. CASE ReleaseOwned(a, asked)
    BY <1>2, <2>2 DEF ReleaseOwned, OwnedAmong
  <2>3. CASE ReleaseAll(a)
    BY <1>2, <2>3 DEF ReleaseAll, OwnedAmong
  <2> QED
    BY <1>4, <2>1, <2>2, <2>3
<1> QED
  BY <1>1, <1>3, <1>4
  DEF Next, vars, BeginClaim, ClaimDecide, ClaimRefused, ClaimAborted, Tick

\* What an agent was told it has, it has in full until the time it was told,
\* provided every agent claims under a name of its own.
THEOREM GrantsStand ==
  ASSUME PrivateNames
  PROVE  Spec => []GrantStands
<1>1. Init => GrantStands
  BY DEF Init, GrantStands
<1>2. IInv /\ GrantStands /\ [Next]_vars => GrantStands'
  BY StepGrantStands
<1> QED
  BY <1>1, <1>2, Inductive, PTL DEF Spec

\* And so no two agents are told at one time that they may edit one file, or a
\* directory and something in it.
THEOREM OneEditor ==
  ASSUME PrivateNames
  PROVE  Spec => []OneAgentPerPath
<1>1. IInv /\ GrantStands => OneAgentPerPath
  <2> SUFFICES ASSUME IInv, GrantStands, NEW a \in Agents, NEW b \in Agents,
                      NEW p \in Paths, NEW q \in Paths, a # b,
                      promised[a][p] > clock, promised[b][q] > clock, Overlaps(p, q)
               PROVE  FALSE
    BY DEF OneAgentPerPath
  <2>1. /\ hold[p].owner = OwnerOf[a] /\ hold[p].lease = promised[a][p]
        /\ hold[q].owner = OwnerOf[b] /\ hold[q].lease = promised[b][q]
    BY DEF GrantStands
  <2>2. Live(p) /\ Live(q)
    BY <2>1, OwnersAssumption DEF Live
  <2> QED
    BY <2>1, <2>2 DEF IInv, Exclusion, PrivateNames
<1> QED
  BY <1>1, Inductive, GrantsStand, PTL
=============================================================================
