-------------------------------- MODULE Queue --------------------------------
(* The work queue of internal/queue: one SQLite table of tasks, written by   *)
(* single guarded UPDATE statements from several processes at once (the      *)
(* daemon's board, `amac task` in any shell, the health sweep).  A statement  *)
(* is atomic; a call is not: it reads the clock first, and it reads back and  *)
(* writes its journal entry after, with other processes in between.          *)
(*                                                                           *)
(* A worker is one process making calls, one at a time.  Several workers may  *)
(* call under the same owner name: the board is always "board", the command   *)
(* line uses the tmux session or the host name.                              *)
EXTENDS Integers, FiniteSets

CONSTANTS
  Workers,    \* processes that call the queue
  Owners,     \* owner names they call under
  OwnerOf,    \* the owner name of each worker
  NoOwner,    \* the empty owner column
  Tasks,      \* task identifiers
  NoTask,     \* no task in a call's local state
  Leases,     \* lease lengths a claim or a renewal may ask for
  Outcomes,   \* the terminal states workers finish with
  MaxClock,   \* bound: time stops here
  MaxToken    \* bound: claims of one task

ASSUME OwnersAssumption == OwnerOf \in [Workers -> Owners] /\ NoOwner \notin Owners
ASSUME LeasesAssumption == Leases \subseteq Nat
ASSUME BoundsAssumption == MaxClock \in Nat /\ MaxToken \in Nat
ASSUME NoTaskAssumption == NoTask \notin Tasks
ASSUME OutcomesAssumption == Outcomes \subseteq {"done", "failed", "canceled"}

VARIABLES
  row,        \* the tasks table
  op,         \* the call each worker is in, and its local variables
  grants,     \* every claim a Claim call has read back: worker, task, token
  journal,    \* the last event the log holds of each task
  clock       \* the machine's clock, which all processes share

vars == <<row, op, grants, journal, clock>>

-----------------------------------------------------------------------------
Terminal == {"done", "failed", "canceled"}
States == {"absent", "ready", "claimed"} \cup Terminal
Row == [state : States, owner : Owners \cup {NoOwner}, token : Nat,
        lease : Nat, attempt : Nat, filed : Nat]

Events == {"filed", "claimed", "released"} \cup Terminal
Steps == {"idle", "insert", "take", "readback", "extend", "record"}
Call == [step : Steps, task : Tasks \cup {NoTask}, token : Nat,
         now : Nat, lease : Leases \cup {0}, event : Events \cup {"none"}]
Idle == [step |-> "idle", task |-> NoTask, token |-> 0,
         now |-> 0, lease |-> 0, event |-> "none"]
Grant == [worker : Workers, task : Tasks, token : Nat]

NoRow == [state |-> "absent", owner |-> NoOwner, token |-> 0,
          lease |-> 0, attempt |-> 0, filed |-> 0]

Init ==
  /\ row = [t \in Tasks |-> NoRow]
  /\ op = [w \in Workers |-> Idle]
  /\ grants = {}
  /\ journal = [t \in Tasks |-> "none"]
  /\ clock = 0

\* The call has changed the table; its journal entry is still to be written.
Recording(w, t, event) ==
  op' = [op EXCEPT ![w] = [Idle EXCEPT !.step = "record", !.task = t, !.event = event]]

-----------------------------------------------------------------------------
(* File: the clock is read, then one INSERT that leaves an existing task as   *)
(* it is.                                                                     *)
BeginFile(w, t) ==
  /\ op[w].step = "idle"
  /\ op' = [op EXCEPT ![w] = [Idle EXCEPT !.step = "insert", !.task = t, !.now = clock]]
  /\ UNCHANGED <<row, grants, journal, clock>>

FileInsert(w) ==
  /\ op[w].step = "insert"
  /\ row[op[w].task].state = "absent"
  /\ row' = [row EXCEPT ![op[w].task] = [NoRow EXCEPT !.state = "ready", !.filed = op[w].now]]
  /\ Recording(w, op[w].task, "filed")
  /\ UNCHANGED <<grants, journal, clock>>

FileExisting(w) ==
  /\ op[w].step = "insert"
  /\ row[op[w].task].state # "absent"
  /\ op' = [op EXCEPT ![w] = Idle]
  /\ UNCHANGED <<row, grants, journal, clock>>

-----------------------------------------------------------------------------
(* Claim: the clock, the UPDATE that selects and takes, the read-back by      *)
(* owner, the journal.                                                       *)

\* Mutants: only filed work is offered; held work is offered before its deadline.
ClaimableReadyOnly(now) == {t \in Tasks : row[t].token < MaxToken /\ row[t].state = "ready"}
ClaimableEarly(now) ==
  {t \in Tasks : row[t].token < MaxToken /\ row[t].state \in {"ready", "claimed"}}

\* A task anyone may take at time now: nobody holds it, or the lease has passed.
\* (A task claimed MaxToken times has left the bounded model.)
Claimable(now) == {t \in Tasks : /\ row[t].token < MaxToken
                                 /\ \/ row[t].state = "ready"
                                    \/ row[t].state = "claimed" /\ row[t].lease <= now}

\* ORDER BY filed LIMIT 1: any of the tasks that tie for the oldest.
Oldest(S) == {t \in S : \A u \in S : row[t].filed <= row[u].filed}

\* Mutant: taking over an expired claim keeps its token.
TakenKeepsToken(r, owner, deadline) ==
  [r EXCEPT !.state = "claimed", !.owner = owner, !.lease = deadline,
            !.token = IF r.token = 0 THEN 1 ELSE r.token, !.attempt = r.attempt + 1]

\* The row a successful claim writes over r.
Taken(r, owner, deadline) ==
  [r EXCEPT !.state = "claimed", !.owner = owner, !.lease = deadline,
            !.token = r.token + 1, !.attempt = r.attempt + 1]

BeginClaim(w, lease) ==
  /\ op[w].step = "idle"
  /\ op' = [op EXCEPT ![w] = [Idle EXCEPT !.step = "take", !.now = clock, !.lease = lease]]
  /\ UNCHANGED <<row, grants, journal, clock>>

\* op keeps which task was taken; the code does not, it reads it back.
ClaimUpdate(w) ==
  /\ op[w].step = "take"
  /\ \E t \in Oldest(Claimable(op[w].now)) :
       /\ row' = [row EXCEPT ![t] = Taken(row[t], OwnerOf[w], op[w].now + op[w].lease)]
       /\ op' = [op EXCEPT ![w] = [Idle EXCEPT !.step = "readback", !.task = t]]
  /\ UNCHANGED <<grants, journal, clock>>

ClaimNoWork(w) ==
  /\ op[w].step = "take"
  /\ Claimable(op[w].now) = {}
  /\ op' = [op EXCEPT ![w] = Idle]
  /\ UNCHANGED <<row, grants, journal, clock>>

\* The rows the read-back ranges over, and those that tie for the latest lease.
OwnedBy(owner) == {t \in Tasks : row[t].owner = owner /\ row[t].token > 0}
LatestLease(S) == {t \in S : \A u \in S : row[u].lease <= row[t].lease}

ClaimRead(w) ==
  /\ op[w].step = "readback"
  /\ \E t \in LatestLease(OwnedBy(OwnerOf[w])) :
       /\ grants' = grants \cup {[worker |-> w, task |-> t, token |-> row[t].token]}
       /\ Recording(w, t, "claimed")
  /\ UNCHANGED <<row, journal, clock>>

\* Nothing is owned under this name any more: Claim fails with sql.ErrNoRows.
ClaimLost(w) ==
  /\ op[w].step = "readback"
  /\ OwnedBy(OwnerOf[w]) = {}
  /\ op' = [op EXCEPT ![w] = Idle]
  /\ UNCHANGED <<row, grants, journal, clock>>

-----------------------------------------------------------------------------
\* Mutant: the fence forgets the state.
HoldsInAnyState(t, token) == row[t].token = token

(* Renew, Finish, Release: one UPDATE each, fenced by task, token and state.  *)
(* A worker may present any claim it was ever given, however stale.           *)
Holds(t, token) == row[t].state = "claimed" /\ row[t].token = token

BeginRenew(w, g, lease) ==
  /\ op[w].step = "idle"
  /\ g.worker = w
  /\ op' = [op EXCEPT ![w] = [Idle EXCEPT !.step = "extend", !.task = g.task,
                                          !.token = g.token, !.now = clock, !.lease = lease]]
  /\ UNCHANGED <<row, grants, journal, clock>>

RenewUpdate(w) ==
  /\ op[w].step = "extend"
  /\ row' = IF Holds(op[w].task, op[w].token)
              THEN [row EXCEPT ![op[w].task].lease = op[w].now + op[w].lease]
              ELSE row
  /\ op' = [op EXCEPT ![w] = Idle]
  /\ UNCHANGED <<grants, journal, clock>>

\* The row that gives up its owner and lease for a new state.
Vacated(r, state) == [r EXCEPT !.state = state, !.owner = NoOwner, !.lease = 0]

Finish(w, g, outcome) ==
  /\ op[w].step = "idle"
  /\ g.worker = w
  /\ Holds(g.task, g.token)
  /\ row' = [row EXCEPT ![g.task] = Vacated(row[g.task], outcome)]
  /\ Recording(w, g.task, outcome)
  /\ UNCHANGED <<grants, journal, clock>>

Release(w, g) ==
  /\ op[w].step = "idle"
  /\ g.worker = w
  /\ Holds(g.task, g.token)
  /\ row' = [row EXCEPT ![g.task] = Vacated(row[g.task], "ready")]
  /\ Recording(w, g.task, "released")
  /\ UNCHANGED <<grants, journal, clock>>

CancelReady(w, t) ==
  /\ op[w].step = "idle"
  /\ row[t].state = "ready"
  /\ row' = [row EXCEPT ![t] = Vacated(row[t], "canceled")]
  /\ Recording(w, t, "canceled")
  /\ UNCHANGED <<grants, journal, clock>>

\* record: a transaction of its own, after the table has changed.
Record(w) ==
  /\ op[w].step = "record"
  /\ journal' = [journal EXCEPT ![op[w].task] = op[w].event]
  /\ op' = [op EXCEPT ![w] = Idle]
  /\ UNCHANGED <<row, grants, clock>>

\* A failed append (the error is dropped), or the process killed anywhere in a
\* call and started again under the same name.
Crash(w) ==
  /\ op[w].step # "idle"
  /\ op' = [op EXCEPT ![w] = Idle]
  /\ UNCHANGED <<row, grants, journal, clock>>

Tick ==
  /\ clock < MaxClock
  /\ clock' = clock + 1
  /\ UNCHANGED <<row, op, grants, journal>>

Next ==
  \/ Tick
  \/ \E w \in Workers :
       \/ \E t \in Tasks : BeginFile(w, t) \/ CancelReady(w, t)
       \/ FileInsert(w) \/ FileExisting(w)
       \/ \E lease \in Leases : BeginClaim(w, lease)
       \/ ClaimUpdate(w) \/ ClaimNoWork(w) \/ ClaimRead(w) \/ ClaimLost(w)
       \/ \E g \in grants :
            \/ \E lease \in Leases : BeginRenew(w, g, lease)
            \/ \E outcome \in Outcomes : Finish(w, g, outcome)
            \/ Release(w, g)
       \/ RenewUpdate(w)
       \/ Record(w)
       \/ Crash(w)

Spec == Init /\ [][Next]_vars

(* Time passes, and every worker that is free infinitely often polls          *)
(* infinitely often and gets as far as its UPDATE.                            *)
FairSpec ==
  /\ Spec
  /\ WF_vars(Tick)
  /\ \A w \in Workers :
       /\ WF_vars(FileInsert(w) \/ FileExisting(w) \/ RenewUpdate(w) \/ Record(w)
                    \/ ClaimNoWork(w) \/ ClaimRead(w) \/ ClaimLost(w))
       /\ SF_vars(\E lease \in Leases : BeginClaim(w, lease))
       /\ SF_vars(ClaimUpdate(w))

-----------------------------------------------------------------------------
TypeOK ==
  /\ row \in [Tasks -> Row]
  /\ op \in [Workers -> Call]
  /\ grants \subseteq Grant
  /\ journal \in [Tasks -> Events \cup {"none"}]
  /\ clock \in Nat

\* The fence (queue.go:206-212): no claim outruns the row's token, and a claim
\* that carries the live token belongs to the owner the row names, so every
\* write the token lets through is by the legitimate holder's name.
FenceHolds ==
  \A g \in grants :
    /\ g.token <= row[g.task].token
    /\ Holds(g.task, g.token) => row[g.task].owner = OwnerOf[g.worker]

\* One task and one token are never handed to two owners, in any interleaving of
\* claims, renewals, expiries and releases (queue.go:139-142).
GrantsAgree ==
  \A g, h \in grants :
    g.task = h.task /\ g.token = h.token => OwnerOf[g.worker] = OwnerOf[h.worker]

\* The log never announces an end the table does not hold: an entry for a
\* terminal state is the task's state from then on (queue.go:217-227).
JournalEndsAreTrue ==
  \A t \in Tasks : journal[t] \in Terminal => row[t].state = journal[t]

\* A task changes hands only through a new token, and only when it was free or
\* its deadline had passed; the attempt count follows every such change.
NoTheft ==
  [][\A t \in Tasks :
       /\ row'[t].owner \notin {NoOwner, row[t].owner} =>
            /\ row[t].state = "ready" \/ row[t].lease <= clock
            /\ row'[t].token > row[t].token
       /\ row'[t].attempt - row[t].attempt = row'[t].token - row[t].token]_vars

\* Done, failed and canceled are final: no late renewal, stale finish, repeated
\* filing or cancellation reopens or rewrites a closed task.
TerminalIsFinal ==
  [][\A t \in Tasks : row[t].state \in Terminal => row'[t] = row[t]]_vars

\* Reclaiming is not a special path (queue.go:144-147): a claim whose deadline
\* passes within the horizon is renewed, closed, handed back or taken over.
AbandonedIsReclaimed ==
  \A t \in Tasks : \A k \in 1 .. MaxToken - 1 :
    (Holds(t, k) /\ row[t].lease <= MaxClock)
      ~> (~Holds(t, k) \/ row[t].lease > MaxClock)

=============================================================================
