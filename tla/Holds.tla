-------------------------------- MODULE Holds --------------------------------
(* File claims (internal/holds): mutual exclusion over trees of paths, all or *)
(* nothing, with leases.  A claim is a deferred SQLite transaction in WAL     *)
(* mode: the clock is read first, the live holds are read from a snapshot,    *)
(* the decision is made in Go, and the upserts commit only if nobody else     *)
(* committed since the snapshot (SQLITE_BUSY_SNAPSHOT otherwise).  The        *)
(* releases write with their first statement and are atomic.                  *)
(*                                                                           *)
(* A path is the sequence of its names; <<>> is the file system root, the one *)
(* cleaned absolute path that ends in a separator.  An agent is one MCP       *)
(* server process; it claims under its session's name.                        *)
EXTENDS Integers, Sequences, FiniteSets

CONSTANTS
  Agents,     \* processes that claim and release
  Owners,     \* session names
  OwnerOf,    \* the name each agent claims under
  NoOwner,    \* no row in the table
  Paths,      \* cleaned paths
  Leases,     \* lease lengths
  MaxClock    \* bound: time stops here

ASSUME OwnersAssumption == OwnerOf \in [Agents -> Owners] /\ NoOwner \notin Owners
ASSUME LeasesAssumption == Leases \subseteq Nat
ASSUME ClockAssumption == MaxClock \in Nat

VARIABLES
  hold,       \* the holds table: the row of each path
  op,         \* the claim each agent is making
  carried,    \* every grant told: the agent, the path and its fencing token
  promised,   \* until when each agent was last told it has each path
  clock       \* the machine's clock

vars == <<hold, op, carried, promised, clock>>

-----------------------------------------------------------------------------
Row == [owner : Owners \cup {NoOwner}, token : Nat, lease : Nat]
NoRow == [owner |-> NoOwner, token |-> 0, lease |-> 0]

Call == [step : {"idle", "begin", "decided"}, want : SUBSET Paths,
         now : Nat, lease : Leases \cup {0}, fresh : BOOLEAN]
Idle == [step |-> "idle", want |-> {}, now |-> 0, lease |-> 0, fresh |-> FALSE]

Init ==
  /\ hold = [p \in Paths |-> NoRow]
  /\ op = [a \in Agents |-> Idle]
  /\ carried = {}
  /\ promised = [a \in Agents |-> [p \in Paths |-> 0]]
  /\ clock = 0

-----------------------------------------------------------------------------
\* strings.HasPrefix(a, b + "/"): nothing has "//" for a prefix.
Inside(a, b) == b # <<>> /\ Len(b) < Len(a) /\ SubSeq(a, 1, Len(b)) = b

Overlaps(a, b) == a = b \/ Inside(a, b) \/ Inside(b, a)

\* The live holds of others that contend with a request, as of time now.
Conflicts(owner, want, now) ==
  {q \in Paths : /\ hold[q].owner \notin {NoOwner, owner}
                 /\ hold[q].lease > now
                 /\ \E p \in want : Overlaps(p, q)}

\* Mutant: the writer is not told that its snapshot is old.
OthersUnaware(calls, a) == calls

\* A commit leaves every other transaction with a snapshot that cannot write.
OthersStale(calls, a) ==
  [b \in Agents |-> IF b = a THEN calls[b] ELSE [calls[b] EXCEPT !.fresh = FALSE]]

-----------------------------------------------------------------------------
(* Claim.                                                                    *)
BeginClaim(a, want, lease) ==
  /\ op[a].step = "idle"
  /\ op' = [op EXCEPT ![a] = [Idle EXCEPT !.step = "begin", !.want = want,
                                          !.now = clock, !.lease = lease]]
  /\ UNCHANGED <<hold, carried, promised, clock>>

\* The snapshot shows no conflict: go on to write.
ClaimDecide(a) ==
  /\ op[a].step = "begin"
  /\ Conflicts(OwnerOf[a], op[a].want, op[a].now) = {}
  /\ op' = [op EXCEPT ![a].step = "decided", ![a].fresh = TRUE]
  /\ UNCHANGED <<hold, carried, promised, clock>>

\* ErrHeld, with the conflicts.
ClaimRefused(a) ==
  /\ op[a].step = "begin"
  /\ Conflicts(OwnerOf[a], op[a].want, op[a].now) # {}
  /\ op' = [op EXCEPT ![a] = Idle]
  /\ UNCHANGED <<hold, carried, promised, clock>>

\* Mutant: the paths taken are only those nobody else has a row for.
UpsertsFree(owner, want, deadline) ==
  [p \in Paths |->
     IF p \in want /\ hold[p].owner \in {NoOwner, owner}
       THEN [owner |-> owner, token |-> 1, lease |-> deadline] ELSE hold[p]]

\* One upsert a path: a new row has token 1, the owner's own keeps its token,
\* a change of hands bumps it.
Upserts(owner, want, deadline) ==
  [p \in Paths |->
     IF p \notin want THEN hold[p]
     ELSE [owner |-> owner, lease |-> deadline,
           token |-> CASE hold[p].owner = NoOwner -> 1
                       [] hold[p].owner = owner -> hold[p].token
                       [] OTHER -> hold[p].token + 1]]

ClaimCommit(a) ==
  /\ op[a].step = "decided"
  /\ op[a].fresh
  /\ LET want == op[a].want
         deadline == op[a].now + op[a].lease
     IN  /\ hold' = Upserts(OwnerOf[a], want, deadline)
         /\ carried' = carried \cup {[agent |-> a, path |-> p, token |-> hold'[p].token] : p \in want}
         /\ promised' = [promised EXCEPT ![a] = [p \in Paths |-> IF p \in want THEN deadline ELSE @[p]]]
  /\ op' = OthersStale([op EXCEPT ![a] = Idle], a)
  /\ UNCHANGED clock

\* The transaction fails (its snapshot is old, or the lock is not had in time),
\* or the process is killed before it commits: rolled back.
ClaimAborted(a) ==
  /\ op[a].step # "idle"
  /\ op' = [op EXCEPT ![a] = Idle]
  /\ UNCHANGED <<hold, carried, promised, clock>>

-----------------------------------------------------------------------------
(* Releases.  An agent that releases a path no longer counts on it.           *)
Drop(a, gone, asked) ==
  /\ op[a].step = "idle"
  /\ hold' = [p \in Paths |-> IF p \in gone THEN NoRow ELSE hold[p]]
  /\ promised' = [promised EXCEPT ![a] = [p \in Paths |-> IF p \in asked THEN 0 ELSE @[p]]]
  /\ op' = OthersStale(op, a)
  /\ UNCHANGED <<carried, clock>>

OwnedAmong(a, asked) == {p \in asked : hold[p].owner = OwnerOf[a]}

\* Release: with a token the agent was told, refused when no row matches it.
Release(a, token, asked) ==
  LET gone == {p \in OwnedAmong(a, asked) : hold[p].token = token}
  IN  gone # {} /\ Drop(a, gone, asked)

\* ReleaseOwned commits whether or not it matched a row; so does ReleaseAll.
ReleaseOwned(a, asked) == Drop(a, OwnedAmong(a, asked), asked)

ReleaseAll(a) == Drop(a, OwnedAmong(a, Paths), Paths)

Tick ==
  /\ clock < MaxClock
  /\ clock' = clock + 1
  /\ UNCHANGED <<hold, op, carried, promised>>

Next ==
  \/ Tick
  \/ \E a \in Agents :
       \/ \E want \in SUBSET Paths \ {{}}, lease \in Leases : BeginClaim(a, want, lease)
       \/ ClaimDecide(a) \/ ClaimRefused(a) \/ ClaimCommit(a) \/ ClaimAborted(a)
       \/ \E asked \in SUBSET Paths \ {{}} :
            \/ \E g \in carried : g.agent = a /\ Release(a, g.token, asked)
            \/ ReleaseOwned(a, asked)
       \/ ReleaseAll(a)

Spec == Init /\ [][Next]_vars

-----------------------------------------------------------------------------
TypeOK ==
  /\ hold \in [Paths -> Row]
  /\ op \in [Agents -> Call]
  /\ carried \subseteq [agent : Agents, path : Paths, token : Nat]
  /\ promised \in [Agents -> [Paths -> Nat]]
  /\ clock \in Nat

Live(p) == hold[p].owner # NoOwner /\ hold[p].lease > clock

\* Two live holds of different sessions never contend, however claims,
\* renewals, expiries and releases interleave (holds.go:17-31).
Exclusion ==
  \A p, q \in Paths :
    Live(p) /\ Live(q) /\ Overlaps(p, q) => hold[p].owner = hold[q].owner

\* What an agent was told it may edit, it alone holds until the time it was
\* told, unless it lets go itself: no expiry, claim or release of another agent
\* takes away any path of the set (holds.go:33-38).
GrantStands ==
  \A a \in Agents, p \in Paths :
    promised[a][p] > clock =>
      hold[p].owner = OwnerOf[a] /\ hold[p].lease = promised[a][p]

\* Two agents are never both told they may edit a file, or a directory and
\* something in it, at the same time (cmd/amac/attention.go:188-191).
OneAgentPerPath ==
  \A a, b \in Agents, p, q \in Paths :
    a # b /\ promised[a][p] > clock /\ promised[b][q] > clock => ~Overlaps(p, q)

=============================================================================
