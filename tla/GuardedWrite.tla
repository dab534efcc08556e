---------------------------- MODULE GuardedWrite ----------------------------
(* The supervisor's fs/write_text_file (internal/supervisor/operation.go): an *)
(* agent's write runs under a one-path grant, leaves a durable intent before  *)
(* it and a durable effect after it, and is never delivered twice.  Every     *)
(* request runs on a goroutine of its own; operationMu serialises them with   *)
(* the installing and the revoking of grants.  The agent may exit and the     *)
(* daemon be restarted at any point.                                          *)
EXTENDS Integers, Sequences

CONSTANTS
  Requests,   \* JSON-RPC request ids: with the session, the operation ids
  Deliveries, \* handler goroutines, one per delivered request
  Paths, Contents,
  Auths,      \* authorization ids
  Fails,      \* whether the log and the file system may fail
  MaxAcp,     \* bound: sessions that come to carry this session id
  None        \* no grant, record, delivery or reply

ASSUME FailsAssumption == Fails \in BOOLEAN
ASSUME AcpAssumption == MaxAcp \in Nat \ {0}

\* What identifies an operation in the log: operationRecord without its outcome.
Record ==
  [req : Requests, path : Paths, content : Contents, auth : Auths, acp : 1..MaxAcp]

Inputs == [req : Requests, path : Paths, content : Contents]
Scopes == [auth : Auths, path : Paths, fresh : BOOLEAN]
Receipts == [rec : Record, ok : BOOLEAN]

ASSUME NoneAssumption ==
  None \notin Deliveries \cup Record \cup Inputs \cup Scopes \cup Receipts \cup BOOLEAN

VARIABLES
  scope,      \* the installed grant
  alive,      \* the agent's connection is open
  acp,        \* the agent-side session id of the session that is running
  lock,       \* who holds operationMu
  h,          \* each handler: its step, what it was asked, its record, its reply
  intent,     \* durable intents, by operation
  effect,     \* durable receipts: [rec, ok]
  writes,     \* history: the writes that reached the file system
  revoked     \* history: grants whose revocation has returned

vars == <<scope, alive, acp, lock, h, intent, effect, writes, revoked>>

Idle == [step |-> "idle", in |-> None, rec |-> None, ok |-> None]

\* Steps at which a handler holds operationMu.
Critical == {"admitted", "intended", "writing", "wrote", "failed"}

Init ==
  /\ scope = None
  /\ alive = TRUE
  /\ acp = 1
  /\ lock = None
  /\ h = [d \in Deliveries |-> Idle]
  /\ intent = [r \in Requests |-> None]
  /\ effect = [r \in Requests |-> None]
  /\ writes = <<>>
  /\ revoked = {}

-----------------------------------------------------------------------------
\* Grants.  Their ids are the operator's, who does not use a revoked one again.
AuthorizeWrite(a, p) ==
  /\ lock = None
  /\ a \notin revoked
  /\ scope' = [auth |-> a, path |-> p, fresh |-> TRUE]
  /\ UNCHANGED <<alive, acp, lock, h, intent, effect, writes, revoked>>

\* Mutant: a revocation does not wait for an admitted operation.
RevokeAtOnce ==
  /\ scope # None
  /\ scope' = None
  /\ revoked' = revoked \cup {scope.auth}
  /\ UNCHANGED <<alive, acp, lock, h, intent, effect, writes>>

RevokeWrite ==
  /\ lock = None
  /\ scope # None
  /\ scope' = None
  /\ revoked' = revoked \cup {scope.auth}
  /\ UNCHANGED <<alive, acp, lock, h, intent, effect, writes>>

Expire ==
  /\ scope # None /\ scope.fresh
  /\ scope' = [scope EXCEPT !.fresh = FALSE]
  /\ UNCHANGED <<alive, acp, lock, h, intent, effect, writes, revoked>>

-----------------------------------------------------------------------------
\* The read loop starts a handler; the same id may be delivered again, with the
\* same content or another.
Deliver(d, r, p, c) ==
  /\ alive
  /\ h[d].step = "idle"
  /\ h' = [h EXCEPT ![d] =
             [Idle EXCEPT !.step = "waiting", !.in = [req |-> r, path |-> p, content |-> c]]]
  /\ UNCHANGED <<scope, alive, acp, lock, intent, effect, writes, revoked>>

\* writeScopeAllows.
Allows(p) == scope # None /\ scope.path = p /\ scope.fresh

\* The record this request would leave, under the grant and the session of now.
Planned(in) ==
  [req |-> in.req, path |-> in.path, content |-> in.content, auth |-> scope.auth, acp |-> acp]

\* Mutant: the content's digest is not compared.
MatchesLoosely(old, new) == [old EXCEPT !.content = new.content] = new

\* A repeated operation must be the recorded one in every particular.
Matches(old, new) == old = new

\* What the durable history says of a request: perform it, it was performed, or
\* refuse it (it is another operation, it failed, or its outcome is uncertain).
Verdict(in) ==
  IF effect[in.req] # None
    THEN IF Matches(effect[in.req].rec, Planned(in)) /\ effect[in.req].ok
           THEN "performed" ELSE "refuse"
    ELSE IF intent[in.req] = None THEN "perform" ELSE "refuse"

\* Mutant: an early return leaves the lock held.
FinishLocked(d, ok) ==
  /\ h' = [h EXCEPT ![d].step = "answered", ![d].ok = ok]
  /\ UNCHANGED lock

\* Respond or RespondErr; the deferred Unlock.
Finish(d, ok) ==
  /\ h' = [h EXCEPT ![d].step = "answered", ![d].ok = ok]
  /\ lock' = None

\* The authority, owner and history checks, under the lock.
Admit(d) ==
  /\ lock = None
  /\ h[d].step = "waiting"
  /\ alive /\ Allows(h[d].in.path)
  /\ \/ /\ Verdict(h[d].in) = "perform"
        /\ lock' = d
        /\ h' = [h EXCEPT ![d].step = "admitted", ![d].rec = Planned(h[d].in)]
     \/ Verdict(h[d].in) = "performed" /\ Finish(d, TRUE)
     \/ Verdict(h[d].in) = "refuse" /\ Finish(d, FALSE)
     \/ Fails /\ Finish(d, FALSE)
  /\ UNCHANGED <<scope, alive, acp, intent, effect, writes, revoked>>

Deny(d) ==
  /\ lock = None
  /\ h[d].step = "waiting"
  /\ ~(alive /\ Allows(h[d].in.path))
  /\ Finish(d, FALSE)
  /\ UNCHANGED <<scope, alive, acp, intent, effect, writes, revoked>>

\* Mutant: the intent is recorded like telemetry, and its failure ignored.
RecordIntentLoosely(d) ==
  /\ h[d].step = "admitted"
  /\ intent' \in {intent, [intent EXCEPT ![h[d].rec.req] = h[d].rec]}
  /\ h' = [h EXCEPT ![d].step = "intended"]
  /\ UNCHANGED <<scope, alive, acp, lock, effect, writes, revoked>>

\* The append fails, or the unique index refuses a second intent.
RecordIntent(d) ==
  /\ h[d].step = "admitted"
  /\ \/ /\ intent[h[d].rec.req] = None
        /\ intent' = [intent EXCEPT ![h[d].rec.req] = h[d].rec]
        /\ h' = [h EXCEPT ![d].step = "intended"]
        /\ UNCHANGED lock
     \/ /\ Fails \/ intent[h[d].rec.req] # None
        /\ Finish(d, FALSE)
        /\ UNCHANGED intent
  /\ UNCHANGED <<scope, alive, acp, effect, writes, revoked>>

\* operationOwnerError, a second time.
CheckOwner(d) ==
  /\ h[d].step = "intended"
  /\ h' = [h EXCEPT ![d].step = IF alive THEN "writing" ELSE "failed"]
  /\ UNCHANGED <<scope, alive, acp, lock, intent, effect, writes, revoked>>

\* writeExactPath: the rename at its end happens or does not.
Write(d) ==
  /\ h[d].step = "writing"
  /\ \/ /\ writes' = Append(writes, h[d].rec)
        /\ h' = [h EXCEPT ![d].step = "wrote"]
     \/ /\ Fails
        /\ h' = [h EXCEPT ![d].step = "failed"]
        /\ UNCHANGED writes
  /\ UNCHANGED <<scope, alive, acp, lock, intent, effect, revoked>>

RecordEffect(d) ==
  /\ h[d].step \in {"wrote", "failed"}
  /\ \/ /\ effect' = [effect EXCEPT ![h[d].rec.req] =
                        [rec |-> h[d].rec, ok |-> h[d].step = "wrote"]]
        /\ Finish(d, h[d].step = "wrote")
     \/ Fails /\ Finish(d, FALSE) /\ UNCHANGED effect
  /\ UNCHANGED <<scope, alive, acp, intent, writes, revoked>>

Return(d) ==
  /\ h[d].step = "answered"
  /\ h' = [h EXCEPT ![d] = Idle]
  /\ UNCHANGED <<scope, alive, acp, lock, intent, effect, writes, revoked>>

-----------------------------------------------------------------------------
OwnerExits ==
  /\ alive
  /\ alive' = FALSE
  /\ UNCHANGED <<scope, acp, lock, h, intent, effect, writes, revoked>>

\* The daemon dies and a later session comes to carry the same session id.
Restart ==
  /\ acp < MaxAcp
  /\ acp' = acp + 1
  /\ alive' = TRUE
  /\ scope' = None
  /\ lock' = None
  /\ h' = [d \in Deliveries |-> Idle]
  /\ UNCHANGED <<intent, effect, writes, revoked>>

Handle(d) ==
  \/ Admit(d) \/ Deny(d) \/ RecordIntent(d) \/ CheckOwner(d)
  \/ Write(d) \/ RecordEffect(d) \/ Return(d)

Next ==
  \/ \E a \in Auths, p \in Paths : AuthorizeWrite(a, p)
  \/ RevokeWrite \/ Expire
  \/ \E d \in Deliveries :
       \/ \E r \in Requests, p \in Paths, c \in Contents : Deliver(d, r, p, c)
       \/ Handle(d)
  \/ OwnerExits \/ Restart

Spec == Init /\ [][Next]_vars

\* A goroutine that can run does; a mutex is not kept from a waiter for ever.
FairSpec ==
  Spec /\ \A d \in Deliveries : SF_vars(Admit(d) \/ Deny(d)) /\ WF_vars(Handle(d))

-----------------------------------------------------------------------------
Handlers ==
  [step : Critical \cup {"idle", "waiting", "answered"},
   in : Inputs \cup {None}, rec : Record \cup {None}, ok : BOOLEAN \cup {None}]

TypeOK ==
  /\ scope \in Scopes \cup {None}
  /\ alive \in BOOLEAN /\ acp \in 1..MaxAcp
  /\ lock \in Deliveries \cup {None}
  /\ h \in [Deliveries -> Handlers]
  /\ \A d \in Deliveries :
       /\ h[d].step # "idle" => h[d].in # None
       /\ h[d].step \in Critical => h[d].rec # None
       /\ h[d].step = "answered" => h[d].ok # None
       /\ h[d].step \in Critical <=> lock = d
  /\ intent \in [Requests -> Record \cup {None}]
  /\ effect \in [Requests -> Receipts \cup {None}]
  /\ writes \in Seq(Record) /\ revoked \subseteq Auths

\* No operation reaches the file system twice: over redelivery, failed appends,
\* an agent that exits and a daemon that restarts (operation.go:224-227).
AtMostOnce ==
  \A i, j \in 1..Len(writes) : writes[i].req = writes[j].req => i = j

\* A write has its intent in the log, exactly as it was carried out.
Audited == \A i \in 1..Len(writes) : intent[writes[i].req] = writes[i]

\* A receipt tells what happened, whoever reads it and whenever.
ReceiptTrue ==
  \A r \in Requests : effect[r] # None =>
    /\ effect[r].rec = intent[r]
    /\ effect[r].ok <=> \E i \in 1..Len(writes) : writes[i] = effect[r].rec

\* An agent told that its write succeeded has that content at that path, by this
\* session: a repeated id with another content or from another life is not told so.
OkIsEarned ==
  \A d \in Deliveries : h[d].step = "answered" /\ h[d].ok =>
    \E i \in 1..Len(writes) :
      /\ writes[i].acp = acp
      /\ [req |-> writes[i].req, path |-> writes[i].path, content |-> writes[i].content] = h[d].in

\* Nothing is written under a grant once its revocation has returned, nor under
\* any grant but the installed one, for its path (operation.go:47-48).
RevokedIsRevoked ==
  [][writes' # writes =>
       LET w == writes'[Len(writes')]
       IN  /\ w.auth \notin revoked
           /\ scope # None /\ scope.auth = w.auth /\ scope.path = w.path]_vars

\* Every request is answered or its agent's session is over: an agent that is
\* left without an answer waits for ever (acp/client.go:29-31).
Answered ==
  \A d \in Deliveries : h[d].step = "waiting" ~> h[d].step \in {"answered", "idle"}
=============================================================================
