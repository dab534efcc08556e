---------------------------- MODULE Orchestrator ----------------------------
(***************************************************************************)
(* `amac do`: one prompt turned into the right amount of work.             *)
(*                                                                         *)
(* Orchestrator.Execute (src/internal/orchestrator/orchestrator.go) sizes  *)
(* the task, by asking a model through the router's cascade                *)
(* (src/internal/router/router.go) over the configured tiers               *)
(* (src/internal/model/provider.go), and then runs the roles of that size  *)
(* one after another as headless sessions, carrying each one's answer into *)
(* the next under a budget.  What a session says is put into the event log *)
(* by a goroutine of its own (supervisor.go), while Execute reads the      *)
(* answer and the cost from the log.                                       *)
(***************************************************************************)
EXTENDS Naturals, Sequences, FiniteSets, Functions, SequencesExt, TLC

CONSTANTS
    Budgets,    \* the values of -budget, in whole units; 0 is no ceiling
    Costs,      \* what an agent may say its session has cost
    Offers,     \* the sets of option kinds an agent may ask permission with
    MaxAsks,    \* bound: permission requests of one prompt
    MaxUpdates  \* bound: updates the agents of a run send

ASSUME BudgetsAreUnits == Budgets \subseteq Nat /\ Budgets # {} /\ Costs \subseteq Nat
ASSUME AsksAreBounded == MaxAsks \in Nat /\ MaxUpdates \in Nat

None == "none"

-----------------------------------------------------------------------------
(* The tiers and the org chart.                                            *)

Cheap == 0
Mid == 1
Strong == 2
Tiers == Cheap .. Strong

SoloSize == "solo"
PairSize == "pair"
TeamSize == "team"
Sizes == {SoloSize, PairSize, TeamSize}
Roles == {"planner", "executor", "verifier", "reviewer"}

\* The provider that answers for tier t: the closest stronger one configured,
\* else the closest weaker one.
Best(reg, t) ==
    LET stronger == {u \in reg : u >= t}
        weaker == {u \in reg : u < t}
    IN  IF stronger # {} THEN {CHOOSE u \in stronger : \A v \in stronger : u <= v}
        ELSE IF weaker # {} THEN {CHOOSE u \in weaker : \A v \in weaker : v <= u}
        ELSE {}

\* The tiers the environment configures: one key fills them all, another the
\* strong one, and each can be given a host of its own.
FromEnv(gmi, anthropic, own) ==
    (IF gmi THEN Tiers ELSE {}) \union (IF anthropic THEN {Strong} ELSE {}) \union own
Registries == {FromEnv(gmi, anthropic, own) : gmi, anthropic \in BOOLEAN, own \in SUBSET Tiers}

\* A prompt, by what its rules look at: its length and three kinds of words.
Prompts == [chars : {300, 1000, 1800, 3000, 9000}, judgement : BOOLEAN, code : BOOLEAN, structured : BOOLEAN]

\* The tier a prompt starts at. The order of the rules matters.
classify(p) ==
    IF p.chars > 8000 \/ p.judgement \/ (p.code /\ p.chars > 1500) THEN Strong
    ELSE IF (p.structured /\ p.chars < 2000) \/ p.chars < 400 THEN Cheap
    ELSE Mid
FirstTiers == {classify(p) : p \in Prompts}

Org(s) ==
    CASE s = SoloSize -> <<"executor">>
      [] s = PairSize -> <<"executor", "reviewer">>
      [] OTHER -> <<"planner", "executor", "verifier", "reviewer">>

-----------------------------------------------------------------------------
VARIABLES
    phase,      \* where Execute is: "triage", "graded", "role", "prompt", "read",
                \* "charge" or "done"; "idle" when nobody ran `amac do`
    reg,        \* the tiers that have a provider
    want,       \* the tier the cascade asks for next
    start,      \* the tier the prompt was classified at
    tried,      \* the tiers whose provider has run
    attempts,   \* Decision.Attempts
    approve,    \* the -approve policy: "auto" or "deny"
    size,       \* the size the run goes on with
    budget,     \* TotalUSD
    spent,      \* what the budget has been charged
    carry,      \* the last role's answer, as the next one is given it
    results,    \* run.Results: the roles dealt with, and why one was skipped
    sessions,   \* the sessions started: what each was told and sent, and what
                \* the log has of it by now
    parked,     \* the options of the permission request nobody has answered
    asks,       \* permission requests of the running prompt
    updates,    \* updates sent so far
    stopped     \* the context is canceled: Ctrl-C or SIGTERM

routeVars == <<reg, want, start, tried, attempts>>
roleVars == <<budget, spent, carry, results, sessions>>
doVars == <<phase, routeVars, approve, size, roleVars, parked, asks, updates, stopped>>

\* What an answer says: a size, something else, or nothing.
Words == Sizes \union {"prose", ""}
Attempts == [tier : Tiers, word : Words \union {"error"}, kept : BOOLEAN]
Results == [role : Roles, skipped : {None, "budget", "start failed", "prompt failed"}]

\* A session/update: a piece of the answer, or what the session has cost by now.
Updates == [text : {0, 1}, cost : Costs \union {0}]
Text == [text |-> 1, cost |-> 0]
Usage(c) == [text |-> 0, cost |-> c]

\* What is carried: the first pieces of a role's answer, none of them is nothing.
Handoffs == [from : Roles \union {""}, text : Nat]
Nothing == [from |-> "", text |-> 0]
HandOff(role, n) == IF n = 0 THEN Nothing ELSE [from |-> role, text |-> n]

\* stream: the updates on their way to the log; text and cost: what the log has
\* of those before; out: the pieces lastText found.
Sessions == [role : Roles, told : Handoffs, answered : BOOLEAN, out : Nat,
             stream : Seq(Updates), text : Nat, cost : Nat]

DoTypeOK ==
    /\ phase \in {"idle", "triage", "graded", "role", "prompt", "read", "charge", "done"}
    /\ reg \subseteq Tiers
    /\ want \in Cheap .. Strong + 1
    /\ start \in Tiers
    /\ tried \subseteq Tiers
    /\ attempts \in Seq(Attempts)
    /\ approve \in {"auto", "deny"}
    /\ size \in Sizes
    /\ budget \in Budgets
    /\ spent \in Nat
    /\ carry \in Handoffs
    /\ results \in Seq(Results) /\ Len(results) <= Len(Org(size))
    /\ sessions \in Seq(Sessions) /\ Len(sessions) <= Len(Org(size))
    /\ parked \subseteq Offers
    /\ asks \in 0 .. MaxAsks
    /\ updates \in 0 .. MaxUpdates
    /\ stopped \in BOOLEAN

DoInit ==
    /\ phase \in {"triage", "role"}
    /\ reg \in Registries
    /\ want \in FirstTiers
    /\ start = want
    /\ tried = {}
    /\ attempts = <<>>
    /\ approve \in {"auto", "deny"}
    /\ size \in Sizes
    /\ budget \in Budgets
    /\ spent = 0
    /\ carry = Nothing
    /\ results = <<>>
    /\ sessions = <<>>
    /\ parked = {}
    /\ asks = 0
    /\ updates = 0
    /\ stopped = FALSE
    \* -size skips triage, and nothing of the cascade then matters; without
    \* it the size is what triage says.
    /\ phase = "role" => reg = {} /\ want = Cheap
    /\ phase = "triage" => size = PairSize

DoIdle ==
    /\ phase = "idle" /\ reg = {} /\ want = Cheap /\ start = Cheap /\ tried = {} /\ attempts = <<>>
    /\ approve = "auto" /\ size = PairSize /\ budget = CHOOSE b \in Budgets : TRUE
    /\ spent = 0 /\ carry = Nothing /\ results = <<>> /\ sessions = <<>>
    /\ parked = {} /\ asks = 0 /\ updates = 0 /\ stopped = FALSE

-----------------------------------------------------------------------------
(* Triage: the cascade.                                                    *)

UnlessRouting == UNCHANGED <<approve, roleVars, parked, asks, updates, stopped, reg, start>>

\* Nobody is configured, or Best hands back a provider that has already run.
PassOver ==
    /\ phase = "triage"
    /\ want <= Strong
    /\ Best(reg, want) \subseteq tried
    /\ want' = want + 1
    /\ UNCHANGED <<phase, size, tried, attempts>>
    /\ UnlessRouting

\* The mark of a loop that remembers the tier it asked for.
AskedMark(asked, actual) == {asked}

\* What the loop marks as having run: the provider's own tier, not the one
\* that was asked for.
RanMark(asked, actual) == {actual}

\* A provider's reply: the call fails, or it has a choice or none, with some
\* text, and the reasoning it took.
Replies == [sent : BOOLEAN, choice : BOOLEAN, text : Words, reasoned : BOOLEAN]

\* Who may answer for a tier.
Hosts(tier) == IF tier = Strong THEN {"openai", "anthropic"} ELSE {"openai"}

\* What Complete makes of it. Anthropic's text is whatever came; of the others
\* a model that spent its tokens on reasoning and never answered is an error
\* and not an empty answer.
Complete(host, reply) ==
    CASE ~reply.sent -> "error"
      [] reply.sent /\ host = "anthropic" -> IF reply.choice THEN reply.text ELSE ""
      [] OTHER -> IF ~reply.choice \/ (reply.text = "" /\ reply.reasoned) THEN "error" ELSE reply.text

\* The verifier keeps an answer that is one of the sizes; the strongest tier
\* is not verified, since there is nowhere to escalate to.
Keeps(tier, word) == word # "error" /\ (word \in Sizes \/ tier = Strong)

\* One provider is asked. An error or a failed verification escalates.
Consult ==
    /\ phase = "triage"
    /\ want <= Strong
    /\ \E tier \in Best(reg, want) \ tried : \E host \in Hosts(tier), reply \in Replies :
        LET word == Complete(host, reply)
            kept == Keeps(tier, word)
        IN
        /\ tried' = tried \union RanMark(want, tier)
        /\ attempts' = Append(attempts, [tier |-> tier, word |-> word, kept |-> kept])
        /\ phase' = IF kept THEN "graded" ELSE phase
    /\ want' = want + 1
    /\ UNCHANGED size
    /\ UnlessRouting

\* No tier produced an acceptable answer.
GiveUp ==
    /\ phase = "triage"
    /\ want > Strong
    /\ phase' = "graded"
    /\ UNCHANGED <<want, tried, attempts, size>>
    /\ UnlessRouting

\* The answer is the size, unless there is none or it is not one: then the
\* heuristic decides, by words of the task, and may say any. The registry is
\* not asked again.
Triaged ==
    /\ phase = "graded"
    /\ LET last == attempts[Len(attempts)]
           said == IF Len(attempts) > 0 /\ last.kept THEN {last.word} \intersect Sizes ELSE {}
       IN  size' \in IF said # {} THEN said ELSE Sizes
    /\ phase' = "role"
    /\ reg' = {} /\ want' = Cheap /\ start' = Cheap /\ tried' = {} /\ attempts' = <<>>
    /\ UNCHANGED <<approve, roleVars, parked, asks, updates, stopped>>

-----------------------------------------------------------------------------
(* The roles.                                                              *)

Remaining == IF budget > spent THEN budget - spent ELSE 0

\* The ceiling, looked at before a role starts.
Exhausted == budget > 0 /\ Remaining <= 0

Role == Org(size)[Len(results) + 1]
RolesLeft == Len(results) < Len(Org(size))
Skip(why) == results' = Append(results, [role |-> Role, skipped |-> why])

BudgetSkip ==
    /\ phase = "role" /\ RolesLeft
    /\ Exhausted
    /\ Skip("budget")
    /\ UNCHANGED <<phase, routeVars, approve, size, budget, spent, carry, sessions, parked, asks, updates, stopped>>

StartFails ==
    /\ phase = "role" /\ RolesLeft
    /\ ~Exhausted
    /\ Skip("start failed")
    /\ UNCHANGED <<phase, routeVars, approve, size, budget, spent, carry, sessions, parked, asks, updates, stopped>>

\* The session starts, and is prompted with the role's brief, the task and
\* what is being carried.
StartRole ==
    /\ phase = "role" /\ RolesLeft
    /\ ~Exhausted
    /\ ~stopped
    /\ sessions' = Append(sessions, [role |-> Role, told |-> carry, answered |-> FALSE, out |-> 0,
                                     stream |-> <<>>, text |-> 0, cost |-> 0])
    /\ phase' = "prompt"
    /\ asks' = 0
    /\ UNCHANGED <<routeVars, approve, size, budget, spent, carry, results, parked, updates, stopped>>

\* A policy that only ever grants once.
AnswersOnce(policy, kinds) == policy = "deny" \/ "allow_once" \in kinds

\* LeastPermissiveAllow answers when some allow option is offered, and
\* RejectAll always; what neither answers stays open, with nobody watching.
Allows(kinds) == {"allow_once", "allow_always"} \intersect kinds # {}
Answers(policy, kinds) == policy = "deny" \/ Allows(kinds)

\* The agent asks for permission.
AskPermission ==
    /\ phase = "prompt" /\ parked = {}
    /\ asks < MaxAsks
    /\ asks' = asks + 1
    /\ \E kinds \in Offers : parked' = IF Answers(approve, kinds) THEN {} ELSE {kinds}
    /\ UNCHANGED <<phase, routeVars, approve, size, roleVars, updates, stopped>>

\* The agent, until its session is closed, says more of its answer or what it
\* has cost, and the client queues it.
AgentUpdates ==
    /\ phase \in {"prompt", "read"}
    /\ updates < MaxUpdates
    /\ updates' = updates + 1
    /\ \E u \in {Text} \union {Usage(c) : c \in Costs} :
        sessions' = [sessions EXCEPT ![Len(sessions)].stream = Append(@, u)]
    /\ UNCHANGED <<phase, routeVars, approve, size, budget, spent, carry, results, parked, asks, stopped>>

\* consume puts the next update into the log, in its own time, also after the
\* session is closed; a write the log refuses is lost. The cost in the log is
\* the highest that was said.
Consume(i) ==
    /\ sessions[i].stream # <<>>
    /\ LET s == sessions[i]
           u == Head(s.stream)
       IN  \E written \in BOOLEAN :
            sessions' = [sessions EXCEPT ![i] =
                [s EXCEPT !.stream = Tail(@),
                          !.text = IF written THEN @ + u.text ELSE @,
                          !.cost = IF written /\ u.cost > @ THEN u.cost ELSE @]]
    /\ UNCHANGED <<phase, routeVars, approve, size, budget, spent, carry, results, parked, asks, updates, stopped>>

\* The agent ends its turn, whatever of it the log has by then.
TurnEnds ==
    /\ phase = "prompt" /\ parked = {}
    /\ phase' = "read"
    /\ UNCHANGED <<routeVars, approve, size, roleVars, parked, asks, updates, stopped>>

\* The agent fails its turn or dies, or the run is interrupted, also with a
\* request still open: the session is closed and there is no answer.
TurnFails ==
    /\ phase = "prompt"
    /\ phase' = "charge"
    /\ parked' = {}
    /\ UNCHANGED <<routeVars, approve, size, roleVars, asks, updates, stopped>>

\* A handoff that a role which had nothing to say leaves alone.
CarriedIfAny(role, n) == IF n = 0 THEN carry ELSE HandOff(role, n)

\* What the log has of the answer (cut to 4000 bytes) replaces what was carried,
\* even when it has nothing.
Carried(role, n) == HandOff(role, n)

\* The answer is read back from the log and the session is closed. The log is
\* read on the run's own context: once that is canceled, nothing is.
ReadAnswer ==
    /\ phase = "read"
    /\ LET s == sessions[Len(sessions)]
           n == IF stopped THEN 0 ELSE s.text
       IN  /\ sessions' = [sessions EXCEPT ![Len(sessions)].answered = TRUE, ![Len(sessions)].out = n]
           /\ carry' = Carried(s.role, n)
    /\ phase' = "charge"
    /\ UNCHANGED <<routeVars, approve, size, budget, spent, results, parked, asks, updates, stopped>>

\* The budget is charged with the cost in the log, whether the role answered or
\* not.
Charge ==
    /\ phase = "charge"
    /\ spent' = spent + (IF stopped THEN 0 ELSE sessions[Len(sessions)].cost)
    /\ Skip(IF sessions[Len(sessions)].answered THEN None ELSE "prompt failed")
    /\ phase' = "role"
    /\ UNCHANGED <<routeVars, approve, size, budget, carry, sessions, parked, asks, updates, stopped>>

Report ==
    /\ phase = "role" /\ ~RolesLeft
    /\ phase' = "done"
    /\ UNCHANGED <<routeVars, approve, size, roleVars, parked, asks, updates, stopped>>

Interrupt ==
    /\ phase \in {"role", "prompt", "read", "charge"} /\ ~stopped
    /\ stopped' = TRUE
    /\ UNCHANGED <<phase, routeVars, approve, size, roleVars, parked, asks, updates>>

DoNext ==
    \/ PassOver \/ Consult \/ GiveUp \/ Triaged
    \/ BudgetSkip \/ StartFails \/ StartRole \/ AskPermission \/ AgentUpdates
    \/ \E i \in DOMAIN sessions : Consume(i)
    \/ TurnEnds \/ TurnFails \/ ReadAnswer \/ Charge \/ Report
    \/ Interrupt

\* Execute runs on, and an agent that has been answered ends its turn.
DoFairness ==
    /\ WF_doVars(PassOver \/ Consult \/ GiveUp \/ Triaged)
    /\ WF_doVars(BudgetSkip \/ StartFails \/ StartRole \/ ReadAnswer \/ Charge \/ Report)
    /\ WF_doVars(TurnEnds)

-----------------------------------------------------------------------------
(* Properties.                                                             *)

\* Each role is given the answer of the nearest role before it that answered, as
\* far as the log had it when it was read, and nothing else: a role that was
\* skipped or failed in between neither clears it nor replaces it; and the log
\* keeps what it was given (orchestrator.go:296-298: "anything the next role
\* sees, replay can see too").
CarryHolds ==
    \A i \in DOMAIN sessions :
        LET heard == {j \in 1 .. i - 1 : sessions[j].answered}
            last == CHOOSE j \in heard : \A k \in heard : k <= j
        IN  /\ sessions[i].out <= sessions[i].text
            /\ sessions[i].told =
                 IF heard = {} THEN Nothing ELSE HandOff(sessions[last].role, sessions[last].out)

\* The cascade runs no provider twice, keeps an answer below the strongest
\* tier only if it survived the check, stops at the first one it keeps, and
\* gives up only when every provider at or above the tier the prompt was
\* classified at has been asked (router.go:104-145).
RouteSound ==
    /\ \A i, j \in DOMAIN attempts : attempts[i].tier = attempts[j].tier => i = j
    /\ \A i \in DOMAIN attempts :
        attempts[i].kept =>
            /\ i = Len(attempts)
            /\ attempts[i].word \in Sizes \/ attempts[i].tier = Strong
    /\ phase = "graded" /\ ~(\E i \in DOMAIN attempts : attempts[i].kept) =>
        {t \in reg : t >= start} \subseteq {attempts[i].tier : i \in DOMAIN attempts}

\* A headless run, which nobody watches (orchestrator.go:101), ends and reports
\* on every role; or it waits for an answer nobody will give, and then to a
\* request that offers nothing to allow.
Reported ==
    phase # "idle" ~>
        \/ phase = "done" /\ Len(results) = Len(Org(size))
        \/ \E kinds \in parked : approve = "auto" /\ ~Allows(kinds)

=============================================================================
