-------------------------------- MODULE Attention --------------------------------
(* Who is told what about a session, and what the board shows of it.          *)
(*                                                                            *)
(* Every signal is a process of its own (amac attention, cmd/amac/attention.go *)
(* over internal/attention): Claude's hooks are asynchronous, Codex's notify   *)
(* and the tmux bell fire together, and the board's own answers run in the     *)
(* daemon.  What they share is the event log, and each reads it and appends to *)
(* it in separate steps.  A hook may be killed at any of them.                 *)
EXTENDS Integers, Sequences, FiniteSets, FiniteSetsExt, SequencesExt

CONSTANTS
  Sessions,     \* tmux sessions
  Claude,       \* those that run Claude; the others run Codex
  None,         \* no session
  Hooks,        \* the Claude hooks that fire
  Signals,      \* processes at work at once
  DedupeWindow, \* attention.go: how long one message stands for the next
  MinTurn,      \* attention.go: the shortest turn whose end is worth a message
  Lifetime,     \* handoff.go: how long a link works
  MaxTime, MaxRows   \* bounds: the clock, and the rows of the log

ASSUME SessionsAssumption == Claude \subseteq Sessions /\ None \notin Sessions
ASSUME HooksAssumption ==
  Hooks \subseteq {"Notification", "Stop", "UserPromptSubmit", "PostToolUse", "SessionStart", "SessionEnd"}
ASSUME SignalsAssumption == IsFiniteSet(Signals)
ASSUME DurationsAssumption == {DedupeWindow, MinTurn, Lifetime, MaxTime, MaxRows} \subseteq Nat

VARIABLES
  now,      \* the clock
  log,      \* the session.state and attention events, oldest first
  links,    \* the links in the messages that reached the phone, till they expire
  signal    \* what each process is doing

attentionVars == <<now, log, links, signal>>

-----------------------------------------------------------------------------
Reasons == {"wants-attention", "turn-complete"}
States == {"working", "idle", "blocked", "ended"}
Details == {"", "asks", "said", "answered from the board", "continued in Terminal"}
Whys == {"", "not wanted", "already notified", "short turn", "recommender", "discord failed"}
Steps == {"free", "read", "append", "coalesce", "decide", "send", "record"}

NoState == [state |-> "", detail |-> "", account |-> FALSE]
StateOf == [state : States \cup {""}, detail : Details, account : BOOLEAN]
\* A session.state event (an attention event has NoState, and the reverse).
StateRow == [kind : {"state"}, session : Sessions, at : 0..MaxTime, state : StateOf]
\* An attention event; when, saw and reached are ghosts: when it was decided, the
\* rows the decision had seen, and whether a message did get to the phone.
AttentionRow == [kind : {"attention"}, session : Sessions, at : 0..MaxTime, reason : Reasons,
                 sent : BOOLEAN, why : Whys, when : 0..MaxTime, saw : 0..MaxRows, reached : BOOLEAN]

Free == [step |-> "free", session |-> None, reason |-> "", state |-> NoState,
         saw |-> 0, when |-> 0, why |-> "", reached |-> FALSE]

AttentionInit ==
  /\ now = 0 /\ log = <<>> /\ links = {}
  /\ signal = [g \in Signals |-> Free]

-----------------------------------------------------------------------------
(* Reading the log: the newest row of a kind, 0 when there is none.            *)
RowsOf(s, kinds) == {i \in DOMAIN log : log[i].session = s /\ log[i].kind \in kinds}
Newest(s, kinds) == IF RowsOf(s, kinds) = {} THEN 0 ELSE Max(RowsOf(s, kinds))

CurrentState(s) == IF Newest(s, {"state"}) = 0 THEN NoState ELSE log[Newest(s, {"state"})].state

\* The session's newest attention event, if it was delivered within the window.
recentlyNotified(s) ==
  LET i == Newest(s, {"attention"})
  IN i # 0 /\ log[i].sent /\ now - log[i].at <= DedupeWindow

\* The turn is the time since anything was last recorded of the session, the
\* state the same hook has just recorded included.
shortTurn(s, reason) ==
  LET i == Newest(s, {"state", "attention"})
  IN reason = "turn-complete" /\ MinTurn > 0 /\ i # 0 /\ now - log[i].at < MinTurn

\* A signal is unwanted under AMAC_QUIET and while the user looks at the session.
\* The rules in the order decide applies them; the recommender has its say only
\* when they all let the message through, and can only withhold it.
decide(g, unwanted, says) ==
  LET s == signal[g].session
  IN IF unwanted THEN "not wanted"
     ELSE IF recentlyNotified(s) THEN "already notified"
     ELSE IF shortTurn(s, signal[g].reason) THEN "short turn"
     ELSE says

\* What the recommender can do: say nothing (none exported, unreadable, or it
\* wants a feature nobody supplies), agree, or score the notice too low.
Recommender == {"", "recommender"}

-----------------------------------------------------------------------------
(* Signals.  A process reads the current state, appends the change, waits for  *)
(* a better signal, decides, sends and records, leaving out what its signal    *)
(* does not call for.                                                          *)
Room == Len(log) + 2 * Cardinality({g \in Signals : signal[g].step # "free"}) + 2 <= MaxRows

Starts(g, s, reason, state) ==
  /\ signal[g].step = "free" /\ Room
  /\ signal' = [signal EXCEPT ![g] =
       [Free EXCEPT !.session = s, !.reason = reason, !.state = state,
                    !.step = IF state # NoState THEN "read" ELSE "coalesce"]]
  /\ UNCHANGED <<now, log, links>>

\* What a Claude hook says of its session, and why it may ring the phone.
FromHook(hook) ==
  CASE hook = "Notification" -> [state |-> "blocked", detail |-> "asks", reason |-> "wants-attention"]
    [] hook = "Stop" -> [state |-> "idle", detail |-> "said", reason |-> "turn-complete"]
    [] hook \in {"UserPromptSubmit", "PostToolUse"} -> [state |-> "working", detail |-> "", reason |-> ""]
    [] hook = "SessionStart" -> [state |-> "idle", detail |-> "", reason |-> ""]
    [] hook = "SessionEnd" -> [state |-> "ended", detail |-> "", reason |-> ""]

\* amac attention -claude
ClaudeHook(g, s, hook) ==
  LET f == FromHook(hook)
  IN Starts(g, s, f.reason, [state |-> f.state, detail |-> f.detail, account |-> TRUE])

\* amac attention -codex and amac attention -bell: no state, always a notice.
CodexNotify(g, s) == Starts(g, s, "turn-complete", NoState)
Bell(g, s) == Starts(g, s, "wants-attention", NoState)

\* A reply typed on the board (sendKeys), which knows nothing of the account.
SendKeys(g, s) ==
  Starts(g, s, "", [state |-> "working", detail |-> "answered from the board", account |-> FALSE])

\* The session is opened in a terminal of the Mac and said to be idle there
\* (openSessionOnMac): by the board's own button, or by a link of a message that
\* is followed while it is valid.
OpenOnMac(g, s) ==
  Starts(g, s, "", [state |-> "idle", detail |-> "continued in Terminal", account |-> FALSE])

Valid(link, s) == link.session = s /\ link.expires > now /\ link.expires <= now + Lifetime + 1
SignedHandoff(g, s) == (\E link \in links : Valid(link, s)) /\ OpenOnMac(g, s)

Done(g) == [signal EXCEPT ![g] = Free]
\* What follows the state: nothing when the signal is not worth a notice.
Onward(g) ==
  IF signal[g].reason = "" THEN Done(g) ELSE [signal EXCEPT ![g].step = "coalesce", ![g].state = NoState]

\* The account is carried forward by those who do not know it.
Carried(want, prev) == [want EXCEPT !.account = @ \/ prev.account]
Unchanged(want, prev) == want = prev

\* RecordState reads the newest state of the session ...
ReadState(g) ==
  LET s == signal[g].session
      want == Carried(signal[g].state, CurrentState(s))
  IN /\ signal[g].step = "read"
     /\ IF Unchanged(want, CurrentState(s))
        THEN signal' = Onward(g)
        ELSE signal' = [signal EXCEPT ![g].step = "append", ![g].state = want]
     /\ UNCHANGED <<now, log, links>>

\* ... and appends the new one when it differs.
AppendState(g) ==
  /\ signal[g].step = "append"
  /\ log' = Append(log, [kind |-> "state", session |-> signal[g].session, at |-> now,
                         state |-> signal[g].state])
  /\ signal' = Onward(g)
  /\ UNCHANGED <<now, links>>

\* The log refuses it: the hook says so and goes on.
AppendFails(g) ==
  /\ signal[g].step = "append"
  /\ signal' = Onward(g)
  /\ UNCHANGED <<now, log, links>>

Coalesced(g) ==
  /\ signal[g].step = "coalesce"
  /\ signal' = [signal EXCEPT ![g].step = "decide"]
  /\ UNCHANGED <<now, log, links>>

Decide(g) ==
  /\ signal[g].step = "decide"
  /\ \E unwanted \in BOOLEAN, says \in Recommender :
       LET why == decide(g, unwanted, says)
       IN signal' = [signal EXCEPT ![g].why = why, ![g].when = now, ![g].saw = Len(log),
                                   ![g].step = IF why = "" THEN "send" ELSE "record"]
  /\ UNCHANGED <<now, log, links>>

\* SendHandoff: delivered, refused, or delivered with the answer lost.
Send(g) ==
  LET link == [session |-> signal[g].session, expires |-> now + Lifetime]
  IN /\ signal[g].step = "send"
     /\ \E reached \in BOOLEAN, failed \in BOOLEAN :
          /\ reached \/ failed
          /\ links' = IF reached THEN links \cup {link} ELSE links
          /\ signal' = [signal EXCEPT ![g].reached = reached, ![g].step = "record",
                                      ![g].why = IF failed THEN "discord failed" ELSE ""]
     /\ UNCHANGED <<now, log>>

\* A recorded outcome that forgets the failure of the send.
OutcomeTried(g) == signal[g].why \in {"", "discord failed"}

\* The outcome of a notice nothing held back.
Outcome(g) == signal[g].why = ""

Record(g) ==
  LET d == signal[g]
  IN /\ d.step = "record"
     /\ log' = Append(log, [kind |-> "attention", session |-> d.session, at |-> now, reason |-> d.reason,
                            sent |-> Outcome(g), why |-> d.why, when |-> d.when, saw |-> d.saw,
                            reached |-> d.reached])
     /\ signal' = Done(g)
     /\ UNCHANGED <<now, links>>

\* The process ends early: Claude Code stops a hook after 15 seconds, and the
\* deadline of Handle also keeps the record of a late send from being written.
Killed(g) ==
  /\ signal[g].step # "free"
  /\ signal' = Done(g)
  /\ UNCHANGED <<now, log, links>>

-----------------------------------------------------------------------------
Tick ==
  /\ now < MaxTime
  /\ now' = now + 1
  /\ links' = {link \in links : link.expires > now + 1}
  /\ UNCHANGED <<log, signal>>

AttentionNext ==
  \/ Tick
  \/ \E g \in Signals :
       \/ \E s \in Claude, hook \in Hooks : ClaudeHook(g, s, hook)
       \/ \E s \in Sessions \ Claude : CodexNotify(g, s) \/ Bell(g, s)
       \/ \E s \in Sessions : SendKeys(g, s) \/ OpenOnMac(g, s) \/ SignedHandoff(g, s)
       \/ ReadState(g) \/ AppendState(g) \/ AppendFails(g) \/ Coalesced(g) \/ Decide(g)
       \/ Send(g) \/ Record(g) \/ Killed(g)

AttentionSpec == AttentionInit /\ [][AttentionNext]_attentionVars

-----------------------------------------------------------------------------
(* The board's card of a session (tmuxSessions): what its hooks last said, and *)
(* where there are none what was last asked of the user, leaving out a signal  *)
(* that was withheld because it repeats another.                               *)
\* A duplicate is taken for a signal of its own.
noDuplicates(row) == FALSE

isDuplicateSignal(row) == ~row.sent /\ row.why = "already notified"
lastAttention(s) ==
  LET rows == {i \in RowsOf(s, {"attention"}) :
                 Cardinality({j \in RowsOf(s, {"attention"}) : j > i}) < 5 /\ ~isDuplicateSignal(log[i])}
  IN IF rows = {} THEN 0 ELSE Max(rows)

Card(s) ==
  CASE CurrentState(s) # NoState -> CurrentState(s).state
    [] CurrentState(s) = NoState /\ lastAttention(s) # 0 ->
         IF log[lastAttention(s)].reason = "wants-attention" THEN "blocked" ELSE "idle"
    [] OTHER -> "unknown"

-----------------------------------------------------------------------------
(* Properties                                                                  *)

\* Every variable has its type.
AttentionTypeOK ==
  /\ now \in 0..MaxTime
  /\ Len(log) <= MaxRows /\ log \in Seq(StateRow \cup AttentionRow)
  /\ links \subseteq [session : Sessions, expires : 0..MaxTime + Lifetime]
  /\ signal \in [Signals -> [step : Steps, session : Sessions \cup {None}, reason : Reasons \cup {""},
       state : StateOf, saw : 0..MaxRows, when : 0..MaxTime, why : Whys, reached : BOOLEAN]]

\* Row j of a session was decided when row i was in the log, within the window.
Repeats(i, j) == i < j /\ i <= log[j].saw /\ log[j].when - log[i].at <= DedupeWindow
Told(s) == {i \in RowsOf(s, {"attention"}) : log[i].sent}

\* A phone alert asks for one human response and is no heartbeat: after a message
\* nothing more is sent of its session till the window has passed (attention.go's
\* comment on DedupeWindow, and recentlyNotified's on itself).
NoPagerLoop ==
  \A s \in Sessions : \A i, j \in Told(s) :
    i < j => log[j].when - log[i].at > DedupeWindow

\* Nobody is kept in the dark by the log: a signal held because the user was
\* told already rests on a message of that session that did reach the phone
\* within the window, and an ask is never held for being quick (Handle, record,
\* recentlyNotified and shortTurn together).
SilenceIsEarned ==
  \A s \in Sessions : \A j \in RowsOf(s, {"attention"}) :
    /\ log[j].why = "already notified" => \E i \in Told(s) : Repeats(i, j) /\ log[i].reached
    /\ log[j].why = "short turn" => log[j].reason = "turn-complete"

\* The bell of a turn that was announced does not turn the card of a finished
\* session to blocked (decide's reason and the board's isDuplicateSignal).
FinishedStaysIdle ==
  \A s \in Sessions : \A i \in Told(s) :
    LET j == Newest(s, {"attention"})
    IN (/\ CurrentState(s) = NoState
        /\ log[i].reason = "turn-complete" /\ Repeats(i, j) /\ log[j].why # "not wanted"
        /\ ~\E k \in RowsOf(s, {"attention"}) : i < k /\ k < j)
         => Card(s) = "idle"

=============================================================================
