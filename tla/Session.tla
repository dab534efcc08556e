-------------------------------- MODULE Session --------------------------------
(* One agent session of the supervisor (internal/supervisor): the state the   *)
(* board shows, the question it waits on, the policy that may answer it, and  *)
(* how it starts, dies, is closed and is shut down.  Every question, prompt   *)
(* and board request runs on a goroutine of its own; one consumes the agent's *)
(* updates and one watches for its exit.  Of the connection (AcpClient) only  *)
(* the process shows, and whether the read loop has ended.                    *)

CONSTANTS
  Questions,  \* permission requests the agent makes
  Allowing,   \* those that offer an option that allows
  Parallel,   \* whether the agent asks before its last question is answered
  Modes,      \* permission modes somebody sets
  LosesSync,  \* whether the read loop may give up on a live process
  None        \* no question, no answer

ASSUME QuestionsAssumption ==
  Allowing \subseteq Questions /\ None \notin Questions \cup {"allow", "cancel"}
ASSUME SwitchesAssumption == Parallel \in BOOLEAN /\ LosesSync \in BOOLEAN
ASSUME ModesAssumption == "ask" \in Modes /\ Modes \subseteq {"ask", "auto", "reject"}

VARIABLES
  phase,      \* Start: starting, registered, running, failed
  state,      \* what the board shows
  pending,    \* the question the board shows
  mode,       \* the permission mode
  q,          \* each question: its handler's step, the decision, what the agent is told
  applying,   \* SetPresentation calls that hold a question and the mode to apply to it
  turn,       \* Prompt: idle, called
  drained,    \* consume has returned
  proc,       \* the agent process
  done,       \* the read loop has ended
  listed,     \* the supervisor lists the session
  watch,      \* watchExit: none, watching, ended, gone
  stop,       \* a Close from the board: no, marked
  shut        \* Shutdown: no, marked, waiting, returned

vars == <<phase, state, pending, mode, q, applying, turn, drained,
          proc, done, listed, watch, stop, shut>>

board == <<mode, applying>>
life == <<phase, proc, done, listed, watch, stop, shut>>

-----------------------------------------------------------------------------
States == {"starting", "idle", "working", "blocked", "ended"}
Choices == {"allow", "cancel"}

\* The steps of handlePermission.
Steps == {"unasked", "read", "posted", "asked", "parked", "settled", "cleared", "over"}
Open == {"posted", "asked", "parked", "settled"}

Init ==
  /\ phase = "starting" /\ state = "starting" /\ pending = None /\ mode = "ask"
  /\ q = [x \in Questions |-> [step |-> "unasked", reply |-> None, told |-> None]]
  /\ applying = {}
  /\ turn = "idle" /\ drained = FALSE
  /\ proc = "running" /\ done = FALSE /\ listed = FALSE /\ watch = "none"
  /\ stop = "no" /\ shut = "no"

-----------------------------------------------------------------------------
(* Start.                                                                    *)
Register ==
  /\ phase = "starting"
  /\ phase' = "registered" /\ listed' = TRUE
  /\ UNCHANGED <<state, pending, q, board, turn, drained, proc, done, watch, stop, shut>>

\* The handshake fails: the client is closed and the session never listed.
StartFails ==
  /\ phase = "starting"
  /\ phase' = "failed" /\ proc' = "exited"
  /\ UNCHANGED <<state, pending, q, board, turn, drained, done, listed, watch, stop, shut>>

\* Ready, and the two goroutines.
Ready ==
  /\ phase = "registered"
  /\ phase' = "running" /\ state' = "idle" /\ watch' = "watching"
  /\ UNCHANGED <<pending, q, board, turn, drained, proc, done, listed, stop, shut>>

-----------------------------------------------------------------------------
(* The agent and its process: what it wrote is read even after it exited.    *)
Asks(x) ==
  /\ ~done
  /\ q[x].step = "unasked"
  /\ Parallel \/ \A y \in Questions : q[y].step = "unasked" \/ q[y].told # None
  /\ q' = [q EXCEPT ![x].step = "read"]
  /\ UNCHANGED <<state, pending, board, turn, drained, life>>

Exits ==
  /\ proc = "running"
  /\ proc' = "exited"
  /\ UNCHANGED <<phase, state, pending, q, board, turn, drained, done, listed, watch, stop, shut>>

\* The read loop ends: the output did, or it makes no sense, or overflowed.
LoopEnds ==
  /\ ~done
  /\ proc = "exited" \/ LosesSync
  /\ done' = TRUE
  /\ UNCHANGED <<phase, state, pending, q, board, turn, drained, proc, listed, watch, stop, shut>>

-----------------------------------------------------------------------------
(* handlePermission.                                                         *)

\* Mutant: the last decision counts.
DecidedLast(x, choice) == [q EXCEPT ![x].reply = choice]

\* once: the first decision is the one that counts.
Decided(x, choice) == IF q[x].reply = None THEN [q EXCEPT ![x].reply = choice] ELSE q

\* What a mode says of a question, or None: LeastPermissiveAllow, RejectAll.
Policy(m, x) ==
  CASE m = "auto" /\ x \in Allowing -> "allow"
    [] m = "reject" -> "cancel"
    [] OTHER -> None

Post(x) ==
  /\ q[x].step = "read"
  /\ pending' = x
  /\ q' = [q EXCEPT ![x].step = "posted"]
  /\ UNCHANGED <<state, board, turn, drained, life>>

Block(x) ==
  /\ q[x].step = "posted"
  /\ state' = "blocked"
  /\ q' = [q EXCEPT ![x].step = "asked"]
  /\ UNCHANGED <<pending, board, turn, drained, life>>

\* An unattended policy answers first, if it has an opinion.
Consult(x) ==
  /\ q[x].step = "asked"
  /\ LET decided == IF Policy(mode, x) = None THEN q ELSE Decided(x, Policy(mode, x))
     IN  q' = [decided EXCEPT ![x].step = "parked"]
  /\ UNCHANGED <<state, pending, board, turn, drained, life>>

\* Mutants: the agent hears before the question is taken down; only an answer
\* ends the wait.
SettleAndTell(x) ==
  /\ q[x].step = "parked"
  /\ \/ q[x].reply # None /\ q' = [q EXCEPT ![x].step = "settled", ![x].told = q[x].reply]
     \/ done /\ q' = [q EXCEPT ![x].step = "settled", ![x].told = "cancel"]
  /\ UNCHANGED <<state, pending, board, turn, drained, life>>

SettleByReply(x) ==
  /\ q[x].step = "parked"
  /\ q[x].reply # None
  /\ q' = [q EXCEPT ![x].step = "settled"]
  /\ UNCHANGED <<state, pending, board, turn, drained, life>>

\* An answer, or the end of the connection; either may be seen first.
Settle(x) ==
  /\ q[x].step = "parked"
  /\ q[x].reply # None \/ done
  /\ q' = [q EXCEPT ![x].step = "settled"]
  /\ UNCHANGED <<state, pending, board, turn, drained, life>>

\* Whatever question is shown is taken down.
Clear(x) ==
  /\ q[x].step = "settled"
  /\ pending' = None
  /\ q' = [q EXCEPT ![x].step = "cleared"]
  /\ UNCHANGED <<state, board, turn, drained, life>>

\* The outcome select took: the reply, or a cancellation once the loop ended.
Respond(x) ==
  /\ q[x].step = "cleared"
  /\ state' = "working"
  /\ \E outcome \in {q[x].reply} \cup (IF done THEN {"cancel"} ELSE {}) :
       outcome # None /\ q' = [q EXCEPT ![x].step = "over", ![x].told = outcome]
  /\ UNCHANGED <<pending, board, turn, drained, life>>

Handle(x) ==
  Post(x) \/ Block(x) \/ Consult(x) \/ Settle(x) \/ Clear(x) \/ Respond(x)

-----------------------------------------------------------------------------
(* The board.                                                                *)
\* Answer: the request names an option, of whatever question is shown by then.
Answer(choice) ==
  /\ listed /\ pending # None
  /\ choice = "cancel" \/ pending \in Allowing
  /\ q' = Decided(pending, choice)
  /\ UNCHANGED <<state, pending, mode, applying, turn, drained, life>>

\* SetPresentation: the mode and the question under one lock.
SetMode(m) ==
  /\ listed
  /\ mode # m
  /\ mode' = m
  /\ applying' = IF pending # None /\ Policy(m, pending) # None
                   THEN applying \cup {<<pending, m>>} ELSE applying
  /\ UNCHANGED <<state, pending, q, turn, drained, life>>

\* Then the policy, after the update is on record.
Apply(x, m) ==
  /\ <<x, m>> \in applying
  /\ applying' = applying \ {<<x, m>>}
  /\ q' = Decided(x, Policy(m, x))
  /\ UNCHANGED <<state, pending, mode, turn, drained, life>>

Prompt ==
  /\ listed /\ turn = "idle"
  /\ turn' = "called" /\ state' = "working"
  /\ UNCHANGED <<pending, q, board, drained, life>>

\* The call returns, with the turn's end or an error.
TurnEnds ==
  /\ turn = "called"
  /\ turn' = "idle" /\ state' = "idle"
  /\ UNCHANGED <<pending, q, board, drained, life>>

-----------------------------------------------------------------------------
(* The session's goroutines.                                                 *)

\* A tool call with a title and a status: whatever else was shown, it is working.
Consume ==
  /\ watch # "none" /\ ~drained
  /\ state' = "working"
  /\ UNCHANGED <<pending, q, board, turn, drained, life>>

\* The channel is closed and what was queued in it is consumed.
Drain ==
  /\ watch # "none" /\ ~drained /\ done
  /\ drained' = TRUE
  /\ UNCHANGED <<state, pending, q, board, turn, life>>

WatchExit ==
  /\ watch = "watching" /\ done
  /\ watch' = "ended" /\ state' = "ended"
  /\ UNCHANGED <<pending, q, board, turn, drained, phase, proc, done, listed, stop, shut>>

Unlist ==
  /\ watch = "ended"
  /\ watch' = "gone" /\ listed' = FALSE
  /\ UNCHANGED <<state, pending, q, board, turn, drained, phase, proc, done, stop, shut>>

\* Close: mark it ended, then kill the process and wait for it.
StopMark ==
  /\ listed /\ stop = "no"
  /\ stop' = "marked" /\ state' = "ended"
  /\ UNCHANGED <<pending, q, board, turn, drained, phase, proc, done, listed, watch, shut>>

StopKill ==
  /\ stop = "marked"
  /\ stop' = "no" /\ proc' = "exited"
  /\ UNCHANGED <<state, pending, q, board, turn, drained, phase, done, listed, watch, shut>>

\* Shutdown: close what is listed, wait for the goroutines that were started.
ShutMark ==
  /\ shut = "no"
  /\ IF listed THEN shut' = "marked" /\ state' = "ended"
               ELSE shut' = "waiting" /\ UNCHANGED state
  /\ UNCHANGED <<pending, q, board, turn, drained, phase, proc, done, listed, watch, stop>>

\* Mutant: the process is left to notice by itself.
ShutKillNot ==
  /\ shut = "marked"
  /\ shut' = "waiting"
  /\ UNCHANGED <<state, pending, q, board, turn, drained, phase, proc, done, listed, watch, stop>>

ShutKill ==
  /\ shut = "marked"
  /\ shut' = "waiting" /\ proc' = "exited"
  /\ UNCHANGED <<state, pending, q, board, turn, drained, phase, done, listed, watch, stop>>

ShutReturn ==
  /\ shut = "waiting"
  /\ watch = "none" \/ (watch = "gone" /\ drained)
  /\ shut' = "returned"
  /\ UNCHANGED <<state, pending, q, board, turn, drained, phase, proc, done, listed, watch, stop>>

Running == Consume \/ Drain \/ WatchExit \/ Unlist \/ StopKill \/ ShutKill \/ ShutReturn \/ Ready

Next ==
  \/ Register \/ StartFails
  \/ Exits \/ LoopEnds
  \/ \E x \in Questions : Asks(x) \/ Handle(x) \/ (\E m \in Modes : Apply(x, m))
  \/ \E choice \in Choices : Answer(choice)
  \/ \E m \in Modes : SetMode(m)
  \/ Prompt \/ TurnEnds
  \/ Running \/ StopMark \/ ShutMark

Spec == Init /\ [][Next]_vars

\* Goroutines run, and the loop of a process that is gone ends.  No person, no
\* agent and no process need do anything.
FairSpec ==
  /\ Spec
  /\ \A x \in Questions : WF_vars(Handle(x))
  /\ WF_vars(Drain) /\ WF_vars(WatchExit \/ Unlist) /\ WF_vars(Ready)
  /\ WF_vars(StopKill) /\ WF_vars(ShutKill \/ ShutReturn)
  /\ WF_vars(proc = "exited" /\ LoopEnds)

-----------------------------------------------------------------------------
TypeOK ==
  /\ phase \in {"starting", "registered", "running", "failed"}
  /\ state \in States /\ mode \in Modes
  /\ q \in [Questions -> [step : Steps, reply : Choices \cup {None}, told : Choices \cup {None}]]
  /\ pending \in Questions \cup {None}
  /\ pending # None => q[pending].step \in Open
  /\ applying \subseteq Questions \X Modes
  /\ turn \in {"idle", "called"} /\ drained \in BOOLEAN
  /\ proc \in {"running", "exited"} /\ done \in BOOLEAN /\ listed \in BOOLEAN
  /\ watch \in {"none", "watching", "ended", "gone"}
  /\ stop \in {"no", "marked"} /\ shut \in {"no", "marked", "waiting", "returned"}

\* A question that waits for somebody is the one the board shows and Answer
\* reaches, if the agent asks one at a time (session.go:111-137).
QuestionShown ==
  \A x \in Questions : q[x].step = "parked" /\ q[x].reply = None => pending = x

\* The board lists as blocked only sessions that some question holds up
\* (supervisor.go:213-224), though five goroutines set the state.
BlockedIsReal ==
  state = "blocked" => \E x \in Questions : q[x].step \in {"asked", "parked", "settled", "cleared"}

\* A mode reaches the question that is already parked, whichever of the two
\* came first (session.go:111-113): none waits on that its mode decides, unless
\* the call that set the mode is on its way to it.
ModeReaches ==
  \A x \in Questions :
    q[x].step = "parked" /\ q[x].reply = None /\ Policy(mode, x) # None
      => <<x, mode>> \in applying

\* One decision a question: what the agent is told is the first of them, from
\* whichever client, policy or mode, or that its connection ended.
DecidedOnce ==
  [][\A x \in Questions :
       /\ q[x].reply # None => q'[x].reply = q[x].reply
       /\ q'[x].told # q[x].told =>
            q[x].told = None /\ (q'[x].told = q[x].reply \/ (done /\ q'[x].told = "cancel"))]_vars

\* A decision gets to the agent, and a dead agent's question does not keep its
\* goroutine for ever (session.go:334-346).
ParkedEnds ==
  \A x \in Questions :
    (q[x].step # "unasked" /\ (q[x].reply # None \/ done)) ~> q[x].step = "over"

\* Shutdown of a session it found returns, however the session ends
\* (supervisor.go:226-237).
ShutdownEnds == (shut = "marked") ~> (shut = "returned")

=============================================================================
