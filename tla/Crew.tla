-------------------------------- MODULE Crew --------------------------------
(***************************************************************************)
(* The two ways to run the roles of one task: headless, by `amac do`       *)
(* (Orchestrator), or role by role as tmux sessions a person can take      *)
(* over, opened by `amac crew` in a terminal and by the board, which may   *)
(* be at it at the same time.                                              *)
(*                                                                         *)
(* A role's session is a tmux session that is typed a command reading its  *)
(* brief from a file (src/internal/crew/crew.go); its result is a file the *)
(* next role is told to read.  Everything anyone knows about the chain is  *)
(* those two facts, asked again at every step.                             *)
(***************************************************************************)
EXTENDS Orchestrator

CONSTANTS
    CrewSizes,  \* the sizes the openers ask for, or triage gives them
    MaxOpens    \* bound: requests to open

ASSUME OpensAreBounded == CrewSizes \subseteq Sizes /\ MaxOpens \in Nat

Openers == {"cli", "board"}

VARIABLES
    pane,       \* pane[r]: the tmux session of role r
    art,        \* art[r]: the file role r is to leave its result in
    written,    \* the roles whose file has had something in it
    brief,      \* brief[r]: the input named by r's brief file, None without one
    told,       \* told[r]: the input the agent in r's session was told to read
    req,        \* req[o]: what opener o is doing
    opens       \* requests made so far

crewVars == <<pane, art, written, brief, told, req, opens>>

Inputs == Roles \union {"", None}
Idle == [at |-> "idle", size |-> PairSize, role |-> "", mode |-> "first", i |-> 1]
Requests == [at : {"idle", "look", "open", "create", "seed"}, size : Sizes, role : Roles \union {""},
             mode : {"first", "next", "all"}, i : 1 .. 5]

CrewTypeOK ==
    /\ pane \in [Roles -> {"none", "bare", "typed", "live"}]
    /\ art \in [Roles -> {"none", "empty", "text"}]
    /\ written \subseteq Roles
    /\ brief \in [Roles -> Inputs]
    /\ told \in [Roles -> Inputs]
    /\ req \in [Openers -> Requests]
    /\ opens \in 0 .. MaxOpens

\* An earlier run of the task may have left its files.
CrewInit ==
    /\ pane = [r \in Roles |-> "none"]
    /\ art \in [Roles -> {"none", "text"}]
    /\ written = {r \in Roles : art[r] = "text"}
    /\ brief = [r \in Roles |-> None]
    /\ told = [r \in Roles |-> None]
    /\ req = [o \in Openers |-> Idle]
    /\ opens = 0

-----------------------------------------------------------------------------
(* What is known of a role.                                                *)

Exists(r) == pane[r] # "none"

\* A file that is there, whatever is in it.
HasFile(r) == r # "" /\ art[r] # "none"

\* An empty file is a role that opened it and died: the same as none.
HasArtifact(r) == r # "" /\ art[r] = "text"

\* The chain of a size: each role reads what the one before it leaves.
Attachable(s) ==
    [i \in DOMAIN Org(s) |-> [role |-> Org(s)[i], input |-> IF i = 1 THEN "" ELSE Org(s)[i - 1]]]

Status(s) ==
    CASE Exists(s.role) -> "running"
      [] ~Exists(s.role) /\ HasArtifact(s.role) -> "done"
      [] ~Exists(s.role) /\ ~HasArtifact(s.role) /\ s.input # "" /\ ~HasArtifact(s.input) -> "waiting"
      [] OTHER -> "ready"

Sess(o) == Attachable(req[o].size)[req[o].i]
More(o) == req[o].i <= Len(Org(req[o].size))
At(o, where) == req' = [req EXCEPT ![o].at = where]
LookOn(o) == req' = [req EXCEPT ![o].at = "look", ![o].i = @ + 1]
Drop(o) == req' = [req EXCEPT ![o] = Idle]

-----------------------------------------------------------------------------
(* A request to open.                                                      *)

Request(o, s, m, r) ==
    /\ req[o].at = "idle" /\ opens < MaxOpens
    /\ opens' = opens + 1
    /\ req' = [req EXCEPT ![o] = [Idle EXCEPT !.at = "look", !.size = s, !.mode = m, !.role = r]]
    /\ UNCHANGED <<pane, art, written, brief, told>>

\* `amac crew [-next|-all]`: the size is forced, or what triage says this time.
AskCli == \E s \in CrewSizes, m \in {"first", "next", "all"} : Request("cli", s, m, "")

\* A click: the next role that is ready, or one by name.
AskBoard == \E s \in CrewSizes : \E r \in Range(Org(s)) \union {""} : Request("board", s, "first", r)

\* A red line of the health tab handed to the org: a task of its own, sized
\* by triage every time, whose next role gets the verdict in its brief.
AskFix == \E s \in CrewSizes : Request("board", s, "first", "")

\* The board looks for a role that is ready, and refuses a named one that is not.
BoardLooks ==
    LET o == "board" IN
    /\ req[o].at = "look"
    /\ IF ~More(o) THEN Drop(o)
       ELSE IF req[o].role \notin {"", Sess(o).role} THEN LookOn(o)
       ELSE IF Status(Sess(o)) = "ready" THEN At(o, "open")
       ELSE IF req[o].role # "" THEN Drop(o) ELSE LookOn(o)
    /\ UNCHANGED <<pane, art, written, brief, told, opens>>

\* The terminal passes over a role whose session exists, and opens one whose
\* input is there, its own result or no.
CliLooks ==
    LET o == "cli" IN
    /\ req[o].at = "look"
    /\ IF ~More(o) THEN Drop(o)
       ELSE IF Exists(Sess(o).role) THEN LookOn(o)
       ELSE IF Sess(o).input = "" \/ HasArtifact(Sess(o).input) THEN At(o, "open")
       ELSE IF req[o].mode = "all" THEN LookOn(o) ELSE Drop(o)
    /\ UNCHANGED <<pane, art, written, brief, told, opens>>

\* Open asks again, and writes the brief, over any other.
WriteBrief(o) ==
    /\ req[o].at = "open"
    /\ IF Exists(Sess(o).role)
       THEN Drop(o) /\ UNCHANGED brief
       ELSE At(o, "create") /\ brief' = [brief EXCEPT ![Sess(o).role] = Sess(o).input]
    /\ UNCHANGED <<pane, art, written, told, opens>>

\* tmux makes a session with a shell in it, unless there is one of that name.
CreateSession(o) ==
    /\ req[o].at = "create"
    /\ IF Exists(Sess(o).role)
       THEN Drop(o) /\ UNCHANGED pane
       ELSE At(o, "seed") /\ pane' = [pane EXCEPT ![Sess(o).role] = "bare"]
    /\ UNCHANGED <<art, written, brief, told, opens>>

\* The command is typed into it and the opening is recorded. When the typing
\* fails the session is left as it is, with nothing in it.
Seed(o) ==
    /\ req[o].at = "seed"
    /\ \/ /\ Exists(Sess(o).role)
          /\ pane' = [pane EXCEPT ![Sess(o).role] = "typed"]
          /\ IF o = "cli" /\ req[o].mode # "first" THEN LookOn(o) ELSE Drop(o)
       \/ Drop(o) /\ UNCHANGED pane
    /\ UNCHANGED <<art, written, brief, told, opens>>

-----------------------------------------------------------------------------
(* The sessions, and the person among them.                                *)

\* The shell runs the command: the agent is told what the file says by now.
AgentStarts(r) ==
    /\ pane[r] = "typed"
    /\ pane' = [pane EXCEPT ![r] = "live"]
    /\ told' = [told EXCEPT ![r] = brief[r]]
    /\ UNCHANGED <<art, written, brief, req, opens>>

\* The agent creates its file, or empties it, and then fills it.
AgentWrites(r) ==
    /\ pane[r] = "live"
    /\ art' = [art EXCEPT ![r] = IF @ = "empty" THEN "text" ELSE "empty"]
    /\ written' = written \union {q \in Roles : art'[q] = "text"}
    /\ UNCHANGED <<pane, brief, told, req, opens>>

\* Somebody ends the session.
CloseSession(r) ==
    /\ Exists(r)
    /\ pane' = [pane EXCEPT ![r] = "none"]
    /\ told' = [told EXCEPT ![r] = None]
    /\ UNCHANGED <<art, written, brief, req, opens>>

\* The machine restarts: tmux, the terminal and the daemon with it.
Reboot ==
    /\ \E r \in Roles : Exists(r)
    /\ pane' = [r \in Roles |-> "none"]
    /\ told' = [r \in Roles |-> None]
    /\ req' = [o \in Openers |-> Idle]
    /\ UNCHANGED <<art, written, brief, opens>>

CrewNext ==
    \/ AskCli \/ AskBoard \/ AskFix
    \/ BoardLooks \/ CliLooks
    \/ \E o \in Openers : WriteBrief(o) \/ CreateSession(o) \/ Seed(o)
    \/ \E r \in Roles : AgentStarts(r) \/ AgentWrites(r) \/ CloseSession(r)
    \/ Reboot

-----------------------------------------------------------------------------
vars == <<doVars, crewVars>>

Init ==
    /\ CrewInit
    /\ \/ DoIdle
       \/ DoInit /\ written = {}

\* One task is run one way or the other.
Next ==
    \/ phase # "idle" /\ DoNext /\ UNCHANGED crewVars
    \/ phase = "idle" /\ CrewNext /\ UNCHANGED doVars

Spec == Init /\ [][Next]_vars /\ DoFairness

-----------------------------------------------------------------------------
(* Properties.                                                             *)

TypeOK == DoTypeOK /\ CrewTypeOK

\* Nothing is told to read what was never left: an agent whose brief names
\* the previous role's file runs only after that role put something in it,
\* whoever opened it, whatever sizes they had in mind and however their steps
\* met (crew.go:116, daemon/crew.go:120, cmd/amac/crew.go:82).
InputThere ==
    \A r \in Roles : pane[r] = "live" => told[r] \in {""} \union written

=============================================================================
