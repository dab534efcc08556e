# AMAC in TLA+

AMAC watches and drives coding agents from one always-on daemon. Everything it
knows goes through one SQLite file: an append-only event log, and beside it the
tables of the work queue, of the file holds and of the tracked applications.
The file is written by several processes at once: the daemon, one MCP server
per agent, hooks that live for a second, and the `amac` command line.

This directory models that program. Each component has a module with its state
as variables and one action per step that another process can come between, an
`MC` module and `.cfg` files that give it small instances for TLC, and, where
there are theorems, a `...Proofs` module that extends it. `PROJECT.json` maps
every definition to the lines it stands for, lists the runs, and gives for
every property a mutation of the model that a plausible bug would be.

    tlc -config QueueClaims.cfg MCQueue      one run
    tlapm QueueProofs.tla                    one module's proofs

## 1. The system

| part | state | operations | shares it with |
|---|---|---|---|
| event log (`internal/event`) | the `events` table; subscribers of this process | `Append`, `Since`, `Subscribe`, `Apply` (retention) | every process; every other part appends |
| live stream (`internal/daemon/server.go`) | one handler's high-water mark | replay the backlog, forward the subscription | the board, by `Last-Event-ID` |
| work queue (`internal/queue`) | the `tasks` table | `File`, `Claim`, `Renew`, `Finish`, `Release`, `CancelReady` | board, command line, health sweep |
| file holds (`internal/holds`) | the `holds` table | `Claim`, `Release`, `ReleaseOwned`, `ReleaseAll` | one MCP process per agent |
| supervisor (`internal/supervisor`) | sessions, their state, the open question, the write grant | start, prompt, permission, guarded writes, close, shutdown | its agents over ACP, the board |
| ACP client (`internal/acp`) | calls in flight, the notification queue | call, cancel, notify, handle, fail, reap | the supervisor, one agent process |
| attention (`internal/attention`) | none but the log | translate, record a state, decide, send, debounce | hooks of every agent turn, the board |
| health (`internal/health`, `cmd/amac/health.go`) | none but the log | probe, record, compare with the last sweep, alert, report runs | a timer, by hand |
| applications (`internal/apply`) | the `applications` table | local edit, push to Notion, pull from Notion | the extension, the board, a timer |
| orchestrator, router, models (`internal/orchestrator`, `router`, `model`) | the run's budget and handoff; the cascade | triage, classify, escalate; execute roles | `amac do`, the board, the supervisor |
| crew (`internal/crew`, `daemon/crew.go`, `cmd/amac/crew.go`) | none but tmux and files | plan, open a role | the terminal and the board |
| binder (`daemon/listen.go`, `bind.go`) | the tailnet listeners | listen on loopback, follow the tailnet address | the machine's interfaces |
| dispatch, panes, codex relay (`internal/daemon`) | panes, relays | message a session, hand over a finding, proxy | tmux, codex |

The rest reads the log or wraps a command or a service: see `components` in
`PROJECT.json`, which lists every part and why it is or is not modelled.

**What is hard.** There is no process that owns the tables. A *statement* is
atomic; a *call* is not: the clock is read before it, the result is read back
after it, its journal entry is a second transaction. Inside the daemon every
request of an agent runs on a goroutine of its own, so does every board's
stream, and agents die at any moment. Leases replace failure detection. The
daemon restarts, and whoever was in the middle of something is gone.

**What makes each part correct.**

* queue: one task under one token has one owner; an end is final; a stale
  worker changes nothing; abandoned work comes back;
* holds: two live holds that contend have one owner; an agent that was told it
  has a set of paths has all of it for the time it was told;
* log and stream: what a board shows is the log from its first event on, in order,
  without repetition, and without a gap until one of five known things disturbs
  the stream; undisturbed it gets to the end;
* guarded writes: each operation reaches the disk at most once, with its intent
  on record before it, under a grant that is still in force; what the log and the
  agent are told about it is true; every request is answered;
* sessions: a question that waits is on the board until it is settled, once; the
  mode in force decides it, whichever came first; a dead agent leaves no
  handler behind; shutdown ends;
* ACP client: every call is woken once, with its own answer or an error; nothing
  an agent writes, and nobody who is slow, stops the read loop;
* attention: a repeated signal is one message (the code does not keep this); silence
  rests on a message that arrived; a finished session is not shown as blocked;
* health: green is earned; nothing on the roster goes unwatched; the phone settles on
  what the log says; a run is recorded in the end, and announced no more often than that;
* applications: a page and its row stay one to one, and the two stores converge;
* orchestrator: a role is given the last answer there is, as far as the log has it; the
  cascade asks nobody twice and keeps what was checked; a headless run ends, or waits
  for an answer that its policy cannot give;
* crew: no session is told to read what was never written, whoever opens it;
* binder: nothing but loopback and the tailnet is served, an address wholly or not
  at all, and the daemon follows a network that keeps still.

## 2. Plan

| order | modules | what | state |
|---|---|---|---|
| 1 | `Queue` | the work queue | modelled, checked, safety proved |
| 2 | `Holds` | file holds | modelled, checked, exclusion proved |
| 3 | `EventStream`, `Feed` | log to board, and what it promises | modelled, checked, order and the refinement proved |
| 4 | `GuardedWrite` | guarded writes | modelled, checked, safety proved |
| 5 | `AcpClient`, `Session` | call correlation, cancellation, overflow, reap; states, questions, modes, exit, shutdown | modelled, checked, safety proved |
| 6 | `Applications` | edit, push, pull, the sync lock | modelled, checked, one row per page proved |
| 7 | `Attention`; `Probes`, `Health` | concurrent hook processes over the log; probe, record, compare, send, with failures | modelled, checked, safety proved |
| 8 | `Orchestrator`, `Crew` | triage and cascade, roles and budget; the same roles opened by hand from two places | modelled, checked, safety proved |
| 9 | `Binder` | where the daemon listens | modelled, checked, safety proved |
| 10 | a lease as an abstract specification, that `Queue` and `Holds` implement | | next |
| 11 | composition of `Session` with `AcpClient`; a board's claim from `Queue` handed to a crew session | | open |

Every safety invariant and every action property of the passing runs is a theorem. Worth stating
next: a lease as a mutual exclusion with timeouts, implemented by `Queue` and by `Holds`; a
mailbox of questions each settled once, implemented by `Session`; a call that returns once,
implemented by `AcpClient`. Of the sweep, that `Missed` names all that a run can be lost by
is liveness, and stays with TLC.

## 3. The modules

### Queue

`row` is the table, one record per task with `absent` for no row. `op` is the
call each worker is in, with the local variables it carries across steps: the
time it read, the task, the token, the lease. So `File`, `Claim` and `Renew` are
a clock read (`BeginFile`, `BeginClaim`, `BeginRenew`), then one guarded
statement (`FileInsert`, `ClaimUpdate`, `RenewUpdate`), and everything may happen
in between. The lease a statement writes can be past when it lands. `Claim` has a third step, the
read-back of *the row of this owner with the latest lease* (`ClaimRead`), which
may find another task than the one taken, or none (`ClaimLost`). `Finish`,
`Release` and `CancelReady` are one statement each: none of them compares with a
clock. `Record` is the journal entry, a transaction of its own; `Crash` is its
failure, which the code drops, or the death of the process, anywhere in a call.
`grants` keeps every claim ever told, so a worker may present any of them,
however stale. `Oldest` leaves ties open, as `ORDER BY filed LIMIT 1` does.

### Holds

`hold` is the table. A claim is a deferred transaction in WAL mode:
`BeginClaim` reads the clock, `ClaimDecide` takes the snapshot and finds no
conflict (or `ClaimRefused` does), `ClaimCommit` writes every path at once and
only if nobody has committed since the snapshot. That last guard is SQLite's
(`SQLITE_BUSY_SNAPSHOT`; `log.go` opens the file in WAL mode), and `fresh` holds
it: every commit makes the others' snapshots stale. The mutation of it breaks
`Exclusion`; nothing in `holds.go` itself would keep two claims apart. A path is
the sequence of its names; the root is the empty one, and `Inside` follows the
code's prefix test, for which the root contains nothing. `promised` and
`carried` are what agents were told.

### EventStream and Feed

Rows are their numbers, `1..head`. `Commit` is the insert under the log's lock;
`Fanout` comes after the lock is let go of. The handler subscribes first, then
replays a page after `Last-Event-ID`, then forwards what is newer than its
high-water mark. `seen` is everything the board has been sent, across reconnects. `calm` is
a ghost that turns false, for good, at each of the five things that can cost the board an event: two
appends handed out in the wrong order (`InTurn`), a full buffer, another process's append while a connection is
past its replay, a replay cut at its page, and one that cannot be read. `Feed` is the promise:
while it is calm, what the board renders (`shown`, its contents and not their number) is the log from
its first event on; after that it may skip, but only goes forward. `ImplementsFeed` maps `shown` to `seen`.

### GuardedWrite

The heart of the supervisor's `fs/write_text_file`. `Deliver` is the read loop
starting a goroutine; `Admit`/`Deny` take `operationMu` and make all checks that
nothing can interrupt under it (grant, owner, durable history); `RecordIntent`,
`CheckOwner`, `Write` and `RecordEffect` are separate because the process may
die, or the agent exit, between any two. Each of intent, write and receipt may fail.
`Finish` is the answer with the deferred unlock. `Restart` is the daemon's death
and a later session that comes to carry the same session id: ids are drawn at random and
compared only with the sessions in memory (`supervisor.go:48-62`). The walk of
directory descriptors before the rename is one step that succeeds or fails.

### AcpClient

One connection. A caller files a channel of its own under an id of its own
(`Register`, `pending`, `chan`), sends, and parks until its channel holds a message or
its context ends (`Return`, `Cancel`). `reader` is where the one read loop is: between
two messages, handing a reply to a channel it has already taken out of the map (`Hand`),
failing, waking the callers it took (`Wake`), or ended. The agent is free: it
answers what it was sent, late, twice or never, and writes updates, requests and
nonsense in between. Its process, its output (which a grandchild may hold open) and the one `Wait` are
three things, so `OutputCloses`, `AgentExits` and `Reap` come in any order;
`Wait` closes the pipe under the loop (`ReadCut`). The deadline of the settle
(`reapWait`) is a loop that may go on at any moment after the end. Writing to the
agent succeeds or fails at once: a full pipe is not modelled.

### Session

What happens to one session between the locks of the code. `q` has, for each
question, how far its `handlePermission` is: read, posted (`pending` set),
asked (blocked shown), parked, settled, cleared, over. `reply` is what `once` let
through, `told` what the agent hears, which may still be a cancellation when the answer and the end of
the connection come together. `SetMode` and `Apply` are the two halves of `SetPresentation`;
`applying` holds the calls between them. `Answer` names an option
only, so it decides whatever question is shown when it arrives. `StopMark`/`StopKill` are
`Close` from the board and `ShutMark`/`ShutKill`/`ShutReturn` are `Shutdown`.
`Start` has three steps because the agent may ask, or die, or be shut down, before it is listed and before
its goroutines run. `proc` and `done` are all that is left of the client; `Parallel` lets the agent
ask again before it was answered, `LosesSync` lets the loop give up on a live
process (an overflow, nonsense).

### Applications

`row` is the local table by key (company and role), `page` the Notion database. Steps are cut at
the network calls: what a caller runs on SQLite between two of them is one step.
`sync` is `SyncFromNotion`, one at a time under the lock: `SyncStart` lists the
pages, `UpsertFromNotion` imports one at a time (a page renamed in Notion brings its
row along, `followRenamedPage`), `SyncPending` then pushes what is unsent. A push looks the page up
(`FindExisting`), writes it (`SendOk`, `SendLost` when the answer is lost, `SendFails`), and
is marked by key (`Mark`) whatever the row holds by then. `Update` is an edit on the
board, `Record` a signal of an email or the extension, `EditPage` a person in Notion.

### Probes and Health

`Probes` has no state: it is what each probe concludes from the traces of an automation's
runs (markers of a log, exit status, a committed file, executions, posted beats,
reachable addresses), the judgement of lateness, and the load of the roster, which is refused whole for
one bad line. `Health` puts it in a sweep: automations start, end, skip, fail and die
(`runs`, the truth), a sweep reads the previous verdicts (`Begin`), asks launchd before it reads the
log (`ReadStatus`, `Probe`), records all verdicts (`RecordVerdicts`), lists and appends fresh runs (`Collect`,
`AppendRun`), sends them (`SendRuns`) and then the alert or the digest (`Tell`). Any of these can
fail or be the last (`ReportFails`, `Cut`). Who starts sweeps is a set of jobs, each with its flags: launchd's for the
alerts, launchd's for the digest, somebody at a prompt. A job runs one sweep at a time, and `sweep` is a function over the
jobs: the sweeps of different jobs overlap at every step. `told` is what the phone last heard of each automation and
`announced` how often it heard of each run. A report knows only the newest `SeenLimit` records (2000 in the code), of a log
only the last `LogTail` markers are read (the code reads 64 KB: how many markers that is depends on what else the job
writes, the model takes a fixed number), and of a hosted source only the last `Window` runs. `Setups` are where a
behaviour starts: a roster, the jobs there are, and what earlier runs and sweeps have left.

### Attention

Every signal is a process: `ClaudeHook`, `CodexNotify`, `Bell`, a reply or a handoff from the
board, which can also open a session in Terminal (`OpenOnMac`), as can a link in a message while it is
valid (`SignedHandoff`). What they share is `log`, which each reads and appends to in separate steps: read the
newest state, append another if it differs, wait out the coalescing delay, decide by what is on record,
send, record the outcome. A send that fails or is killed leaves its row or none. `saw`, `when` and
`reached` are ghosts that say on what a row was decided, and whether a message did arrive.

### Orchestrator and Crew

`Orchestrator` is `amac do`: `PassOver`, `Consult` and `GiveUp` are the rounds of the router's loop over
the tiers that `FromEnv` configured, `Triaged` its outcome with the heuristic behind it; then one role
after another, skipped, failing to start, started, parked on a permission its policy does not
answer, ended with an answer or without, and charged. What an agent says reaches the log through a queue that `consume`
drains in its own time: `AgentUpdates` puts a piece of the answer or a cost into `stream`, `Consume` takes the
next one and writes it, or loses it when the log refuses. `TurnEnds`, `ReadAnswer` and `Charge` are steps of their
own, between which updates arrive: what `lastText` and `sessionCost` find is what `consume` had
written by then, and nothing once the run was interrupted. The answer is counted in pieces, a cost in whole units. `Crew` extends it with the other way to run
the same roles, as tmux sessions opened one by one: a task is run one way or the
other (`phase = "idle"`). Two openers each look at the chain, write the brief, create
the session and type into it, with somebody else able to come in between any two; an
agent reads the brief when its shell runs the command, which may be another's by then. `AskFix` is the
health tab's finding handed over. Closing a session and a reboot are the environment's.

### Binder

`utun`, `lan` and `busy` are the machine: interfaces and other processes' sockets, which change between any two
steps. `Tick` is a round of `watch` that cannot trust what it holds, `AskTailscale` and
`ReadInterfaces` are `TailnetIP` (the second finds an address, or none because the
interfaces could not be read), `Reconcile` closes what stands on another address, and `ListenTailnet` takes
one port at a time and undoes all of them when one fails. An up `utun` interface
with an address in 100/8 is Tailscale's, as the code assumes: another VPN that uses that range
would be taken for it, and kept as long as its address is there.

## 4. The runs

| run | shows | bounds |
|---|---|---|
| `queue_claims` | the fence, no theft, a truthful log, reclaiming | 2 workers with own names, 1 task, 2 lease lengths, clock to 2, 2 claims of the task |
| `holds_tree` | exclusion, grants stand | 2 agents, a directory and a file in it, clock to 2 |
| `stream_to_board` | order, no repetition; the log itself until something disturbs the stream, and everything arrives | 2 writers and other processes, 5 events, buffer and page of 2, failing reads |
| `write_guarded` | at most once, earned answers, revocation, every request answered | 1 operation id, 2 deliveries, 2 paths, 2 contents, 1 grant id, 2 lives of the session |
| `acp_calls` | calls are woken once, with their own answer, and all at the end | 2 callers, 2 calls, 1 request of the agent, a queue of 1, 2 unread messages |
| `session_asks` | questions shown, decided once; nothing hangs; shutdown ends | 2 questions in turn, one of which can be allowed, modes ask and auto |
| `apps_converge` | one row per page; the stores converge | 2 keys, 4 pages, 2 listed statuses and an unlisted one, 1 act here, 2 in Notion |
| `health_sweep` | green is earned, all watched, the phone settles, runs recorded and announced | a roster for each probe kind and each way not to load; rosters with two jobs whose sweeps overlap; 3 runs, clock to 4, reports that look back on 2 records, a log of 3 markers, 1 cut or failure |
| `attention_signals` | earned silence, no false blocked card | a Claude and a Codex session, 2 signals at a time, 4 rows, clock to 2 |
| `attention_pager` | *violated*: a waiting session's bells are one message | the same with 1 signal at a time |
| `crew_roles` | handoff, cascade, reports; inputs exist | all registries, budgets none and 1, cost 1, 2 updates, 1 permission a prompt with or without something to allow; 2 openings, pair and team |
| `binder_watch` | tailnet only, whole or not at all, the network is followed | 2 tailnet addresses, 1 carrier's, 2 ports |

Type invariants are proved, for every module but `Applications` as a theorem of their own (there it is a part
of the invariant); no run repeats them.

*Why these bounds are enough.* A contest needs two parties; a third adds only
interleavings of pairs, since every statement names one row and one rival. Two
claims of one task and two ticks are the least with which a claim is taken
over, renewed late, and faced by its former holder. A directory and its file
are the two ways paths contend. Five events with a page and a buffer of two give a
replay cut short, a full buffer, and an event between subscribing and reading, and, while none of these
happens, a board that reconnects and reads on.
Two deliveries of one id, with another path and another content, are the ways an
operation can be repeated; a second life of the session is a history left by
another. The clocks, tokens and events are capped by `MaxClock`, `MaxToken`,
`MaxHead`, `MaxAcp`, `MaxCalls` and `MaxInbox`, which appear only as guards; the theorems
below hold for every value of theirs. Two calls give a reply that comes after its
caller gave up and another has begun, which is what an id is for; a queue of one overflows at the second
update. Two questions give a mode applied to one while the next is shown; the mode
reject is left out of the run, since it takes the same path as auto with another outcome.

One act here and two in Notion are a push that a sync repeats, a page that is renamed
onto another's key, and a second page of one key. An edit during the push of an older one needs a second act:
with two acts, one edit in Notion and six pages TLC finds no error either, in 3,205,044 states, which is more than
five minutes on two cores. The pages must be enough that no write of a new page waits for one.

Two new runs of an automation are one that the next follows; each setup leaves room for one or two, before them the
runs that its log tells of. A report that looks back on two records forgets the third, a tail of three markers loses a run
that is followed by two, and one cut is enough to lose a message or the rest of a report. A digest and an alert
that overlap can leave the phone with the older verdict, and two reports that overlap can record a run twice; a third
adds nothing to either. Two signals at a time and four rows give a message, a
row that hides it, and a decision that saw neither. Two updates are an answer in two pieces, or a piece and a cost, of which
the log may have one, none or both when it is read; team is the chain with every role, pair the one in
which the same role has no input. Two tailnet addresses let one take the other's place, two ports let the
second fail. `MaxLocal`, `MaxRemote`, `MaxTime`, `MaxRuns`, `MaxLog`, `MaxCuts`, `MaxRows`, `MaxAsks`, `MaxUpdates` and
`MaxOpens` are guards of the same kind.

*Deadlock.* All runs but `queue_claims`, `holds_tree` and `binder_watch` turn the check off:
with the log full and the board up to date, every grant revoked and the agent
gone, the calls made, the session over, the edits spent, the run reported or the openings used up, there is nothing
left to do within the bounds.

### Fairness

* `Queue`: time passes; a call that has begun goes on, or its process dies; each
  worker that is idle again and again polls again and again and does not always
  die before its `UPDATE`. These are the timer-driven sweep and the board's poll.
  Without a poller an expired claim stays as it is: reclaiming is a query, not a
  sweeper (`queue.go:144-147`). Within the bound the property speaks of claims whose
  deadline falls within `MaxClock` and whose task can be claimed again.
* `EventStream`: an appending goroutine runs on to its fan-out; the browser
  reconnects by itself (the protocol's default, `server.go:1040`); a connection
  that is opened again and again sometimes lives to read the backlog. Nothing is
  assumed of the writers, or of crashes, which may recur for ever.
* `GuardedWrite`: a goroutine that can run does, and a mutex is not kept from
  one waiter for ever (Go's mutexes hand over to a waiter that has starved). No
  fairness for grants, deliveries, exits, restarts.

* `AcpClient`: the read loop and the callers run. Nothing is assumed of the agent, of
  the session that drains the notifications, or of the handlers.
* `Session`: goroutines run (the handler of each question, the consumer, the exit
  watcher, `Start`, `Close`, `Shutdown`), and the loop of a process that is gone ends, as the
  settle's deadline and `Wait` make it. A grandchild that holds the output open after a
  kill is cut off by the `Wait` of `Close`; after an exit of its own it is outside this assumption.
  No person, agent or process need do anything.
* `Applications`: the daemon's timer starts a sync every quarter of an hour
  (`SyncNotionPeriodically`), callers go on, and a push that is tried again and again
  succeeds in the end. Nothing is assumed of edits, which the bounds end.
* `Health`: launchd's jobs are started again and again (`SF` of `Begin`: a job waits only for its own last
  sweep), their sweeps go on, and a source that is asked again and again answers once in full. Nothing is
  assumed of a sweep by hand. `PhoneSettles` speaks of a machine with a digest job and of verdicts that have
  stopped changing. `RunsRecorded` names, run by run, what is lost (`Missed`): section 5 tells why.
* `Orchestrator`: `Execute` runs on, and an agent that is not parked ends its turn or its process
  does. Nothing is assumed of `consume`, so its updates may never reach the log. Nobody answers a parked request, so
  `Reported` allows a run to stay parked, but only on a request that offers nothing its policy can choose.
* `Binder`: the loop runs, on a ticker and with a deadline on the lookup, and interfaces that keep having an address
  are not unreadable for ever; `Settles` assumes the network and the process to keep still, and nothing of when.

## 5. Where code and comments part

Met while modelling. The models take the code's side of each; one, the pager, is kept as a run.

*Queue and holds.*

* A `Claim` under a name that two processes share can return the other's task, though
  "re-deriving it here would be a second guess" (`queue.go:171-177`): see `ClaimRead`.
* A table change and its journal entry do not commit together
  (`queue.go:103-106` against `317-320`): see `Crash` after `FileInsert`.
* A grant of several paths can carry several tokens (`holds.go:119-120`), while
  the MCP server shows the first: see `Upserts`.
* A released hold's row is deleted, so its token starts at one again
  (`holds.go:21-22`): see `Drop`, and `Upserts` on a free path.
* A hold on the file system root covers nothing (`holds.go:29-31`, `113`): see `Inside`.
* Two agents outside tmux share the name `unknown-session` (`mcp.go:163` against
  `attention.go:188-191`): give both agents one owner and `OneAgentPerPath` fails.
* A task whose crew session cannot be seeded, or outlives its claim, is released and is the
  oldest again: the board's claims stop at it (`tasks.go:93-111`).

*Stream.*

* Two appending goroutines can fan out in the wrong order and the stream then
  skips one for good (`log.go:132`; `server.go:1058-1060` calls a gap not fine). So it does when the buffer is full, when
  another process appends while the connection lives, and when a backlog is longer than a page or cannot be read. These are
  the places where `calm` turns false: leave one of them out and `ImplementsFeed` fails.

*Sessions and writes.*

* A waiting question's session is shown as working after any tool call update or
  second prompt (`session.go:22-24`, `supervisor.go:166`, `session.go:226`).
* `Shutdown` misses a session that is being started, and returns with its agent running
  (`supervisor.go:234`; `cmd/amac/daemon.go:108-110` says agents are stopped first). So it does after an
  overflow or nonsense, which unlist a session while its agent runs on (`supervisor.go:183-193`).
* Of two people who answer one question, the second may decide the next, unseen
  (`session.go:157-159`: "the second call is a no-op"): see `Answer`, which knows no question.
* An agent that asks a second question before its first is answered makes the
  first unanswerable (`session.go:309`, `351`): with `Parallel = TRUE` `QuestionShown` fails.
* An agent that exits between the second owner check and the rename has its write
  carried out (`operation.go:239-242`): see `CheckOwner`, then `OwnerExits`, then `Write`.

*Applications.*

* An edit made while an older copy of the row is being pushed is marked synced with it, and the
  next pull puts Notion's old value back (`repository.go:329`; `100-102` says a local edit is not
  overwritten): see `Mark`. The stores do converge.
* The first signal of an application that is known resets its status to Applied
  (`apply.go:241-255`); the list of rows to push ends at a thousand.

*Attention.*

* A held signal's row hides the message before it, so every second bell of a waiting session is a
  message (`attention.go:244`; `48-51` say that a pager loop is prevented): the run `attention_pager`.
* Two signals that had not read each other's row both send (`attention.go:244`): with two of them `NoPagerLoop` fails
  without a bell that was held.
* A `Stop`'s own state row makes the turn it ends look short; a message that timed out leaves no row
  and is sent again; a stale hook can append an older state after a newer one, and the board shows it until the
  next report.

*Health.*

* Fresh runs are recorded newest first and the newest recorded marker is the watermark, so
  a report cut short loses the older runs of a launchd job (`cmd/amac/health.go:188-197`, `runs.go:394`;
  `runs.go:23` and `docs/design.md:287` say exactly once): `skipped`, which `Missed` excuses. So are the runs whose
  markers have left the last 64 KB of the log (`launchd.go:166-170`), and those that a log holds when it is first read (`runs.go:383-389`).
* A report knows the newest 2000 records of all automations together (`cmd/amac/health.go:238`): the runs of a
  quiet one are forgotten, recorded again and announced again. So are all runs of an automation that is renamed, under its new
  name, and the runs that two overlapping reports both found: `AnnouncedOnce` promises an announcement
  for a record, and a record for a key only once within what a report looks back on, when one job reports. `RunLogTrue` says that the run log
  is not misled.
* An alert that cannot be sent is not sent again (`health.go:87`), and of two sweeps that overlap the one whose verdicts
  are older may send last: the phone then differs from the log until the next digest (`PhoneSettles`). Without a digest
  job nothing corrects it. A sweep by hand without `-alert` keeps its changes from the next alert, which compares with it.
* A job that failed and is running again is green (`launchd.go:89`), and a status asked before the log is read may
  be of another run: both are in `Completed`. A systemd unit's first run is ok without a trace.
* A machine-category automation needs no `every` (`config.go:200`) and is then always late (`core/health.go:101`).

*Orchestrator and crew.*

* `Best` falls to a weaker provider when there is no stronger one, against its comment (`provider.go:107-121`);
  the router then keeps nothing unverified only because triage verifies.
* Triage's calls, and a provider's failed ones, are not charged to the budget; a session whose
  cost cannot be read is free; the role that crosses the ceiling overspends. A cost that `consume` has
  not yet written when the role is charged (`orchestrator.go:315`) is never charged, so the budget can be overrun by more than one role.
* The answer is read from the log right after the turn ends (`orchestrator.go:299`), while updates may still
  wait for `consume` (`supervisor.go:146-179`): a role can be handed part of the answer before it, or nothing, and the
  comment at `296-298` promises only that it is in the log. `CarryHolds` says that much.
* A permission request that offers no allowing option parks `amac do` for ever (`orchestrator.go:101`), until somebody
  interrupts it: the second way to satisfy `Reported`.
* The command line's openings are recorded without a size, and the board then guesses it from how many
  roles were opened, which does not name the org "exactly" (`daemon/crew.go:264-266`): a team of which only
  the planner is open shows as solo.
* `amac crew` reopens a role whose result is there (`cmd/amac/crew.go:83` against `crew.Status`); a fix whose
  files remain is "already open" for ever; a session that could not be typed into stays, running, with nothing
  in it; two openers of different sizes share one brief file.

## 6. The proofs

Each proof starts from an inductive invariant: three lemmas (the initial states, one per action,
stuttering) give `Spec => []IInv`, and the theorems are read off it. They hold for any sets
of processes, names, paths, automations and tasks and for any bounds; what they assume are the named
`ASSUME`s of the modules, which TLC evaluates on every run.

There are eight proof modules. Three hold the proofs of two or three components that use the same lemmas:
`EventLogProofs` those of the log's two readers, `EventStream` and `Attention`; `DaemonProofs` those of what the
machine does by itself, `Binder`, `Applications` and `Health`; `CrewProofs` those of the two ways to run roles,
`Orchestrator` and `Crew`. That is why some components name their specification after themselves
(`AttentionSpec`, `ApplicationsSpec`, `HealthSpec`) where the others say `Spec`.

*How facts about sequences are come by.* Induction over data is out of the prover's reach, and much of this
program reads logs: the newest line of a kind, the concatenation of every run's lines, a count of rows. The
proofs take the greatest element instead. `GreatestIn` finds it in a set of
indices (from the well-foundedness of finite subsets), `UpTo` concludes from it that a set of
indices closed under successor is all of them, and `FlattenOf`, `LogReads`, `MaxExists` and the count of
`Attention`'s log rest on these two.

* **Queue.** *TypeCorrect, FenceCorrect, ExclusiveClaims, JournalNeverLies,
  HandsChangeFairly, ClosedIsFinal.* The fence is not inductive alone: the
  invariant adds that an owner stands exactly on claimed rows, that a claim
  told agrees with the row while its token is current, and that a call on its way to
  the journal tells of a row as it is or of one that is closed for good. `NoTheft`
  needs that a time read earlier is not after the clock.
* **Holds.** *TypeCorrect, ExclusionCorrect, GrantsStand, OneEditor.* Exclusion
  needs what a decided claim knows: while its snapshot is fresh, no hold that was live at
  the time it read contends with it, and that time is not after the clock. The last two
  assume `PrivateNames`, that agents have names of their own, which is what
  `callerSession` is for and what its fallback breaks (section 5).
* **EventStream.** *TypeCorrect, BoardInOrder, BoardCommitted.* With any number of
  writers, foreign appends, small buffers and failed reads. The invariant ties the
  high-water mark to the last event shown and bounds buffer and pending events by `head`.
  *StreamIsFeed* is the refinement, step by step, for the same constants: every step of the stream is a step of `Feed` or leaves what
  it shows alone. The invariant `Gapless` says that while it is calm the board has the log up to the
  handler's mark (`Prefix`), that the buffer is in order and before everything still to be handed out (`Lined`), and
  that every event a live board lacks is in the buffer or in a writer's hands (`Coming`).
* **GuardedWrite.** *TypeCorrect, DeliveredOnce, AlwaysAudited, ReceiptsTrue,
  RevocationHolds.* The invariant says, for the handler in the critical section
  at each step, which of intent, write and receipt exist, and that its grant is
  the installed one. *AnswersEarned* rests on a second invariant (`AllHonest`), since an answer may tell
  of a write another delivery made: what a handler carries in the critical section is its own request under the session that
  runs, and it answers yes only with such a write behind it.

* **Session.** *TypeCorrect, BlockedTrue, WaitingIsShown, ModesReach, OneDecision.*
  `KindsOfStep` sorts the steps into those that leave the questions alone and ten
  that do not, with a lemma for each. The invariant adds that the agent was told of
  exactly the questions that are over, that a mode on its way to a question decides it,
  and, of an agent that asks one at a time (`~Parallel`, assumed by two theorems),
  that one question at most is open and that it is the one shown.

* **Binder.** *TypeCorrect, NothingElse, AllOrNothing.* The invariant says that the sockets outside are exactly
  those listed, that they are of the bound address unless one is being opened, and
  that an address comes from the tailnet's and only without `-localhost`.
* **AcpClient.** *TypeCorrect, NobodyIsOrphaned, RepliesAreOwn, LoopIsFree, EndTellsAll.* A call that waits is in
  exactly one place (`Placed`, `OnePlace`): filed, in the loop's hands, among those to wake, or its message is in
  its channel. Ids only grow, so a channel's owner is the call of that number (`OwnChannels`), and a
  late reply to a call that gave up finds nobody. *LoopIsFree* is why a channel of one is
  enough: the loop never finds one full. *EndTellsAll* is the safety half of `EndWakesAll`: when the loop has
  ended, everyone who waits has a message already. `NoneAssumption`: the empty channel is no message.
* **Applications.** *OneRowPerPage*, for any companies, pages and edits. The invariant adds that a row that is
  not there names no page. The hard step is an import that finds the key it wants taken, or its page under
  another key (`Followed`).
* **Attention.** *AttentionTypeCorrect, SilenceRestsOnAMessage, FinishedIsShown.* A row says how
  many rows its writer had read; the invariant keeps, for every row and every process on its way, that it
  was rightly decided on that prefix (`RowsEarned`, `SignalsFit`), which appends cannot change. The signals at work are finitely many
  (`SignalsAssumption`); with the rows still due (`Spare`) that keeps the log within its bound.
* **Orchestrator and Crew.** *TypeCorrect, CarryIsHandedOn, CascadeIsSound, NothingReadUnwritten.* The handoff is the answer
  of the greatest earlier role that answered (`LastSaid`), and what was read of it stays within what the log has,
  since updates that come later only add to that (`LogGrows`); the cascade's invariant (`Routed`) says that every tier it
  has gone past has had its provider asked. `InputSeen` says that an opener past its look, and every brief there is, names only a file
  that has been written. `Budgets # {}`: there is a budget to choose from (0 is none).
* **Health.** *SweepTypeCorrect, EveryLineIsWatched, RunsAreToldOnce, TheRunLogIsTrue, GreenIsEarned.* For any number of jobs,
  whose sweeps overlap as they like. Four invariants, all on the first. `HealthInv`: an automation's runs follow each other
  (`History`), and each sweep has a verdict on every line before it records any. `Recounted`: every recorded or fresh
  event stands for one run that ended, told apart by its end in a launchd log and by its start
  elsewhere, so the run log's count is an injection into the runs. `GroundedInv`: what a
  sweep read from launchctl (`StatusTells`) and what it has said (`Good`) is true of the runs *as they are
  now*, for the runs go on while it looks (`Grown`, `SoundOn`). `VerdictRight` takes the kinds of probe one at a time: behind each "ok"
  is a run that completed, and the newest failure from before the sweep is not hidden, but by a dead heartbeat job that posts nothing or
  a GitHub that lists no runs. `OnceInv`: for each run, the announcements made and the reports that still have it to send
  are no more than its records (`Counted`, over any finite set of jobs); and with one reporting job, what a report has yet
  to record is not among what it looks back on (`Ahead`). Its assumptions are about what surrounds the sweep:
  `SetupsAssumption` (what was recorded before tells of runs that were, none twice, and nothing is declared under a name it
  had before), `RenamedAssumption` (a renaming is done once), `JobsAssumption` (finitely many jobs).

What attempting the proof of `RunLogTrue` changed in the model: earlier histories and logs are sequences of any length (`Setups`), and the
run log lists an automation that left the roster while its runs are here, as the code does. The probes now name runs by
their place in the history.

*Only model-checked:* liveness, which the prover does not do (`AbandonedIsReclaimed`, `EventuallySeen`,
`Answered`, `EndWakesAll`, `ParkedEnds`, `ShutdownEnds`, `Converges`, `PhoneSettles`, `RunsRecorded`, `Reported`, `Settles`).
Every other property of the passing runs is a theorem; of the refinement `ImplementsFeed` the run checks the liveness of
`Feed` beside it, as `EventuallySeen`.
*Only proved:* of the theorems, those on typing, on `GrantsAgree`, `TerminalIsFinal`, `OneAgentPerPath`,
`OnlyCommitted`, `Audited`, `ReceiptTrue`, `BlockedIsReal`, `ModeReaches`, `NeverBlocked` and `AllTold`: what they state holds for
every value of the constants, and no run repeats it.

## 7. What is not modelled

* *Retention* (`event/retention.go`): a plan of whole rows to delete or redact, applied at once. What it takes
  from readers: a session whose state is older than ninety days becomes unknown on the board; redacting the newest
  `automation.check` loses the previous verdicts; the plan is made before the lock.
* *The observer*: a poller of panes and windows over text. A title is read when a span is flushed,
  so one may be of the moment after the kill switch or of a denied application; a denied application extends
  the span before it by up to one poll.
* *The board's views* (queue cards, codex relay, spend, search, recent, files, panes): they read and render. The
  count of queue cards is cached, errors included, for five minutes.
* *MCP framing, token checks, model prompts, text formatting, the evaluation harness, offline analyses, the browser
  extension*: pure functions of text or wrappers of a service; see `components`.

Of the modelled ones: the wording of events and errors, titles
and notes of tasks and holds, listings, the preview of a write, the
temporary file an interrupted write leaves, the ping and the frame format of the
stream, the log entries of a session and the files it reads for its agent, the
symbolic-link checks inside the descriptor walk, resumes and letters of applications, the wording of
alerts, the event rows and the archive mark of a crew run (they only feed a view), the first 4000 bytes to which a
handoff is cut. Loss of the disk,
clocks that go backwards, and two machines on one file are outside: the
program's own documents place them there by keeping one log on one machine.
