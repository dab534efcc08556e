--------------------------------- MODULE Health ---------------------------------
(* The health sweep (amac health, cmd/amac/health.go) over automations whose   *)
(* runs start, end and die while it looks.  A sweep is one process: it reads   *)
(* the previous verdicts, probes each automation, records the verdicts, may    *)
(* report each individual run, and then sends an alert or a digest.  launchd   *)
(* has a job for the alerts and one for the digest, each of which runs one     *)
(* sweep at a time, and a sweep may be started by hand: sweeps of different    *)
(* jobs overlap.  A sweep may be killed between any two of its steps, and its  *)
(* 90 second timeout ends it in the same way.                                  *)
EXTENDS Probes, FiniteSets

CONSTANTS
  Setups,     \* where it starts: the roster, the jobs, the runs and the log so far
  Names,      \* the names rosters declare, and old names runs were recorded under
  Renamed(_), \* runlog.go's renamed: an old name's current one
  Jobs,       \* who starts sweeps, and with which flags
  Window,     \* how many runs a hosted source lists (15)
  SeenLimit,  \* how many of the newest recorded runs a report looks back on (2000)
  MaxTime, MaxRuns, MaxLog, MaxCuts   \* bounds: the clock, runs of one automation,
                                      \* runs recorded, sweeps cut short

ASSUME WindowAssumption == Window \in Nat \ {0} /\ SeenLimit \in Nat \ {0}
ASSUME SweepBounds == MaxTime \in Nat /\ MaxRuns \in Nat /\ MaxLog \in Nat /\ MaxCuts \in Nat
\* The name an old one is folded onto is a current one.
ASSUME RenamedAssumption ==
  \A a \in Names : Renamed(a) \in Names /\ Renamed(Renamed(a)) = Renamed(a)
ASSUME JobsAssumption ==
  IsFiniteSet(Jobs) /\ Jobs \subseteq [by : {"launchd", "hand"}, flags : SUBSET {"alert", "digest", "runs"}]

VARIABLES
  now,        \* the clock
  runs,       \* the truth: what each automation has done
  roster,     \* health.json
  jobs,       \* which of the jobs there are
  last,       \* the verdicts of the newest automation.check event
  recorded,   \* the automation.run events, in the order of the log
  sweep,      \* the sweep each job has under way
  told,       \* what the phone last heard of each automation
  announced,  \* how often the phone heard of each run
  skipped,    \* history: runs that a report passed over for good
  cuts        \* sweeps cut short so far

healthVars == <<now, runs, roster, jobs, last, recorded, sweep, told, announced, skipped, cuts>>

-----------------------------------------------------------------------------
Canonical(a) == Renamed(a)
Declared == {roster[i].name : i \in DOMAIN roster}
LineOf(lines, a) == lines[CHOOSE i \in DOMAIN lines : lines[i].name = a]
Decl(a) == LineOf(roster, a)

Run == [start : 1..MaxTime, end : 0..MaxTime, how : Ends \cup {"running"}]
Bad(r) == r.how \in {"failed", "died"}
\* One run at a time: each starts when the one before it has ended, and only the
\* newest may still be running.
History(q) ==
  /\ q \in Seq(Run)
  /\ \A i \in 1..Len(q) : /\ q[i].how = "running" => i = Len(q)
                          /\ q[i].how # "running" => q[i].start <= q[i].end
  /\ \A i, j \in 1..Len(q) : i < j =>
       /\ q[i].start < q[j].start
       /\ q[i].end <= q[j].start
       /\ q[j].how # "running" => q[i].end < q[j].end

\* An automation.run event: the dedupe key, and what the run came to.
Event == [name : Names, id : 0..MaxTime, at : 0..MaxTime, status : {"ok", "skipped", "failed"}]
Key(e) == [name |-> e.name, id |-> e.id]
Records == Range(recorded)
Steps == {"idle", "probe", "record", "collect", "append", "send", "tell"}
NoStatus == [loaded |-> FALSE, exit |-> 0, running |-> FALSE]
NoSweep == [step |-> "idle", prev |-> <<>>, began |-> 0, status |-> <<>>,
            reports |-> <<>>, fresh |-> {}, news |-> {}, first |-> FALSE]

\* What a recorded run stands for: a run of the automation that has ended, under
\* the time its source keys it by, and failed if it did.
MarkedIn(lines, n) == n \in {lines[i].name : i \in DOMAIN lines} /\ LineOf(lines, n).probe = "launchd_marker"
Marked(n) == MarkedIn(roster, n)
StandsFor(e, r, marked) ==
  /\ r.how # "running" /\ e.at = e.id
  /\ e.id = IF marked THEN r.end ELSE r.start
  /\ ~marked => (e.status = "failed" <=> Bad(r))

\* Nothing is declared under a name it had before it was renamed, no run is on
\* its way, and what has been recorded is runs that were, none of them twice.
ASSUME SetupsAssumption ==
  \A s \in Setups :
    /\ s.roster \in Seq(Declaration(Names)) /\ s.jobs \subseteq Jobs /\ s.now \in 1..MaxTime
    /\ \A i \in DOMAIN s.roster : Renamed(s.roster[i].name) = s.roster[i].name
    /\ s.runs \in [Names -> Seq(Run)]
    /\ \A a \in Names : History(s.runs[a])
    /\ \A a \in Names : \A i \in DOMAIN s.runs[a] : s.runs[a][i].how # "running" /\ s.runs[a][i].end < s.now
    /\ s.log \in Seq(Event)
    /\ \A i, j \in DOMAIN s.log : i < j => Key(s.log[i]) # Key(s.log[j])
    /\ \A i \in DOMAIN s.log :
         LET e == s.log[i]
             n == Renamed(e.name)
         IN \E k \in DOMAIN s.runs[n] : StandsFor(e, s.runs[n][k], MarkedIn(s.roster, n))

\* Functions on a part of the names: <<>> is the empty one.
With(f, a, v) == [x \in DOMAIN f \cup {a} |-> IF x = a THEN v ELSE f[x]]
Without(f, a) == [x \in DOMAIN f \ {a} |-> f[x]]
State(f, a) == IF a \in DOMAIN f THEN f[a] ELSE "ok"

HealthInit ==
  /\ \E s \in Setups :
       roster = s.roster /\ jobs = s.jobs /\ runs = s.runs /\ recorded = s.log /\ now = s.now
  /\ last = <<>>
  /\ sweep = [job \in Jobs |-> NoSweep]
  /\ told = [a \in Names |-> "ok"]
  /\ announced = [k \in {} |-> 0]
  /\ skipped = {} /\ cuts = 0

-----------------------------------------------------------------------------
(* The world.                                                                 *)

TimePasses ==
  /\ now < MaxTime
  /\ now' = now + 1
  /\ UNCHANGED <<runs, roster, jobs, last, recorded, sweep, told, announced, skipped, cuts>>

RunStarts(a) ==
  /\ Len(runs[a]) < MaxRuns /\ ~InFlight(runs[a]) /\ now < MaxTime
  /\ runs[a] # <<>> => Last(runs[a]).end <= now /\ Last(runs[a]).start < now
  /\ runs' = [runs EXCEPT ![a] = Append(@, [start |-> now, end |-> 0, how |-> "running"])]
  /\ UNCHANGED <<now, roster, jobs, last, recorded, sweep, told, announced, skipped, cuts>>

RunEnds(a) ==
  /\ InFlight(runs[a]) /\ Last(runs[a]).start < now
  /\ \E how \in Ends :
       runs' = [runs EXCEPT ![a][Len(runs[a])] = [@ EXCEPT !.end = now, !.how = how]]
  /\ UNCHANGED <<now, roster, jobs, last, recorded, sweep, told, announced, skipped, cuts>>

-----------------------------------------------------------------------------
(* The sweep.                                                                 *)

\* Each job's next sweep starts when its last one has ended.  A roster that does
\* not load stops the command before anything is probed.
Begin(job) ==
  /\ job \in jobs /\ sweep[job].step = "idle"
  /\ Load(roster) # <<>>
  /\ sweep' = [sweep EXCEPT ![job] = [NoSweep EXCEPT !.step = "probe", !.prev = last, !.began = now]]
  /\ UNCHANGED <<now, runs, roster, jobs, last, recorded, told, announced, skipped, cuts>>

Unprobed(job) == Declared \ DOMAIN sweep[job].reports
Launchd == {"launchd_marker", "spend_snapshot"}
\* Of these, a job whose marker counts failures exits clean all the same.
Tallies(a) == Decl(a).probe = "launchd_marker" /\ "counts" \in Decl(a).with

\* launchctl answers first, and the log is read after it.
ReadStatus(job, a, loaded) ==
  /\ sweep[job].step = "probe" /\ a \in Unprobed(job)
  /\ Decl(a).probe \in Launchd /\ a \notin DOMAIN sweep[job].status
  /\ sweep' = [sweep EXCEPT ![job].status = With(@, a, launchdStatus(loaded, Tallies(a), runs[a]))]
  /\ UNCHANGED <<now, runs, roster, jobs, last, recorded, told, announced, skipped, cuts>>

Verdict(a, status, reach) ==
  LET d == Decl(a)
      markers == allMarkers(runs[a])
  IN CASE d.probe \in Launchd \cup {"systemd_unit"} /\ reach = "none" -> ProbeError
       [] d.probe = "launchd_marker" /\ reach # "none" -> launchdMarker("counts" \in d.with, status, markers)
       [] d.probe = "spend_snapshot" /\ reach # "none" -> spendSnapshot(status, runs[a])
       [] d.probe = "systemd_unit" /\ reach # "none" -> systemdUnit(reach = "all", "log" \in d.with, runs[a])
       [] d.probe = "marker_fields" -> markerFields(markers)
       [] d.probe = "service" -> service("loopback" \in d.with, TRUE, IF reach = "none" THEN {} ELSE Interfaces,
                                         IF reach = "all" THEN {"wifi"} ELSE {})
       [] d.probe \in {"github_delivery_file", "github_newest_file"} -> githubFile(reach, runs[a])
       [] d.probe = "n8n" -> n8nPipeline(reach, runs[a])
       [] OTHER -> heartbeat(runs[a])

StatusOf(job, a) == IF a \in DOMAIN sweep[job].status THEN sweep[job].status[a] ELSE NoStatus
Probe(job, a, reach) ==
  /\ sweep[job].step = "probe" /\ a \in Unprobed(job)
  /\ Decl(a).probe \in Launchd => a \in DOMAIN sweep[job].status
  /\ LET r == Judged(Decl(a), Verdict(a, StatusOf(job, a), reach), now)
         reports == With(sweep[job].reports, a, [state |-> r.state, last |-> r.last,
                                               began |-> sweep[job].began, at |-> now, reach |-> reach])
     IN sweep' = [sweep EXCEPT ![job] = [@ EXCEPT !.reports = reports, !.status = Without(sweep[job].status, a),
                                         !.step = IF DOMAIN reports = Declared THEN "record" ELSE "probe"]]
  /\ UNCHANGED <<now, runs, roster, jobs, last, recorded, told, announced, skipped, cuts>>

\* The verdicts are in the log before anybody is told.
RecordVerdicts(job) ==
  /\ sweep[job].step = "record"
  /\ last' = [a \in Declared |-> sweep[job].reports[a].state]
  /\ sweep' = [sweep EXCEPT ![job] = [@ EXCEPT !.step = IF "runs" \in job.flags THEN "collect" ELSE "tell",
                                                !.reports = last', !.began = 0]]
  /\ UNCHANGED <<now, runs, roster, jobs, recorded, told, announced, skipped, cuts>>

-----------------------------------------------------------------------------
(* Individual runs (internal/health/runs.go).                                 *)

\* What a report knows: only so many of the newest, whatever automation's.
Seen == {Key(e) : e \in Range(LastN(recorded, SeenLimit))}
Entry(a, id, at, status) == [name |-> a, id |-> id, at |-> at, status |-> status]
\* The verdict on a hosted run needs a second read: commits, jobs, or the
\* pipeline's own report.  Without it the run is reported as completed.
HostedStatus(r, reach) ==
  IF Bad(r) THEN "failed" ELSE IF reach = "all" /\ r.how = "skipped" THEN "skipped" ELSE "ok"
\* Mutant: runs already reported are not left out.
HostedRunsAgain(a, reach) ==
  IF reach = "none" THEN {}
  ELSE {Entry(a, r.start, r.start, HostedStatus(r, reach)) : r \in {x \in Range(runs[a]) : x.how # "running"}}
HostedRuns(a, reach) ==
  IF reach = "none" THEN {}
  ELSE {Entry(a, r.start, r.start, HostedStatus(r, reach)) :
          r \in {x \in Range(LastN(runs[a], Window)) :
                   x.how # "running" /\ [name |-> a, id |-> x.start] \notin Seen}}

\* Without a key, or without an answer, n8n lists nothing.
jobDiscoveryRuns(a, reach) == IF reach = "all" THEN HostedRuns(a, reach) ELSE {}

launchdWatermark(a) ==
  LET ids == {k.id : k \in {x \in Seen : x.name = a}} \cup {0} IN CHOOSE m \in ids : \A i \in ids : i <= m
\* Mutant: only the newest marker is read.
launchdRunsNewest(a) ==
  {Entry(a, m.at, m.at, IF m.tally > 0 THEN "failed" ELSE "ok") :
     m \in {x \in Range(LastN(allMarkers(runs[a]), 1)) : x.done /\ x.at > launchdWatermark(a)}}
\* Every marker that says "done" is a run.  A log without a watermark starts at
\* its newest marker, whatever that is, unless the whole history is new.
NoWatermark(a) == launchdWatermark(a) = 0 /\ Seen # {}
launchdRuns(a) ==
  LET markers == allMarkers(runs[a])
      listed  == IF NoWatermark(a) THEN LastN(markers, 1) ELSE markers
  IN {Entry(a, m.at, m.at, IF m.tally > 0 THEN "failed" ELSE "ok") :
        m \in {x \in Range(listed) : x.done /\ x.at > launchdWatermark(a)}}

\* The Go list names the jobs; here they are the automations of those kinds.
ReportsRuns(a) == Decl(a).probe \in {"launchd_marker", "github_delivery_file", "github_newest_file", "n8n"}
NewRuns(reach) ==
  UNION {CASE Decl(a).probe = "launchd_marker" -> launchdRuns(a)
           [] Decl(a).probe = "n8n" -> jobDiscoveryRuns(a, reach)
           [] OTHER -> HostedRuns(a, reach) : a \in {x \in Declared : ReportsRuns(x)}}
NewestOf(S) == {e \in S : \A x \in S : x.at <= e.at}

\* History: the runs in a log without a watermark before its newest marker, and
\* those a report leaves unrecorded that has recorded a newer one: the newest
\* recorded is the watermark.
BeforeBaseline(a) ==
  IF Decl(a).probe = "launchd_marker" /\ NoWatermark(a)
    THEN {[name |-> a, id |-> m.at] : m \in {x \in Range(allMarkers(runs[a])) : x.done}}
           \ {Key(e) : e \in launchdRuns(a)}
    ELSE {}
BelowWatermark(job) ==
  {Key(e) : e \in {x \in sweep[job].fresh :
     Decl(x.name).probe = "launchd_marker" /\ \E y \in sweep[job].news : y.name = x.name}}

Collect(job, reach) ==
  /\ sweep[job].step = "collect"
  /\ sweep' = [sweep EXCEPT ![job] = [@ EXCEPT !.fresh = NewRuns(reach), !.first = (Seen = {}),
                                                !.step = IF NewRuns(reach) = {} THEN "tell" ELSE "append"]]
  /\ skipped' = skipped \cup UNION {BeforeBaseline(a) : a \in Declared}
  /\ UNCHANGED <<now, runs, roster, jobs, last, recorded, told, announced, cuts>>

\* Every fresh run is recorded, newest first, before any is sent; the first
\* sweep records them all and sends none.
AppendRun(job) ==
  /\ sweep[job].step = "append" /\ Len(recorded) < MaxLog
  /\ \E e \in NewestOf(sweep[job].fresh) :
       /\ recorded' = Append(recorded, e)
       /\ sweep' = [sweep EXCEPT ![job] = [@ EXCEPT !.fresh = sweep[job].fresh \ {e},
                      !.news = IF sweep[job].first /\ sweep[job].fresh = {e} THEN {} ELSE sweep[job].news \cup {e},
                      !.step = IF sweep[job].fresh # {e} THEN "append"
                               ELSE IF sweep[job].first THEN "tell" ELSE "send"]]
  /\ UNCHANGED <<now, runs, roster, jobs, last, told, announced, skipped, cuts>>

\* Each failure in a message of its own, then everything else in one.
NextMessage(news) ==
  LET failed == {e \in news : e.status = "failed"}
  IN IF failed # {} THEN {{e} : e \in NewestOf(failed)} ELSE {news}
SendRuns(job) ==
  /\ sweep[job].step = "send"
  /\ \E message \in NextMessage(sweep[job].news) :
       LET left == sweep[job].news \ message
           keys == {Key(e) : e \in message}
       IN /\ announced' = [k \in DOMAIN announced \cup keys |->
                             (IF k \in DOMAIN announced THEN announced[k] ELSE 0) + (IF k \in keys THEN 1 ELSE 0)]
          /\ sweep' = [sweep EXCEPT ![job] = [@ EXCEPT !.news = left, !.step = IF left = {} THEN "tell" ELSE "send"]]
  /\ UNCHANGED <<now, runs, roster, jobs, last, recorded, told, skipped, cuts>>

\* A run that cannot be appended or sent ends the report, never the alert.
ReportFails(job) ==
  /\ sweep[job].step \in {"append", "send"} /\ cuts < MaxCuts
  /\ sweep' = [sweep EXCEPT ![job] = [@ EXCEPT !.step = "tell", !.fresh = {}, !.news = {}]]
  /\ skipped' = skipped \cup BelowWatermark(job)
  /\ cuts' = cuts + 1
  /\ UNCHANGED <<now, runs, roster, jobs, last, recorded, told, announced>>

-----------------------------------------------------------------------------
(* The message (internal/health/discord.go).                                  *)

Broke(w, a) == w.reports[a] # "ok" /\ (a \notin DOMAIN w.prev \/ w.prev[a] # w.reports[a])
Fixed(w, a) == w.reports[a] = "ok" /\ a \in DOMAIN w.prev /\ w.prev[a] # "ok"
Alert(w) == {a \in Declared : Broke(w, a) \/ Fixed(w, a)}
\* Mutant: the digest leaves out what has not changed.
DigestOfChanges(w) == Alert(w)
Digest(w) == Declared
Mentioned(job) ==
  IF "digest" \in job.flags THEN Digest(sweep[job])
  ELSE IF "alert" \in job.flags THEN Alert(sweep[job]) ELSE {}

Tell(job) ==
  /\ sweep[job].step = "tell"
  /\ told' = [a \in Names |-> IF a \in Mentioned(job) THEN sweep[job].reports[a] ELSE told[a]]
  /\ sweep' = [sweep EXCEPT ![job] = NoSweep]
  /\ UNCHANGED <<now, runs, roster, jobs, last, recorded, announced, skipped, cuts>>

\* Killed, out of time, or the message is not sent.
Cut(job) ==
  /\ sweep[job].step # "idle" /\ cuts < MaxCuts
  /\ skipped' = skipped \cup BelowWatermark(job)
  /\ sweep' = [sweep EXCEPT ![job] = NoSweep]
  /\ cuts' = cuts + 1
  /\ UNCHANGED <<now, runs, roster, jobs, last, recorded, told, announced>>

-----------------------------------------------------------------------------
(* The run log (internal/health/runlog.go): the recorded runs, one per key     *)
(* under the automation's current name.                                        *)

\* Mutant: no folding by key.
RunsOfAll(n) == {e \in Records : Canonical(e.name) = n}
RunsOf(n) ==
  LET mine == {e \in Records : Canonical(e.name) = n}
  IN {CHOOSE e \in mine : e.id = id : id \in {e.id : e \in mine}}
verdictOf(n, mine) ==
  IF mine = {} THEN IF ReportsRuns(n) THEN "quiet" ELSE "unwatched"
  ELSE IF \E e \in NewestOf(mine) : e.status = "failed" THEN "broken"
  ELSE IF \E e \in mine : e.status = "failed" THEN "recovered" ELSE "clean"
summarizeOne(n) == [total |-> Cardinality(RunsOf(n)), verdict |-> verdictOf(n, RunsOf(n)),
                    failed |-> Cardinality({e \in RunsOf(n) : e.status = "failed"})]
\* An automation that left the roster keeps its line while its runs are here.
SummarizeRuns == [n \in {Canonical(a) : a \in Declared \cup {e.name : e \in Records}} |-> summarizeOne(n)]

-----------------------------------------------------------------------------
SweepStep(job) ==
  \/ \E a \in Declared, loaded \in BOOLEAN : ReadStatus(job, a, loaded)
  \/ \E a \in Declared, reach \in {"none", "partial", "all"} : Probe(job, a, reach)
  \/ RecordVerdicts(job)
  \/ \E reach \in {"none", "partial", "all"} : Collect(job, reach)
  \/ AppendRun(job) \/ SendRuns(job) \/ Tell(job)

HealthNext ==
  \/ TimePasses
  \/ \E a \in Declared : RunStarts(a) \/ RunEnds(a)
  \/ \E job \in Jobs : Begin(job) \/ SweepStep(job) \/ ReportFails(job) \/ Cut(job)

HealthSpec == HealthInit /\ [][HealthNext]_healthVars

\* launchd starts its jobs again and again, a sweep of theirs goes on until it is
\* done, and the sources answer in the end.
HealthFairSpec ==
  /\ HealthSpec
  /\ \A job \in Jobs : job.by = "launchd" =>
       /\ SF_healthVars(Begin(job)) /\ WF_healthVars(SweepStep(job))
       /\ "runs" \in job.flags => SF_healthVars(Collect(job, "all"))

-----------------------------------------------------------------------------
(* Properties.                                                                *)

\* Every variable keeps to its type.
HealthTypeOK ==
  /\ now \in 1..MaxTime /\ cuts \in 0..MaxCuts /\ jobs \subseteq Jobs
  /\ \A a \in Names : Range(runs[a]) \subseteq Run /\ told[a] \in States
  /\ recorded \in Seq(Event)
  /\ DOMAIN sweep = Jobs
  /\ \A job \in Jobs : /\ sweep[job].step \in Steps /\ DOMAIN sweep[job].reports \subseteq Declared
                       /\ sweep[job].fresh \cup sweep[job].news \subseteq Event

\* A run that a probe takes for a delivery.  A failed run that closed its log is
\* one while the next is under way, or if it ended after launchctl was asked.
Completed(a, r, v) ==
  \/ r.how = "delivered"
  \/ r.how = "failed" /\ Decl(a).probe = "launchd_marker"
       /\ (r.end >= v.began \/ \E next \in Range(runs[a]) : next.start \in r.end..v.at)
  \/ r.how = "skipped" /\ Decl(a).probe \notin {"spend_snapshot", "github_delivery_file", "github_newest_file"}

\* A green verdict is earned (probes.go, launchd.go, core/health.go: "unknown,
\* not ok", lateness): behind it is a run that did complete, at the time shown
\* and within the cadence, and the newest run that had ended when the sweep
\* began did not fail, unless another was already under way.
Earned(a, v) ==
  LET begun  == {i \in DOMAIN runs[a] : runs[a][i].start <= v.at}
      newest == Newest(runs[a], begun)
  IN /\ \E r \in Range(runs[a]) : Completed(a, r, v) /\ r.end = v.last /\ v.at - v.last <= Allowed(Decl(a))
     /\ begun # {} /\ newest.end \in 1..(v.began - 1) /\ Bad(newest)
          => (newest.how = "died" /\ Decl(a).probe = "heartbeat")
             \/ (v.reach = "partial" /\ Decl(a).probe \in {"github_delivery_file", "github_newest_file"})
\* A service is asked itself; a unit's first run may still be going.
Deserved(a, v) ==
  CASE Decl(a).probe = "service" -> v.reach = "all"
    [] Decl(a).probe = "systemd_unit" /\ v.last = 0 -> \E r \in Range(runs[a]) : r.start <= v.at
    [] OTHER -> Earned(a, v)
OkIsEarned ==
  \A job \in Jobs : sweep[job].step = "record" =>
    \A a \in Declared : sweep[job].reports[a].state = "ok" => Deserved(a, sweep[job].reports[a])

\* Nothing on the roster goes unwatched (config.go: an automation "silently
\* dropped from the roster is an automation nobody is watching"): a sweep that
\* records anything has a verdict on every line that was written down.
AllWatched == last # <<>> => DOMAIN last = Declared /\ Cardinality(Declared) = Len(roster)

\* The phone comes to agree with the log on every automation when the verdicts
\* stop changing (health.go: the digest has the full roster): whatever alerts
\* were lost, or arrived after the news of a later sweep, the digest puts right.
Agreed == \A a \in Declared : told[a] = State(last, a)
PhoneSettles ==
  (\E job \in jobs : job.by = "launchd" /\ "digest" \in job.flags) /\ <>[][last' = last]_last => <>[]Agreed

\* A run is announced no more often than it is recorded, wherever sweeps are cut
\* short, and as long as one job reports the runs none is recorded again while
\* a report remembers it (runs.go: "exactly once").
Reporters == {job \in jobs : "runs" \in job.flags}
AnnouncedOnce ==
  /\ \A k \in DOMAIN announced :
       announced[k] <= Cardinality({i \in DOMAIN recorded : Key(recorded[i]) = k})
  /\ (\A x, y \in Reporters : x = y) =>
       \A i, j \in DOMAIN recorded : i < j /\ Key(recorded[i]) = Key(recorded[j]) => j - i > SeenLimit

\* The run log counts no run twice across a rename, and a failure in it shows
\* (runlog.go): the newest run failing is "broken", an older one "recovered".
Logged == {Key(e) : e \in Records}
RunLogTrue ==
  Load(roster) # <<>> => \A n \in DOMAIN SummarizeRuns :
    LET l == SummarizeRuns[n]
        failed == {i \in DOMAIN runs[n] : Bad(runs[n][i]) /\ [name |-> n, id |-> runs[n][i].start] \in Logged}
        newest == Newest(runs[n], Ended(runs[n]))
        hosted == n \in Declared => Decl(n).probe # "launchd_marker"
    IN /\ l.total <= Cardinality(Ended(runs[n]))
       /\ hosted /\ failed # {} => l.verdict \in {"broken", "recovered"}
       /\ hosted /\ l.verdict = "recovered" => ~Bad(newest) \/ newest.start \notin {e.id : e \in RunsOf(n)}

\* Every run that ends in a watched automation is in the log in the end (runs.go).
\* What may be missed is a hosted run the source no longer lists, and of a log
\* what has left the part that is read, what is older than the marker it started
\* at, and what a report cut short had not got to when it recorded a newer one.
Id(a, r) == IF Decl(a).probe = "launchd_marker" THEN r.end ELSE r.start
Visible(a, r) == r.how # "running" /\ ~(r.how = "died" /\ Decl(a).probe = "launchd_marker")
Missed(a, i) ==
  IF Decl(a).probe # "launchd_marker" THEN Len(runs[a]) - i >= Window
  ELSE \/ [name |-> a, id |-> runs[a][i].end] \in skipped
       \/ ~\E m \in Range(allMarkers(runs[a])) : m.done /\ m.at = runs[a][i].end
CaughtUp ==
  \A a \in {x \in Declared : ReportsRuns(x)} : \A i \in DOMAIN runs[a] :
    Visible(a, runs[a][i]) => [name |-> a, id |-> Id(a, runs[a][i])] \in Logged \/ Missed(a, i)
RunsRecorded ==
  Load(roster) # <<>> /\ (\E job \in Reporters : job.by = "launchd") => <>[](CaughtUp \/ Len(recorded) = MaxLog)
=============================================================================
