--------------------------------- MODULE Probes ---------------------------------
(* The health probes (internal/health): what each kind of probe concludes      *)
(* about an automation from the traces the automation's runs leave behind.     *)
(*                                                                            *)
(* The truth is a sequence of runs.  Each kind sees it through a different     *)
(* artifact (a log's markers, systemd's properties, a list of workflow runs, a *)
(* committed file, posted beats, n8n's executions), and every verdict below is *)
(* a function of the artifact only.  Time is a number, 0 the zero time.        *)
EXTENDS Naturals, SequencesExt

CONSTANT LogTail   \* how many markers the last 64 KB of a job's log hold
ASSUME LogTailAssumption == LogTail \in Nat \ {0}

States == {"ok", "failing", "late", "down", "unknown"}
Ends == {"delivered", "skipped", "failed", "died"}
Kinds == {"launchd_marker", "systemd_unit", "service", "marker_fields", "spend_snapshot",
          "github_delivery_file", "github_newest_file", "n8n", "heartbeat"}

Report(state, last) == [state |-> state, last |-> last]
\* An error is the probe's other answer: the sweep makes it "unknown".
ProbeError == Report("error", 0)

-----------------------------------------------------------------------------
(* What the runs leave behind.                                                *)

InFlight(runs) == runs # <<>> /\ Last(runs).how = "running"
\* Which runs ended, and delivered; the newest of some of them.
Ended(runs) == {i \in DOMAIN runs : runs[i].how # "running"}
Delivered(runs) == {i \in DOMAIN runs : runs[i].how = "delivered"}
Newest(runs, which) == runs[Max(which)]

\* A job writes a banner when it starts and a "done" line when it finishes, with
\* the tally of what failed; a run that dies writes no second line.
Markers(r) == <<[at |-> r.start, done |-> FALSE, tally |-> 0]>>
           \o IF r.how \in {"running", "died"} THEN <<>>
              ELSE <<[at |-> r.end, done |-> TRUE, tally |-> IF r.how = "failed" THEN 1 ELSE 0]>>
Written(runs) == FlattenSeq([i \in 1..Len(runs) |-> Markers(runs[i])])
\* Only the end of a log is read.
LastN(s, n) == IF Len(s) <= n THEN s ELSE SubSeq(s, Len(s) - n + 1, Len(s))
allMarkers(runs) == LastN(Written(runs), LogTail)

\* The exit code launchd remembers.  A job that tallies what failed exits clean.
ExitCode(tallies, runs) ==
  IF Ended(runs) # {} /\ Newest(runs, Ended(runs)).how \in {"died"} \cup (IF tallies THEN {} ELSE {"failed"})
    THEN 1 ELSE 0

-----------------------------------------------------------------------------
(* launchd                                                                    *)

launchdStatus(loaded, tallies, runs) ==
  [loaded |-> loaded, exit |-> ExitCode(tallies, runs), running |-> InFlight(runs)]

\* Mutant: the newest marker taken for a completed run, as it once was.
readNewest(markers) ==
  [found |-> markers # <<>>, at |-> IF markers = <<>> THEN 0 ELSE Last(markers).at,
   tally |-> IF markers = <<>> THEN 0 ELSE Last(markers).tally, unfinished |-> FALSE]

\* The newest completed run, and a start with no completion after it.
readDelivery(markers) ==
  LET done == {i \in DOMAIN markers : markers[i].done}
      d    == IF done = {} THEN 0 ELSE CHOOSE i \in done : \A j \in done : j <= i
  IN [found      |-> done # {},
      at         |-> IF done = {} THEN 0 ELSE markers[d].at,
      tally      |-> IF done = {} THEN 0 ELSE markers[d].tally,
      unfinished |-> d < Len(markers)]

\* "status" was read before "markers": a run may start or end in between.
localJob(status, markers) ==
  LET d == readDelivery(markers)
  IN CASE ~status.loaded  -> Report("down", 0)
       [] status.loaded /\ ~d.found -> Report("unknown", 0)
       [] status.loaded /\ d.found /\ d.unfinished ->
            Report(IF status.running THEN "ok" ELSE "failing", d.at)
       [] OTHER -> Report(IF status.exit # 0 THEN "failing" ELSE "ok", d.at)

\* brew-autoupgrade's tally counts failures, the reaper's counts its work.
launchdMarker(countsFailures, status, markers) ==
  LET r == localJob(status, markers)
  IN IF r.state = "ok" /\ countsFailures /\ readDelivery(markers).tally > 0
       THEN [r EXCEPT !.state = "failing"] ELSE r

\* The snapshot is written by a run that got to its end.
spendSnapshot(status, runs) ==
  CASE ~status.loaded -> Report("down", 0)
    [] status.loaded /\ Delivered(runs) = {} -> Report("unknown", 0)
    [] OTHER -> Report(IF status.exit # 0 THEN "failing" ELSE "ok", Newest(runs, Delivered(runs)).end)

\* The newest marker of any kind: a start banner holds none of the fields.  A
\* tally over the limit stands for a field that is.
markerFields(markers) ==
  IF markers = <<>> THEN Report("unknown", 0)
  ELSE IF ~Last(markers).done THEN Report("unknown", Last(markers).at)
  ELSE Report(IF Last(markers).tally > 0 THEN "failing" ELSE "ok", Last(markers).at)

-----------------------------------------------------------------------------
(* systemd                                                                    *)

systemdUnit(loaded, withLog, runs) ==
  LET ended  == Ended(runs)
      newest == Newest(runs, ended)
      d      == readDelivery(allMarkers(runs))
  IN CASE ~loaded -> Report("down", 0)
       [] loaded /\ ended = {} -> Report(IF InFlight(runs) THEN "ok" ELSE "unknown", 0)
       [] loaded /\ ended # {} /\ newest.how \in {"failed", "died"} -> Report("failing", newest.end)
       [] OTHER -> IF ~withLog THEN Report("ok", newest.end)
                   ELSE IF ~d.found THEN Report("unknown", newest.end) ELSE Report("ok", d.at)

-----------------------------------------------------------------------------
(* services                                                                   *)

\* 100.64.0.0/10 is also carrier-grade NAT space, so a Wi-Fi interface can hold
\* one of these addresses: the tunnel's go first, the others are tried too.
Interfaces == {"utun", "wifi"}
orderTailnet(held) == (IF "utun" \in held THEN <<"utun">> ELSE <<>>)
                   \o (IF "wifi" \in held THEN <<"wifi">> ELSE <<>>)
serviceOnTailnet(loaded, held, answering) ==
  IF loaded /\ \E i \in DOMAIN orderTailnet(held) : orderTailnet(held)[i] \in answering
    THEN Report("ok", 0) ELSE Report("down", 0)
serviceOnLoopback(loaded, answers) == Report(IF loaded /\ answers THEN "ok" ELSE "down", 0)
\* A service is dialled where it is declared to bind.
service(loopback, loaded, held, answering) ==
  IF loopback THEN serviceOnLoopback(loaded, answering # {}) ELSE serviceOnTailnet(loaded, held, answering)

-----------------------------------------------------------------------------
(* GitHub                                                                     *)

\* Only the newest run that completed: an older failure was recovered from.
failureNote(runs) == Ended(runs) # {} /\ Newest(runs, Ended(runs)).how \in {"failed", "died"}

\* "none": gh is not answering; "partial": the file was read, the runs were not.
githubFile(reach, runs) ==
  IF reach = "none" \/ Delivered(runs) = {} THEN ProbeError
  ELSE Report(IF reach = "all" /\ failureNote(runs) THEN "failing" ELSE "ok", Newest(runs, Delivered(runs)).end)

-----------------------------------------------------------------------------
(* n8n and heartbeats                                                         *)

\* "partial": no key, so only /healthz can be asked.
n8nPipeline(reach, runs) ==
  LET newest == Newest(runs, Ended(runs))
  IN CASE reach = "none" -> Report("down", 0)
       [] reach = "partial" -> Report("unknown", 0)
       [] reach = "all" /\ Ended(runs) = {} -> Report("unknown", 0)
       [] OTHER -> Report(IF newest.how \in {"failed", "died"} THEN "failing" ELSE "ok", newest.end)

\* A job posts when it ends, saying if it failed; one that dies posts nothing.
Beats(runs) == {i \in Ended(runs) : runs[i].how # "died"}
heartbeat(runs) ==
  IF Beats(runs) = {} THEN Report("unknown", 0)
  ELSE LET newest == Newest(runs, Beats(runs))
       IN Report(IF newest.how = "failed" THEN "failing" ELSE "ok", newest.end)

-----------------------------------------------------------------------------
(* The sweep's own judgement (internal/health/core).                          *)

\* A cadence of <<>> is an "every" left out: the duration is then 0.
Allowed(a) == IF a.every = <<>> THEN 0 ELSE a.every[1]
Judged(a, r, now) ==
  CASE r.state = "error" -> Report("unknown", r.last)
    [] r.state = "ok" /\ r.last # 0 /\ now - r.last > Allowed(a) -> [r EXCEPT !.state = "late"]
    [] OTHER -> r

-----------------------------------------------------------------------------
(* The roster (internal/health/config.go).                                    *)

\* The keys a probe's "with" block has to hold.
Required == [launchd_marker |-> {"label", "log"}, systemd_unit |-> {"unit"}, service |-> {"label", "port"},
             marker_fields |-> {"log", "fields"}, spend_snapshot |-> {"label"},
             github_delivery_file |-> {"repo", "path", "date_field"},
             github_newest_file |-> {"repo", "dir", "prefix", "suffix"},
             n8n |-> {"host", "workflow_id"}, heartbeat |-> {}]

\* A line of the file, of an automation among names.
Declaration(names) == [name : names, category : STRING, every : Seq(Nat), probe : STRING, with : SUBSET STRING]

Problem(roster, i) ==
  LET d == roster[i]
  IN \/ d.name = "" \/ \E j \in 1..(i - 1) : roster[j].name = d.name
     \/ d.category \notin {"automation", "machine"}
     \/ d.every = <<>> /\ d.probe # "service" /\ d.category # "machine"
     \/ d.probe \notin Kinds
     \/ d.probe \in Kinds /\ ~(Required[d.probe] \subseteq d.with)
\* Mutant: the lines with a problem are left out.
LoadGood(roster) == LET good == {i \in DOMAIN roster : ~Problem(roster, i)}
                    IN SetToSortSeq({roster[i] : i \in good}, LAMBDA x, y : FALSE)

\* Every problem is reported and any of them refuses the whole roster.
Load(roster) ==
  IF roster = <<>> \/ \E i \in DOMAIN roster : Problem(roster, i) THEN <<>> ELSE roster
=============================================================================
