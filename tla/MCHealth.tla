-------------------------------- MODULE MCHealth --------------------------------
(* Health on a small instance: one roster per kind of probe, and one of each   *)
(* kind of roster that does not load, swept by the alert job; rosters of one   *)
(* service and of one log, where sweeps of two jobs overlap; and a log of runs *)
(* longer than what a report looks back on.                                    *)
EXTENDS Health

Line(name, probe, with) ==
  [name |-> name, category |-> "automation", every |-> <<1>>, probe |-> probe, with |-> with]
Lone(probe) == <<Line("a", probe, Required[probe])>>
Counting == <<Line("a", "launchd_marker", {"label", "log", "counts"})>>
OddRosters ==
  {<<Line("a", "service", {"label", "port", "loopback"})>>,
   <<Line("a", "systemd_unit", {"unit", "log"})>>,
   <<[Line("a", "marker_fields", {"log", "fields"}) EXCEPT !.category = "machine", !.every = <<>>]>>}
  \cup {Lone("heartbeat") \o <<d>> :
         d \in {Line("b", "cron", {}), Line("b", "n8n", {"host"}), Line("a", "heartbeat", {}),
                [Line("b", "heartbeat", {}) EXCEPT !.every = <<>>],
                [Line("b", "heartbeat", {}) EXCEPT !.category = "home"]}}

SmallNames == {"a", "b", "old"}
SmallRenamed(a) == IF a = "old" THEN "a" ELSE a

Alerts == [by |-> "launchd", flags |-> {"alert", "runs"}]
Digests == [by |-> "launchd", flags |-> {"digest"}]
ByHand == [by |-> "hand", flags |-> {"runs"}]
SmallJobs == {Alerts, Digests, ByHand}

NoRuns == [a \in SmallNames |-> <<>>]
Past(times) == [i \in DOMAIN times |-> [start |-> times[i], end |-> times[i], how |-> "delivered"]]
Setup(lines, scheduled, t) ==
  [roster |-> lines, jobs |-> scheduled, runs |-> NoRuns, log |-> <<>>, now |-> t]
With1(setup, name) ==
  [setup EXCEPT !.runs[SmallRenamed(name)] = Past(<<1>>), !.log = <<Entry(name, 1, 1, "ok")>>, !.now = 2]

Alone == {Setup(lines, {Alerts}, 2) : lines \in {Lone(probe) : probe \in Kinds \ {"n8n"}} \cup {Counting}}
         \cup {Setup(lines, {Alerts}, 3) : lines \in OddRosters \cup {Lone("n8n")}}
Recorded ==
  {With1(Setup(Lone("launchd_marker"), {Alerts}, 2), "b"), 
   [With1(Setup(Lone("github_newest_file"), {Alerts}, 3), "old") EXCEPT !.now = 3]}
Overlapping == {Setup(Lone("service"), {Alerts, Digests}, 3)}
TwoReports ==
  {[Setup(Lone("github_delivery_file"), {Alerts, ByHand}, 4) EXCEPT
      !.runs["a"] = Past(<<2, 3>>), !.log = <<Entry("a", 2, 2, "ok")>>]}
LongLog ==
  {[Setup(Lone("n8n"), {Alerts}, 3) EXCEPT !.runs["a"] = Past(<<1, 2>>),
                                           !.log = <<Entry("a", 2, 2, "ok"), Entry("a", 1, 1, "ok")>>]}
SmallSetups == Alone \cup Recorded \cup Overlapping \cup TwoReports \cup LongLog
=============================================================================
