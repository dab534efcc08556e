------------------------------ MODULE Applications ------------------------------
(* Job applications (internal/apply, internal/daemon/applications.go): a local *)
(* table that is the primary store, and a Notion database that backs it up and *)
(* that the user also edits by hand.                                           *)
(*                                                                            *)
(* Steps are cut at the network calls: the statements a caller runs on SQLite  *)
(* between two of them are one step, so every interleaving here is one that a  *)
(* slow answer from Notion is enough to produce.  A key stands for a company   *)
(* and a role.                                                                *)
EXTENDS Naturals, FiniteSets

CONSTANTS
  Keys,       \* Application.Key: company and role, normalised
  Pages,      \* bound: Notion page ids, as many as writes can ask for
  NoPage,     \* notion_id = ''
  Statuses,   \* statuses an application can have
  Unlisted,   \* a status ListApplications leaves out ("Collected", "New")
  First,      \* "Applied"
  MaxLocal,   \* bound: edits, signals and syncs cut short on this machine
  MaxRemote   \* bound: edits made in Notion

ASSUME PagesAssumption == NoPage \notin Pages
ASSUME StatusAssumption == First \in Statuses /\ Unlisted \notin Statuses
ASSUME BoundsAssumption == MaxLocal \in Nat /\ MaxRemote \in Nat

VARIABLES
  row,        \* the applications table
  page,       \* the Notion database
  seen,       \* keys with an application event that is not a duplicate
  call,       \* what each caller is doing
  local,      \* edits, signals and syncs cut short so far
  remote      \* edits in Notion so far

applicationsVars == <<row, page, seen, call, local, remote>>

-----------------------------------------------------------------------------
AnyStatus == Statuses \cup {Unlisted}
Row == [page : Pages \cup {NoPage}, status : AnyStatus,
        sync : {"none", "pending", "error", "synced"}]
NoRow == [page |-> NoPage, status |-> Unlisted, sync |-> "none"]
NotionPage == [key : {{k} : k \in Keys} \cup {{}}, status : AnyStatus]

\* A row or a page as it was read: what an import or a push carries.
Copy == [key : Keys, status : AnyStatus, page : Pages \cup {NoPage}]
\* "sync" is SyncFromNotion, one at a time under the syncing lock; "update" the
\* dashboard's edit; "record" an email or the browser extension.
Callers == {"sync", "update", "record"}
Call == [step : {"idle", "import", "push", "found", "ok", "failed"},
         todo : SUBSET Copy, sent : SUBSET Copy]
Idle == [step |-> "idle", todo |-> {}, sent |-> {}]
Pushing(copies) == [step |-> "push", todo |-> copies, sent |-> {}]

Exists(k) == row[k].sync # "none"
Unpushed(r) == r.sync \in {"pending", "error"}
Read(k) == [key |-> k, status |-> row[k].status, page |-> row[k].page]
Fresh == IF \E p \in Pages : page[p].key = {} THEN {CHOOSE p \in Pages : page[p].key = {}} ELSE {}
Act == local < MaxLocal /\ local' = local + 1

ApplicationsInit ==
  /\ row = [k \in Keys |-> NoRow]
  /\ page = [p \in Pages |-> [key |-> {}, status |-> Unlisted]]
  /\ seen = {}
  /\ call = [c \in Callers |-> Idle]
  /\ local = 0 /\ remote = 0

-----------------------------------------------------------------------------
(* The user, in Notion: a page is added, its status changed, or its company   *)
(* or role edited, which gives it another key.                                *)
EditPage(p, k, s) ==
  /\ remote < MaxRemote /\ remote' = remote + 1
  /\ page[p].key # {} \/ p \in Fresh
  /\ page' = [page EXCEPT ![p] = [key |-> {k}, status |-> s]]
  /\ UNCHANGED <<row, seen, call, local>>

-----------------------------------------------------------------------------
(* Rows.                                                                     *)
Edited(r, s) == [r EXCEPT !.status = s, !.sync = "pending"]

\* updateApplication: Repository.Update, and the push of the row it returns.
Update(k, s) ==
  /\ call["update"].step = "idle" /\ Exists(k) /\ Act
  /\ row' = [row EXCEPT ![k] = Edited(@, s)]
  /\ call' = [call EXCEPT !["update"] = Pushing({[Read(k) EXCEPT !.status = s]})]
  /\ UNCHANGED <<page, seen, remote>>

\* Tracker.Record: a second signal keeps the status the row has; a first one
\* files the application as applied, whatever row an import had made.
Record(k) ==
  LET again == k \in seen /\ Exists(k)
      s == IF again THEN row[k].status ELSE First IN
  /\ call["record"].step = "idle" /\ Act
  /\ seen' = seen \cup {k}
  /\ row' = [row EXCEPT ![k] = Edited(@, s)]
  /\ call' = [call EXCEPT !["record"] =
        Pushing({[key |-> k, status |-> s, page |-> IF again THEN row[k].page ELSE NoPage]})]
  /\ UNCHANGED <<page, remote>>

-----------------------------------------------------------------------------
(* SyncFromNotion: import every page, then push every row that is not synced. *)
\* ListApplications.
ListApplications ==
  {c \in Copy : /\ c.page \in Pages /\ c.status \in Statuses
                /\ page[c.page] = [key |-> {c.key}, status |-> c.status]}

SyncStart ==
  /\ call["sync"].step = "idle"
  /\ call' = [call EXCEPT !["sync"] = [Idle EXCEPT !.step = "import", !.todo = ListApplications]]
  /\ UNCHANGED <<row, page, seen, local, remote>>

\* Mutant: the import goes in under the page's new key and the old row stays.
FollowNothing(rows, p, k) == rows

\* followRenamedPage: the row that holds the page moves to the page's key if no
\* row is there; else it goes if it is a synced copy, or lets go of the page.
followRenamedPage(rows, p, k) ==
  LET old == {j \in Keys \ {k} : rows[j].sync # "none" /\ rows[j].page = p}
      free == rows[k].sync = "none" IN
  [j \in Keys |->
     CASE j \in old -> IF free \/ rows[j].sync = "synced" THEN NoRow
                       ELSE [rows[j] EXCEPT !.page = NoPage]
       [] j = k /\ free /\ old # {} -> rows[CHOOSE i \in old : TRUE]
       [] OTHER -> rows[j]]

\* The upsert: an edit that was not pushed keeps its status and stays unpushed.
Merged(r, a) ==
  IF Unpushed(r) THEN [r EXCEPT !.page = a.page]
  ELSE [page |-> a.page, status |-> a.status, sync |-> "synced"]

\* One page of the list.  PageHasOneRow says that the index on notion_id never
\* refuses the upsert.
UpsertFromNotion(a) ==
  /\ call["sync"].step = "import" /\ a \in call["sync"].todo
  /\ row' = [followRenamedPage(row, a.page, a.key) EXCEPT ![a.key] = Merged(@, a)]
  /\ call' = [call EXCEPT !["sync"].todo = @ \ {a}]
  /\ UNCHANGED <<page, seen, local, remote>>

\* Mutant: only what was never tried is pushed.
PendingOnly == {k \in Keys : row[k].sync = "pending"}

Pending == {k \in Keys : Unpushed(row[k])}

\* The rows to push are read once, before the first of the pushes.
SyncPending ==
  /\ call["sync"].step = "import" /\ call["sync"].todo = {}
  /\ call' = [call EXCEPT !["sync"] =
                 IF Pending = {} THEN Idle ELSE Pushing({Read(k) : k \in Pending})]
  /\ UNCHANGED <<row, page, seen, local, remote>>

-----------------------------------------------------------------------------
(* Notion.Upsert, for each caller: find the page, write it, mark the row.     *)
\* findExisting: a row that names its page is not searched for; another takes a
\* page of its company and role.
FindExisting(c) ==
  /\ call[c].step = "push"
  /\ \E a \in call[c].todo :
       LET same == {p \in Pages : page[p].key = {a.key}} IN
       /\ a.page = NoPage
       /\ \E p \in IF same # {} THEN same ELSE {NoPage} :
            call' = [call EXCEPT ![c] = [step |-> "found", todo |-> @.todo \ {a},
                                         sent |-> {[a EXCEPT !.page = p]}]]
  /\ UNCHANGED <<row, page, seen, local, remote>>

\* What the next write of a caller carries.
Ready(c) ==
  CASE call[c].step = "found" -> call[c].sent
    [] call[c].step = "push" -> {a \in call[c].todo : a.page # NoPage}
    [] OTHER -> {}
Answered(c, a, step) ==
  call' = [call EXCEPT ![c] = [step |-> step, todo |-> @.todo \ {a}, sent |-> {a}]]

\* The write: PATCH of the page found, or POST of a new one.  It sets the
\* company and the role too.
Write(a) ==
  /\ \E p \in IF a.page # NoPage THEN {a.page} ELSE Fresh :
       page' = [page EXCEPT ![p] = [key |-> {a.key}, status |-> a.status]]
  /\ UNCHANGED <<row, seen, local, remote>>

SendOk(c) == \E a \in Ready(c) : Write(a) /\ Answered(c, a, "ok")
\* The page is written and the answer lost.
SendLost(c) == \E a \in Ready(c) : Write(a) /\ Answered(c, a, "failed")
\* Notion is not reached, for the search or for the write, or refuses.
SendFails(c) ==
  /\ \E a \in Ready(c) : Answered(c, a, "failed")
  /\ UNCHANGED <<row, page, seen, local, remote>>

\* MarkSynced or MarkSyncError, by key: a row that is gone is left alone.
Mark(c) ==
  /\ call[c].step \in {"ok", "failed"}
  /\ \E a \in call[c].sent :
       row' = [row EXCEPT ![a.key].sync =
                 CASE @ = "none" -> "none"
                   [] call[c].step = "ok" -> "synced"
                   [] OTHER -> "error"]
  /\ call' = [call EXCEPT ![c] = IF @.todo = {} THEN Idle ELSE Pushing(@.todo)]
  /\ UNCHANGED <<page, seen, local, remote>>

\* The caller goes no further: its process stops, or Notion is not connected.
Abandon(c) ==
  /\ call[c].step # "idle"
  /\ IF c = "sync" THEN Act ELSE UNCHANGED local
  /\ call' = [call EXCEPT ![c] = Idle]
  /\ UNCHANGED <<row, page, seen, remote>>

-----------------------------------------------------------------------------
SyncStep == SyncStart \/ (\E a \in Copy : UpsertFromNotion(a)) \/ SyncPending

ApplicationsNext ==
  \/ \E p \in Pages, k \in Keys, s \in AnyStatus : EditPage(p, k, s)
  \/ \E k \in Keys, s \in AnyStatus : Update(k, s)
  \/ \E k \in Keys : Record(k)
  \/ SyncStep
  \/ \E c \in Callers :
       FindExisting(c) \/ SendOk(c) \/ SendLost(c) \/ SendFails(c) \/ Mark(c) \/ Abandon(c)

ApplicationsSpec == ApplicationsInit /\ [][ApplicationsNext]_applicationsVars

\* The daemon's timer starts a sync every quarter of an hour, callers go on, and
\* Notion does not fail for ever.
ApplicationsFairSpec ==
  /\ ApplicationsSpec /\ WF_applicationsVars(SyncStep)
  /\ \A c \in Callers : WF_applicationsVars(FindExisting(c)) /\ WF_applicationsVars(Mark(c)) /\ SF_applicationsVars(SendOk(c))

-----------------------------------------------------------------------------
ApplicationsTypeOK ==
  /\ row \in [Keys -> Row] /\ page \in [Pages -> NotionPage]
  /\ seen \subseteq Keys /\ call \in [Callers -> Call]
  /\ local \in 0 .. MaxLocal /\ remote \in 0 .. MaxRemote

\* A page that is renamed, or a second page of one company and role, leaves no
\* two rows with one page, which is what the index on notion_id demands: no
\* import is refused, and one renamed page does not end every sync.
PageHasOneRow ==
  \A j, k \in Keys : Exists(j) /\ Exists(k) /\ row[j].page = row[k].page /\ j # k
                       => row[j].page = NoPage

\* A row and the page it names agree, and nothing waits to be pushed.
Settled ==
  \A k \in Keys : Exists(k) =>
    /\ row[k].sync = "synced"
    /\ row[k].page # NoPage /\ page[row[k].page].status \in Statuses
         => page[row[k].page] = [key |-> {k}, status |-> row[k].status]

\* However pushes, imports, renames and crashes interleave, once the edits stop
\* the two stores come to agree and stay so.
Converges == <>[]Settled

=============================================================================
