---------------------------- MODULE DaemonProofs ----------------------------
(***************************************************************************)
(* What this machine does by itself: the daemon's listeners, its copy of   *)
(* the applications in Notion, and the health sweep launchd runs beside    *)
(* it, for any addresses, pages and automations.                           *)
(***************************************************************************)
EXTENDS Binder, Applications, Health, SequenceTheorems, WellFoundedInduction, FiniteSetTheorems, TLAPS

-----------------------------------------------------------------------------
(* The listeners.  What is open outside is the listeners of one tailnet        *)
(* address, whole between two rounds.                                         *)

\* The sockets outside are the listed ones, and they are of the bound address
\* except while a new one is being opened.
Listed ==
    /\ Outside = tailnet
    /\ at # "opening" => tailnet = IF bound = None THEN {} ELSE {bound} \X Ports
    /\ at = "opening" => bound = None /\ ip # None /\ tailnet \subseteq {ip} \X Ports

\* Addresses are found among the tailnet's, and looked for only if asked to.
Found ==
    /\ ip \in TailAddrs \union {None} /\ bound \in TailAddrs \union {None}
    /\ localhost => ip = None /\ bound = None /\ at \notin {"cli", "interfaces", "opening"}

\* Loopback is served before anything is watched, and nothing else is then.
Started ==
    /\ at \in {"off", "start"} => bound = None /\ ip = None
    /\ at \notin {"off", "start"} => {Loopback} \X Ports \subseteq sockets

IInv == TypeOK /\ Listed /\ Found /\ Started

LEMMA InitIInv == Init => IInv
BY AddressesDiffer DEF Init, IInv, TypeOK, Listed, Found, Started, Outside

\* The environment changes nothing of the daemon's.
LEMMA NetworkStep ==
    ASSUME IInv, InterfacesChange \/ PortChanges
    PROVE  IInv'
<1>1. TypeOK'
  <2>1. CASE InterfacesChange
    BY <2>1 DEF IInv, TypeOK, InterfacesChange, UnlessNetwork, Addrs, Sockets
  <2>2. CASE PortChanges
    BY <2>2 DEF IInv, TypeOK, PortChanges, UnlessNetwork, Addrs, Sockets
  <2> QED BY <2>1, <2>2
<1>2. UNCHANGED <<at, localhost, sockets, ip, tailnet, bound>>
  BY DEF InterfacesChange, PortChanges, UnlessNetwork
<1> QED BY <1>1, <1>2 DEF IInv, Listed, Found, Started, Outside

LEMMA ExitStep ==
    ASSUME IInv, Exit
    PROVE  IInv'
BY DEF IInv, TypeOK, Listed, Found, Started, Outside, Exit, network, Addrs, Sockets

LEMMA LaunchStep ==
    ASSUME IInv, Launch
    PROVE  IInv'
BY DEF IInv, TypeOK, Listed, Found, Started, Outside, Launch, network, Addrs, Sockets

LEMMA ListenLoopbackStep ==
    ASSUME IInv, ListenLoopback
    PROVE  IInv'
<1>1. PICK p \in Ports :
        \/ /\ sockets' = sockets \union {<<Loopback, p>>}
           /\ at' = IF {Loopback} \X Ports \subseteq sockets' THEN "idle" ELSE at
           /\ UNCHANGED <<network, localhost, ip, tailnet, bound>>
        \/ Exit
  BY DEF ListenLoopback
<1>2. at = "start"
  BY DEF ListenLoopback
<1>3. CASE Exit
  BY <1>3, ExitStep
<1>4. CASE /\ sockets' = sockets \union {<<Loopback, p>>}
           /\ at' = IF {Loopback} \X Ports \subseteq sockets' THEN "idle" ELSE at
           /\ UNCHANGED <<network, localhost, ip, tailnet, bound>>
  <2>1. TypeOK'
    BY <1>2, <1>4 DEF IInv, TypeOK, network, Addrs, Sockets
  <2>2. Outside' = Outside
    BY <1>4 DEF Outside
  <2>3. Listed' /\ Found' /\ Started'
    BY <1>2, <1>4, <2>2 DEF IInv, Listed, Found, Started
  <2> QED BY <2>1, <2>3 DEF IInv
<1> QED BY <1>1, <1>3, <1>4

\* The steps of a round that only look.
LEMMA LookStep ==
    ASSUME IInv, Tick \/ AskTailscale \/ ReadInterfaces
    PROVE  IInv'
<1>1. CASE Tick
  BY <1>1 DEF IInv, TypeOK, Listed, Found, Started, Outside, Tick, network, Addrs, Sockets
<1>2. CASE AskTailscale
  BY <1>2 DEF IInv, TypeOK, Listed, Found, Started, Outside, AskTailscale, network, Addrs, Sockets
<1>3. CASE ReadInterfaces
  <2>1. ip' \in TailAddrs \union {None}
    BY <1>3 DEF IInv, TypeOK, ReadInterfaces, FindAddress, Looked, Candidates
  <2> QED BY <1>3, <2>1 DEF IInv, TypeOK, Listed, Found, Started, Outside, ReadInterfaces, FindAddress, Looked, network, Addrs, Sockets
<1> QED BY <1>1, <1>2, <1>3

LEMMA ReconcileStep ==
    ASSUME IInv, Reconcile
    PROVE  IInv'
<1>1. at = "found" /\ UNCHANGED <<network, localhost, ip>>
  BY DEF Reconcile
<1>2. CASE ip = bound
  BY <1>1, <1>2 DEF IInv, TypeOK, Listed, Found, Started, Outside, Reconcile, network, Addrs, Sockets
<1>3. CASE ip # bound
  <2>1. /\ sockets' = sockets \ tailnet /\ tailnet' = {} /\ bound' = None
        /\ at' = IF ip = None THEN "idle" ELSE "opening"
    BY <1>3 DEF Reconcile
  <2>2. TypeOK'
    BY <1>1, <2>1 DEF IInv, TypeOK, network, Addrs, Sockets
  <2>3. Outside' = {}
    BY <2>1 DEF IInv, Listed, Outside
  <2>4. {Loopback} \X Ports \subseteq sockets'
    BY <1>1, <2>1 DEF IInv, Listed, Started, Outside
  <2>5. Listed' /\ Found' /\ Started'
    BY <1>1, <2>1, <2>3, <2>4 DEF IInv, Listed, Found, Started
  <2> QED BY <2>2, <2>5 DEF IInv
<1> QED BY <1>2, <1>3

LEMMA ListenTailnetStep ==
    ASSUME IInv, ListenTailnet
    PROVE  IInv'
<1>1. /\ at = "opening" /\ bound = None /\ ip \in TailAddrs /\ ip # Loopback /\ ip # None
      /\ ~localhost
      /\ Outside = tailnet /\ tailnet \subseteq {ip} \X Ports
      /\ {Loopback} \X Ports \subseteq sockets
      /\ UNCHANGED <<network, localhost, ip>>
  BY AddressesDiffer DEF IInv, Listed, Found, Started, ListenTailnet
<1>2. PICK p \in Ports :
        \/ /\ sockets' = sockets \union {<<ip, p>>}
           /\ tailnet' = tailnet \union {<<ip, p>>}
           /\ IF {ip} \X Ports \subseteq tailnet'
              THEN bound' = ip /\ at' = "idle"
              ELSE UNCHANGED <<bound, at>>
        \/ sockets' = Undone /\ tailnet' = {} /\ at' = "idle" /\ UNCHANGED bound
  BY DEF ListenTailnet
<1>3. CASE /\ sockets' = sockets \union {<<ip, p>>}
           /\ tailnet' = tailnet \union {<<ip, p>>}
           /\ IF {ip} \X Ports \subseteq tailnet'
              THEN bound' = ip /\ at' = "idle"
              ELSE UNCHANGED <<bound, at>>
  <2>1. TypeOK'
    BY <1>1, <1>3 DEF IInv, TypeOK, network, Addrs, Sockets
  <2>2. Outside' = tailnet'
    BY <1>1, <1>3 DEF Outside
  <2>3. tailnet' \subseteq {ip} \X Ports
    BY <1>1, <1>3
  <2>4. Listed'
    BY <1>1, <1>3, <2>2, <2>3 DEF Listed
  <2>5. Found' /\ Started'
    BY <1>1, <1>3 DEF Found, Started
  <2> QED BY <2>1, <2>4, <2>5 DEF IInv
<1>4. CASE sockets' = Undone /\ tailnet' = {} /\ at' = "idle" /\ UNCHANGED bound
  <2>1. TypeOK'
    BY <1>1, <1>4 DEF IInv, TypeOK, Undone, network, Addrs, Sockets
  <2>2. Outside' = {}
    BY <1>1, <1>4 DEF Outside, Undone
  <2>3. {Loopback} \X Ports \subseteq sockets'
    BY <1>1, <1>4 DEF Undone
  <2>4. Listed' /\ Found' /\ Started'
    BY <1>1, <1>4, <2>2, <2>3 DEF Listed, Found, Started
  <2> QED BY <2>1, <2>4 DEF IInv
<1> QED BY <1>2, <1>3, <1>4

LEMMA Stutter ==
    ASSUME IInv, UNCHANGED vars
    PROVE  IInv'
BY DEF IInv, TypeOK, Listed, Found, Started, Outside, vars, network, Addrs, Sockets

LEMMA Invariance == Spec => []IInv
<1>1. IInv /\ [Next]_vars => IInv'
  BY NetworkStep, ExitStep, LaunchStep, ListenLoopbackStep, LookStep, ReconcileStep, ListenTailnetStep, Stutter
     DEF Next, Stop
<1> QED BY InitIInv, <1>1, PTL DEF Spec

\* Addresses, ports, sockets and the binder's place in a round stay what they are.
THEOREM TypeCorrect == Spec => []TypeOK
<1>1. IInv => TypeOK
  BY DEF IInv
<1> QED BY Invariance, <1>1, PTL

\* Nothing is ever open outside but listeners on an address of the tailnet,
\* and none with -localhost, whatever addresses carriers hand out and however
\* interfaces and ports change under the binder.
THEOREM NothingElse == Spec => []OnlyTailnet
<1>1. IInv => OnlyTailnet
  <2> SUFFICES ASSUME IInv, NEW s \in Outside
               PROVE  s[1] \in TailAddrs /\ ~localhost
    BY DEF OnlyTailnet
  <2>1. s \in tailnet
    BY DEF IInv, Listed
  <2>2. CASE at = "opening"
    BY <2>1, <2>2 DEF IInv, Listed, Found
  <2>3. CASE at # "opening"
    BY <2>1, <2>3 DEF IInv, Listed, Found
  <2> QED BY <2>2, <2>3
<1> QED BY Invariance, <1>1, PTL

\* Between two rounds an address is served on every port or on none, and
\* loopback on all of them.
THEOREM AllOrNothing == Spec => []WholeOrNone
<1>1. IInv => WholeOrNone
  BY DEF IInv, Listed, Started, WholeOrNone
<1> QED BY Invariance, <1>1, PTL

-----------------------------------------------------------------------------
(* Applications.  A row that is gone has let go of its page too: a signal that *)
(* files it again starts without one.                                         *)
Absent == \A k \in Keys : row[k].sync = "none" => row[k].page = NoPage

ApplicationsInv == ApplicationsTypeOK /\ PageHasOneRow /\ Absent

LEMMA InitApplications == ApplicationsInit => ApplicationsInv
BY BoundsAssumption DEF ApplicationsInit, ApplicationsInv, ApplicationsTypeOK, PageHasOneRow, Absent,
     Exists, Row, NoRow, NotionPage, AnyStatus, Call, Idle

\* What a caller does next in its push, or that it stops.
LEMMA CallerTyped ==
  ASSUME ApplicationsTypeOK, NEW c \in Callers, NEW d \in Call, call' = [call EXCEPT ![c] = d]
  PROVE  call' \in [Callers -> Call]
BY DEF ApplicationsTypeOK

\* A row whose status and marks change keeps its page, and is not gone.
LEMMA RowKept ==
  ASSUME ApplicationsInv, NEW k \in Keys, NEW r \in Row,
         r.page = row[k].page, r.sync # "none" \/ r = row[k], row' = [row EXCEPT ![k] = r]
  PROVE  row' \in [Keys -> Row] /\ PageHasOneRow' /\ Absent'
<1>1. row' \in [Keys -> Row]
  BY DEF ApplicationsInv, ApplicationsTypeOK
<1>2. \A j \in Keys : row'[j].page = row[j].page /\ (row[j].sync # "none" => row'[j].sync # "none")
  BY DEF ApplicationsInv, ApplicationsTypeOK
<1>3. \A j \in Keys : row'[j].sync = "none" => row[j].sync = "none"
  BY <1>2
<1>4. PageHasOneRow'
  <2> SUFFICES ASSUME NEW i \in Keys, NEW j \in Keys, Exists(i)', Exists(j)', i # j,
                      (row[i].page = row[j].page)'
               PROVE  row'[i].page = NoPage
    BY DEF PageHasOneRow
  <2>1. row[i].page = row[j].page /\ row'[i].page = row[i].page
    BY <1>2
  <2>2. CASE row[i].sync = "none" \/ row[j].sync = "none"
    BY <2>1, <2>2 DEF ApplicationsInv, Absent
  <2>3. CASE row[i].sync # "none" /\ row[j].sync # "none"
    BY <2>1, <2>3 DEF ApplicationsInv, PageHasOneRow, Exists
  <2> QED BY <2>2, <2>3
<1>5. Absent'
  BY <1>2, <1>3 DEF ApplicationsInv, Absent
<1> QED BY <1>1, <1>4, <1>5

LEMMA EditPageStep ==
  ASSUME ApplicationsInv, NEW p \in Pages, NEW k \in Keys, NEW s \in AnyStatus, EditPage(p, k, s)
  PROVE  ApplicationsInv'
<1>1. page' \in [Pages -> NotionPage]
  BY DEF ApplicationsInv, ApplicationsTypeOK, EditPage, NotionPage
<1>2. remote' \in 0 .. MaxRemote
  BY BoundsAssumption DEF ApplicationsInv, ApplicationsTypeOK, EditPage
<1>3. UNCHANGED <<row, seen, call, local>>
  BY DEF EditPage
<1> QED BY <1>1, <1>2, <1>3 DEF ApplicationsInv, ApplicationsTypeOK, PageHasOneRow, Absent, Exists

LEMMA ActTyped ==
  ASSUME ApplicationsTypeOK, Act
  PROVE  local' \in 0 .. MaxLocal
BY BoundsAssumption DEF ApplicationsTypeOK, Act

LEMMA UpdateStep ==
  ASSUME ApplicationsInv, NEW k \in Keys, NEW s \in AnyStatus, Update(k, s)
  PROVE  ApplicationsInv'
<1> DEFINE r == Edited(row[k], s)
           copy == [Read(k) EXCEPT !.status = s]
<1>1. row[k] \in Row
  BY DEF ApplicationsInv, ApplicationsTypeOK
<1>2. r \in Row /\ r.page = row[k].page /\ r.sync # "none"
  BY <1>1 DEF Edited, Row, AnyStatus
<1>3. row' \in [Keys -> Row] /\ PageHasOneRow' /\ Absent'
  <2>1. row' = [row EXCEPT ![k] = r]
    BY DEF Update
  <2> QED BY <1>2, <2>1, RowKept
<1>4. copy \in Copy
  BY <1>1 DEF Read, Copy, Row, AnyStatus
<1>5. call' \in [Callers -> Call]
  <2>1. Pushing({copy}) \in Call
    BY <1>4 DEF Pushing, Call
  <2>2. call' = [call EXCEPT !["update"] = Pushing({copy})]
    BY DEF Update
  <2> QED BY <2>1, <2>2, CallerTyped DEF ApplicationsInv, Callers
<1>6. local' \in 0 .. MaxLocal /\ UNCHANGED <<page, seen, remote>>
  BY ActTyped DEF Update, ApplicationsInv
<1> QED BY <1>3, <1>5, <1>6 DEF ApplicationsInv, ApplicationsTypeOK

LEMMA RecordStep ==
  ASSUME ApplicationsInv, NEW k \in Keys, Record(k)
  PROVE  ApplicationsInv'
<1> DEFINE again == k \in seen /\ Exists(k)
           s == IF again THEN row[k].status ELSE First
           r == Edited(row[k], s)
           copy == [key |-> k, status |-> s, page |-> IF again THEN row[k].page ELSE NoPage]
<1>1. row[k] \in Row
  BY DEF ApplicationsInv, ApplicationsTypeOK
<1>2. s \in AnyStatus
  BY <1>1, StatusAssumption DEF Row, AnyStatus
<1>3. r \in Row /\ r.page = row[k].page /\ r.sync # "none"
  BY <1>1, <1>2 DEF Edited, Row
<1>4. row' \in [Keys -> Row] /\ PageHasOneRow' /\ Absent'
  <2>1. row' = [row EXCEPT ![k] = r]
    BY DEF Record
  <2> QED BY <1>3, <2>1, RowKept
<1>5. copy \in Copy
  BY <1>1, <1>2 DEF Copy, Row
<1>6. call' \in [Callers -> Call]
  <2>1. Pushing({copy}) \in Call
    BY <1>5 DEF Pushing, Call
  <2>2. call' = [call EXCEPT !["record"] = Pushing({copy})]
    BY DEF Record
  <2> QED BY <2>1, <2>2, CallerTyped DEF ApplicationsInv, Callers
<1>7. local' \in 0 .. MaxLocal /\ UNCHANGED <<page, remote>>
  BY ActTyped DEF Record, ApplicationsInv
<1>8. seen' \subseteq Keys
  BY DEF Record, ApplicationsInv, ApplicationsTypeOK
<1> QED BY <1>4, <1>6, <1>7, <1>8 DEF ApplicationsInv, ApplicationsTypeOK

\* A step of a caller that leaves the rows alone.
LEMMA RowsAlone ==
  ASSUME ApplicationsInv, ApplicationsTypeOK', UNCHANGED row
  PROVE  ApplicationsInv'
BY DEF ApplicationsInv, PageHasOneRow, Absent, Exists

LEMMA SyncStartStep ==
  ASSUME ApplicationsInv, SyncStart
  PROVE  ApplicationsInv'
<1> DEFINE d == [Idle EXCEPT !.step = "import", !.todo = ListApplications]
<1>1. d \in Call
  BY DEF Idle, Call, ListApplications
<1>2. call' = [call EXCEPT !["sync"] = d] /\ UNCHANGED <<row, page, seen, local, remote>>
  BY DEF SyncStart
<1>3. call' \in [Callers -> Call]
  BY <1>1, <1>2, CallerTyped DEF ApplicationsInv, Callers
<1>4. ApplicationsTypeOK'
  BY <1>2, <1>3 DEF ApplicationsInv, ApplicationsTypeOK
<1> QED BY <1>2, <1>4, RowsAlone

\* followRenamedPage leaves no row but the page's own with the page.
LEMMA Followed ==
  ASSUME ApplicationsInv, NEW p, NEW k \in Keys
  PROVE  LET rows == followRenamedPage(row, p, k)
         IN /\ rows \in [Keys -> Row]
            /\ \A j \in Keys \ {k} : p # NoPage /\ rows[j].sync # "none" => rows[j].page # p
            /\ \A j \in Keys : rows[j].sync = "none" => rows[j].page = NoPage
            /\ \A j \in Keys \ {k} : rows[j].page \in {row[j].page, NoPage}
            /\ \A j \in Keys \ {k} : rows[j].sync # "none" => row[j].sync # "none"
<1> DEFINE old == {j \in Keys \ {k} : row[j].sync # "none" /\ row[j].page = p}
           free == row[k].sync = "none"
           rows == followRenamedPage(row, p, k)
<1>1. \A j \in Keys : row[j] \in Row
  BY DEF ApplicationsInv, ApplicationsTypeOK
<1>2. \A j \in Keys : row[j].sync = "none" => row[j].page = NoPage
  BY DEF ApplicationsInv, Absent
<1>3. NoRow \in Row /\ NoRow.page = NoPage /\ NoRow.sync = "none"
  BY DEF NoRow, Row, AnyStatus
<1>4. \A j \in Keys : rows[j] =
        CASE j \in old -> IF free \/ row[j].sync = "synced" THEN NoRow
                          ELSE [row[j] EXCEPT !.page = NoPage]
          [] j = k /\ free /\ old # {} -> row[CHOOSE i \in old : TRUE]
          [] OTHER -> row[j]
  BY DEF followRenamedPage
<1>5. \A j \in old : j # k /\ rows[j].page = NoPage /\ rows[j] \in Row /\ row[j].sync # "none"
  <2> SUFFICES ASSUME NEW j \in old PROVE j # k /\ rows[j].page = NoPage /\ rows[j] \in Row /\ row[j].sync # "none"
    OBVIOUS
  <2>1. rows[j] = IF free \/ row[j].sync = "synced" THEN NoRow ELSE [row[j] EXCEPT !.page = NoPage]
    BY <1>4
  <2>2. [row[j] EXCEPT !.page = NoPage] \in Row /\ [row[j] EXCEPT !.page = NoPage].page = NoPage
    BY <1>1 DEF Row
  <2> QED BY <2>1, <2>2, <1>3
<1>6. \A j \in Keys \ (old \cup {k}) : rows[j] = row[j] /\ (row[j].sync = "none" \/ row[j].page # p)
  BY <1>4
<1>7. rows[k] \in Row /\ (rows[k].sync = "none" => rows[k].page = NoPage)
  <2>1. CASE free /\ old # {}
    <3> DEFINE i == CHOOSE i \in old : TRUE
    <3>1. i \in old
      BY <2>1
    <3>2. rows[k] = row[i]
      BY <1>4, <2>1
    <3> QED BY <3>1, <3>2, <1>1, <1>2
  <2>2. CASE ~(free /\ old # {})
    <3>1. rows[k] = row[k]
      BY <1>4, <2>2
    <3> QED BY <3>1, <1>1, <1>2
  <2> QED BY <2>1, <2>2
<1>8. rows \in [Keys -> Row]
  <2>1. \A j \in Keys : rows[j] \in Row
    BY <1>5, <1>6, <1>7, <1>1
  <2>2. rows = [j \in Keys |-> rows[j]]
    BY DEF followRenamedPage
  <2> QED BY <2>1, <2>2
<1>9. \A j \in Keys \ {k} : p # NoPage /\ rows[j].sync # "none" => rows[j].page # p
  BY <1>5, <1>6
<1>10. \A j \in Keys : rows[j].sync = "none" => rows[j].page = NoPage
  BY <1>5, <1>6, <1>7, <1>2
<1>11. \A j \in Keys \ {k} : rows[j].page \in {row[j].page, NoPage} /\ (rows[j].sync # "none" => row[j].sync # "none")
  BY <1>5, <1>6
<1> QED BY <1>8, <1>9, <1>10, <1>11

LEMMA UpsertStep ==
  ASSUME ApplicationsInv, NEW a \in Copy, UpsertFromNotion(a)
  PROVE  ApplicationsInv'
<1> DEFINE k == a.key
           rows == followRenamedPage(row, a.page, a.key)
           r == Merged(rows[k], a)
<1>1. k \in Keys /\ a.page \in Pages \cup {NoPage} /\ a.status \in AnyStatus
  BY DEF Copy
<1>2. /\ rows \in [Keys -> Row]
      /\ \A j \in Keys \ {k} : a.page # NoPage /\ rows[j].sync # "none" => rows[j].page # a.page
      /\ \A j \in Keys : rows[j].sync = "none" => rows[j].page = NoPage
      /\ \A j \in Keys \ {k} : rows[j].page \in {row[j].page, NoPage}
      /\ \A j \in Keys \ {k} : rows[j].sync # "none" => row[j].sync # "none"
  BY <1>1, Followed
<1> HIDE DEF rows
<1>3. r \in Row /\ r.page = a.page /\ r.sync # "none"
  <2>1. rows[k] \in Row
    BY <1>1, <1>2
  <2>2. CASE Unpushed(rows[k])
    BY <2>1, <2>2, <1>1 DEF Merged, Unpushed, Row
  <2>3. CASE ~Unpushed(rows[k])
    BY <2>3, <1>1 DEF Merged, Row
  <2> QED BY <2>2, <2>3
<1>4. row' = [rows EXCEPT ![k] = r] /\ UNCHANGED <<page, seen, local, remote>>
  BY DEF UpsertFromNotion, rows
<1>5. row' \in [Keys -> Row]
  BY <1>2, <1>3, <1>4
<1>6. row'[k] = r /\ \A j \in Keys \ {k} : row'[j] = rows[j]
  BY <1>1, <1>2, <1>4
<1>7. PageHasOneRow'
  <2>1. \A j \in Keys \ {k} : row'[j].sync # "none" /\ row'[j].page = row'[k].page => row'[j].page = NoPage
    BY <1>2, <1>3, <1>6
  <2>2. \A i, j \in Keys \ {k} :
          row'[i].sync # "none" /\ row'[j].sync # "none" /\ row'[i].page = row'[j].page /\ i # j => row'[j].page = NoPage
    BY <1>2, <1>6 DEF ApplicationsInv, PageHasOneRow, Exists
  <2> QED BY <2>1, <2>2, <1>1 DEF PageHasOneRow, Exists
<1>8. Absent'
  BY <1>1, <1>2, <1>3, <1>6 DEF Absent
<1>9. call' \in [Callers -> Call]
  <2>1. call["sync"] \in Call
    BY DEF ApplicationsInv, ApplicationsTypeOK, Callers
  <2>2. [call["sync"] EXCEPT !.todo = @ \ {a}] \in Call
    BY <2>1 DEF Call
  <2>3. call' = [call EXCEPT !["sync"] = [call["sync"] EXCEPT !.todo = @ \ {a}]]
    BY DEF UpsertFromNotion, ApplicationsInv, ApplicationsTypeOK
  <2> QED BY <2>2, <2>3, CallerTyped DEF ApplicationsInv, Callers
<1> QED BY <1>4, <1>5, <1>7, <1>8, <1>9 DEF ApplicationsInv, ApplicationsTypeOK

LEMMA SyncPendingStep ==
  ASSUME ApplicationsInv, SyncPending
  PROVE  ApplicationsInv'
<1> DEFINE d == IF Pending = {} THEN Idle ELSE Pushing({Read(k) : k \in Pending})
<1>1. d \in Call
  <2>1. Idle \in Call
    BY DEF Idle, Call
  <2>2. \A k \in Pending : Read(k) \in Copy
    BY DEF Pending, Read, Copy, ApplicationsInv, ApplicationsTypeOK, Row
  <2>3. Pushing({Read(k) : k \in Pending}) \in Call
    BY <2>2 DEF Pushing, Call
  <2> QED BY <2>1, <2>3
<1>2. call' = [call EXCEPT !["sync"] = d] /\ UNCHANGED <<row, page, seen, local, remote>>
  BY DEF SyncPending
<1>3. call' \in [Callers -> Call]
  BY <1>1, <1>2, CallerTyped DEF ApplicationsInv, Callers
<1>4. ApplicationsTypeOK'
  BY <1>2, <1>3 DEF ApplicationsInv, ApplicationsTypeOK
<1> QED BY <1>2, <1>4, RowsAlone

LEMMA FindExistingStep ==
  ASSUME ApplicationsInv, NEW c \in Callers, FindExisting(c)
  PROVE  ApplicationsInv'
<1>1. call[c] \in Call
  BY DEF ApplicationsInv, ApplicationsTypeOK
<1>2. PICK a \in call[c].todo, p \in Pages \cup {NoPage} :
        call' = [call EXCEPT ![c] = [step |-> "found", todo |-> call[c].todo \ {a},
                                     sent |-> {[a EXCEPT !.page = p]}]]
  BY DEF FindExisting, ApplicationsInv, ApplicationsTypeOK
<1>3. a \in Copy /\ [a EXCEPT !.page = p] \in Copy
  BY <1>1 DEF Call, Copy
<1>4. [step |-> "found", todo |-> call[c].todo \ {a}, sent |-> {[a EXCEPT !.page = p]}] \in Call
  BY <1>1, <1>3 DEF Call
<1>5. call' \in [Callers -> Call]
  BY <1>2, <1>4, CallerTyped DEF ApplicationsInv
<1>6. UNCHANGED <<row, page, seen, local, remote>>
  BY DEF FindExisting
<1>7. ApplicationsTypeOK'
  BY <1>5, <1>6 DEF ApplicationsInv, ApplicationsTypeOK
<1> QED BY <1>6, <1>7, RowsAlone

\* What is ready to be written is a copy of a row.
LEMMA ReadyIsCopy ==
  ASSUME ApplicationsInv, NEW c \in Callers, NEW a \in Ready(c)
  PROVE  a \in Copy
BY DEF Ready, ApplicationsInv, ApplicationsTypeOK, Call

LEMMA AnsweredTyped ==
  ASSUME ApplicationsInv, NEW c \in Callers, NEW a \in Copy, NEW step \in {"ok", "failed"}, Answered(c, a, step)
  PROVE  call' \in [Callers -> Call]
<1> DEFINE d == [step |-> step, todo |-> call[c].todo \ {a}, sent |-> {a}]
<1>1. call[c] \in Call
  BY DEF ApplicationsInv, ApplicationsTypeOK
<1>2. d \in Call
  BY <1>1 DEF Call
<1>3. call' = [call EXCEPT ![c] = d]
  BY DEF Answered, ApplicationsInv, ApplicationsTypeOK
<1> QED BY <1>2, <1>3, CallerTyped DEF ApplicationsInv

\* A write changes one page, of the key and status it carries.
LEMMA WriteTyped ==
  ASSUME ApplicationsInv, NEW a \in Copy, Write(a)
  PROVE  page' \in [Pages -> NotionPage] /\ UNCHANGED <<row, seen, local, remote>>
<1>1. [key |-> {a.key}, status |-> a.status] \in NotionPage
  BY DEF Copy, NotionPage
<1>2. PICK p \in Pages \cup {NoPage} : page' = [page EXCEPT ![p] = [key |-> {a.key}, status |-> a.status]]
  BY DEF Write, Fresh, Copy
<1>3. page' \in [Pages -> NotionPage]
  BY <1>1, <1>2 DEF ApplicationsInv, ApplicationsTypeOK
<1> QED BY <1>3 DEF Write

LEMMA SendStep ==
  ASSUME ApplicationsInv, NEW c \in Callers, SendOk(c) \/ SendLost(c) \/ SendFails(c)
  PROVE  ApplicationsInv'
<1>1. PICK a \in Ready(c), step \in {"ok", "failed"} :
        Answered(c, a, step) /\ (Write(a) \/ UNCHANGED <<row, page, seen, local, remote>>)
  BY DEF SendOk, SendLost, SendFails
<1>2. a \in Copy
  BY ReadyIsCopy
<1>3. call' \in [Callers -> Call]
  BY <1>1, <1>2, AnsweredTyped
<1>4. page' \in [Pages -> NotionPage] /\ UNCHANGED <<row, seen, local, remote>>
  BY <1>1, <1>2, WriteTyped DEF ApplicationsInv, ApplicationsTypeOK
<1>5. ApplicationsTypeOK'
  BY <1>3, <1>4 DEF ApplicationsInv, ApplicationsTypeOK
<1> QED BY <1>4, <1>5, RowsAlone

LEMMA MarkStep ==
  ASSUME ApplicationsInv, NEW c \in Callers, Mark(c)
  PROVE  ApplicationsInv'
<1>1. call[c] \in Call
  BY DEF ApplicationsInv, ApplicationsTypeOK
<1>2. PICK a \in call[c].sent :
        row' = [row EXCEPT ![a.key].sync =
                 CASE @ = "none" -> "none" [] call[c].step = "ok" -> "synced" [] OTHER -> "error"]
  BY DEF Mark
<1> DEFINE k == a.key
           mark == CASE row[k].sync = "none" -> "none" [] call[c].step = "ok" -> "synced" [] OTHER -> "error"
           r == [row[k] EXCEPT !.sync = mark]
<1>3. k \in Keys
  BY <1>1 DEF Call, Copy
<1>4. row[k] \in Row
  BY <1>3 DEF ApplicationsInv, ApplicationsTypeOK
<1>5. r \in Row /\ r.page = row[k].page /\ (r.sync # "none" \/ r = row[k])
  <2>1. mark \in {"none", "synced", "error"} /\ (mark = "none" => row[k].sync = "none")
    OBVIOUS
  <2> HIDE DEF mark
  <2> QED BY <2>1, <1>4 DEF Row
<1>6. row' = [row EXCEPT ![k] = r]
  BY <1>2, <1>3 DEF ApplicationsInv, ApplicationsTypeOK
<1>7. row' \in [Keys -> Row] /\ PageHasOneRow' /\ Absent'
  BY <1>3, <1>5, <1>6, RowKept
<1>8. call' \in [Callers -> Call]
  <2> DEFINE d == IF call[c].todo = {} THEN Idle ELSE Pushing(call[c].todo)
  <2>1. d \in Call
    BY <1>1 DEF Idle, Pushing, Call
  <2>2. call' = [call EXCEPT ![c] = d]
    BY DEF Mark, ApplicationsInv, ApplicationsTypeOK
  <2> QED BY <2>1, <2>2, CallerTyped DEF ApplicationsInv
<1>9. UNCHANGED <<page, seen, local, remote>>
  BY DEF Mark
<1> QED BY <1>7, <1>8, <1>9 DEF ApplicationsInv, ApplicationsTypeOK

LEMMA AbandonStep ==
  ASSUME ApplicationsInv, NEW c \in Callers, Abandon(c)
  PROVE  ApplicationsInv'
<1>1. Idle \in Call
  BY DEF Idle, Call
<1>2. call' = [call EXCEPT ![c] = Idle] /\ UNCHANGED <<row, page, seen, remote>>
  BY DEF Abandon
<1>3. call' \in [Callers -> Call]
  BY <1>1, <1>2, CallerTyped DEF ApplicationsInv
<1>4. local' \in 0 .. MaxLocal
  BY ActTyped DEF Abandon, ApplicationsInv, ApplicationsTypeOK
<1>5. ApplicationsTypeOK'
  BY <1>2, <1>3, <1>4 DEF ApplicationsInv, ApplicationsTypeOK
<1> QED BY <1>2, <1>5, RowsAlone

LEMMA NextApplications == ApplicationsInv /\ [ApplicationsNext]_applicationsVars => ApplicationsInv'
<1> SUFFICES ASSUME ApplicationsInv, [ApplicationsNext]_applicationsVars PROVE ApplicationsInv'
  OBVIOUS
<1>1. CASE \E p \in Pages, k \in Keys, s \in AnyStatus : EditPage(p, k, s)
  BY <1>1, EditPageStep
<1>2. CASE \E k \in Keys : (\E s \in AnyStatus : Update(k, s)) \/ Record(k)
  BY <1>2, UpdateStep, RecordStep
<1>3. CASE SyncStep
  BY <1>3, SyncStartStep, UpsertStep, SyncPendingStep DEF SyncStep
<1>4. CASE \E c \in Callers :
             FindExisting(c) \/ SendOk(c) \/ SendLost(c) \/ SendFails(c) \/ Mark(c) \/ Abandon(c)
  BY <1>4, FindExistingStep, SendStep, MarkStep, AbandonStep
<1>5. CASE UNCHANGED applicationsVars
  BY <1>5 DEF applicationsVars, ApplicationsInv, ApplicationsTypeOK, PageHasOneRow, Absent, Exists
<1> QED BY <1>1, <1>2, <1>3, <1>4, <1>5 DEF ApplicationsNext

LEMMA ApplicationsInvariance == ApplicationsSpec => []ApplicationsInv
BY InitApplications, NextApplications, PTL DEF ApplicationsSpec

\* For any companies and roles, any number of pages and any edits on both sides:
\* no two rows name one page, through renames, second pages of one key, lost
\* answers and rows that went and came back, so the index on notion_id refuses no
\* import (followRenamedPage and UpsertFromNotion).
THEOREM OneRowPerPage == ApplicationsSpec => []PageHasOneRow
<1>1. ApplicationsInv => PageHasOneRow
  BY DEF ApplicationsInv
<1> QED BY ApplicationsInvariance, <1>1, PTL

-----------------------------------------------------------------------------
(* Health.  A sequence is looked at up to any of its places: what holds of the *)
(* first, and of each next one, holds of the last (by the greatest place it    *)
(* holds of).                                                                 *)
LEMMA GreatestIn ==
  ASSUME NEW n \in Nat, NEW S \in SUBSET (1..n), S # {}
  PROVE  \E m \in S : \A x \in S : x <= m
<1> DEFINE Above(x) == {y \in S : y > x}
<1> DEFINE T == {Above(x) : x \in S}
<1>1. IsFiniteSet(S)
  <2>1. IsFiniteSet(1..n)
    BY FS_Interval
  <2> QED BY <2>1, FS_Subset
<1>2. T \subseteq FiniteSubsetsOf(S) /\ T # {}
  <2>1. FiniteSubsetsOf(S) = SUBSET S
    BY <1>1, FS_FiniteSubsetsOfFinite
  <2>2. \A x \in S : Above(x) \in SUBSET S
    OBVIOUS
  <2> HIDE DEF Above
  <2>3. T \in SUBSET (SUBSET S) /\ \E x \in S : Above(x) \in T
    BY <2>2
  <2> QED BY <2>1, <2>3
<1>3. PICK A \in T : \A B \in T : ~(<<B, A>> \in StrictSubsetOrdering(S))
  <2> HIDE DEF T
  <2> QED BY <1>2, FS_StrictSubsetOrderingWellFounded, WFMin
<1>4. PICK m \in S : A = Above(m)
  OBVIOUS
<1>5. ASSUME NEW x \in S, ~(x <= m)
      PROVE  FALSE
  <2>1. x \in Nat /\ m \in Nat /\ x > m
    BY <1>5
  <2>2. \A y \in S : y \in Nat
    OBVIOUS
  <2>3. Above(x) \subseteq Above(m)
    <3> SUFFICES ASSUME NEW y \in S, y > x PROVE y > m
      OBVIOUS
    <3> QED BY <2>1, <2>2
  <2>4. x \in Above(m)
    BY <2>1
  <2>5. x \notin Above(x)
    BY <2>1
  <2>6. Above(x) # Above(m) /\ Above(m) \subseteq S
    BY <2>4, <2>5
  <2> HIDE DEF Above
  <2>7. <<Above(x), Above(m)>> \in StrictSubsetOrdering(S)
    BY <2>3, <2>6 DEF StrictSubsetOrdering
  <2> QED BY <1>3, <1>4, <2>7
<1> QED BY <1>5

LEMMA UpTo ==
  ASSUME NEW n \in Nat \ {0}, NEW S \in SUBSET (1..n), 1 \in S,
         \A m \in S : m < n => m + 1 \in S
  PROVE  n \in S
<1>1. PICK m \in S : \A x \in S : x <= m
  BY GreatestIn
<1>2. m \in Nat /\ m <= n
  OBVIOUS
<1>3. m < n => FALSE
  <2> SUFFICES ASSUME m < n PROVE FALSE
    OBVIOUS
  <2>1. m + 1 \in S
    OBVIOUS
  <2> QED BY <2>1, <1>1, <1>2
<1> QED BY <1>2, <1>3

\* Laying sequences end to end, one after another.
Laid(seqs, n, f) == f = [i \in 1..n |-> IF i = 1 THEN seqs[i] ELSE f[i - 1] \o seqs[i]]

LEMMA LaidExists ==
  ASSUME NEW n \in Nat \ {0}, NEW seqs
  PROVE  \E f : Laid(seqs, n, f)
<1> DEFINE S == {m \in 1..n : \E f : Laid(seqs, m, f)}
<1>1. 1 \in S
  <2>1. Laid(seqs, 1, [i \in 1..1 |-> seqs[i]])
    BY DEF Laid
  <2> QED BY <2>1
<1>2. ASSUME NEW m \in S, m < n
      PROVE  m + 1 \in S
  <2>1. PICK f : Laid(seqs, m, f)
    OBVIOUS
  <2> DEFINE g == [i \in 1..(m + 1) |-> IF i = m + 1 THEN f[m] \o seqs[m + 1] ELSE f[i]]
  <2>2. m \in 1..n /\ m + 1 \in 1..n /\ m >= 1
    BY <1>2
  <2>3. \A i \in 1..m : f[i] = IF i = 1 THEN seqs[i] ELSE f[i - 1] \o seqs[i]
    BY <2>1 DEF Laid
  <2>4. \A i \in 1..m : g[i] = f[i]
    BY <2>2
  <2>5. \A i \in 1..(m + 1) : g[i] = IF i = 1 THEN seqs[i] ELSE g[i - 1] \o seqs[i]
    <3> SUFFICES ASSUME NEW i \in 1..(m + 1) PROVE g[i] = IF i = 1 THEN seqs[i] ELSE g[i - 1] \o seqs[i]
      OBVIOUS
    <3>1. CASE i = m + 1
      <4>1. i # 1 /\ i - 1 = m
        BY <3>1, <2>2
      <4>3. g[i] = f[m] \o seqs[m + 1]
        BY <3>1
      <4>2. g[m] = f[m]
        BY <2>2, <2>4
      <4> HIDE DEF g
      <4> QED BY <4>1, <4>2, <4>3, <3>1
    <3>2. CASE i = 1
      <4>1. i \in 1..m
        BY <3>2, <2>2
      <4> QED BY <4>1, <2>3, <2>4, <3>2
    <3>3. CASE i # m + 1 /\ i # 1
      <4>1. i \in 1..m /\ i - 1 \in 1..m
        BY <3>3, <2>2
      <4> HIDE DEF g
      <4> QED BY <4>1, <2>3, <2>4, <3>3
    <3> QED BY <3>1, <3>2, <3>3
  <2>6. g = [i \in 1..(m + 1) |-> g[i]]
    OBVIOUS
  <2>7. Laid(seqs, m + 1, g)
    <3> HIDE DEF g
    <3> QED BY <2>5, <2>6 DEF Laid
  <2> QED BY <2>2, <2>7
<1>3. n \in S
  <2> HIDE DEF S
  <2>1. S \in SUBSET (1..n)
    BY DEF S
  <2> QED BY <1>1, <1>2, <2>1, UpTo
<1> QED BY <1>3

LEMMA RangeOfBoth ==
  ASSUME NEW T, NEW s \in Seq(T), NEW t \in Seq(T)
  PROVE  Range(s \o t) \subseteq Range(s) \cup Range(t)
<1> SUFFICES ASSUME NEW i \in DOMAIN (s \o t) PROVE (s \o t)[i] \in Range(s) \cup Range(t)
  BY DEF Range
<1>1. i \in 1..(Len(s) + Len(t))
  OBVIOUS
<1>2. CASE i <= Len(s)
  <2>1. (s \o t)[i] = s[i] /\ i \in DOMAIN s
    BY <1>1, <1>2
  <2> QED BY <2>1 DEF Range
<1>3. CASE ~(i <= Len(s))
  <2>1. (s \o t)[i] = t[i - Len(s)] /\ i - Len(s) \in DOMAIN t
    BY <1>1, <1>3
  <2> QED BY <2>1 DEF Range
<1> QED BY <1>2, <1>3

\* Every element of the sequences laid end to end is one of theirs.
LEMMA FlattenOf ==
  ASSUME NEW T, NEW seqs \in Seq(Seq(T))
  PROVE  /\ FlattenSeq(seqs) \in Seq(T)
         /\ \A x \in Range(FlattenSeq(seqs)) : \E j \in 1..Len(seqs) : x \in Range(seqs[j])
<1>1. CASE Len(seqs) = 0
  <2>1. FlattenSeq(seqs) = seqs /\ seqs = <<>>
    BY <1>1 DEF FlattenSeq
  <2>2. Range(<<>>) = {} /\ <<>> \in Seq(T)
    BY DEF Range
  <2> QED BY <2>1, <2>2
<1>2. CASE Len(seqs) # 0
  <2>1. PICK n \in Nat \ {0} : n = Len(seqs)
    BY <1>2
  <2> DEFINE f == CHOOSE f : Laid(seqs, n, f)
  <2>2. Laid(seqs, n, f)
    BY LaidExists
  <2>3. FlattenSeq(seqs) = f[n]
    BY <1>2, <2>1 DEF FlattenSeq, Laid
  <2> HIDE DEF f
  <2>4. \A i \in 1..n : f[i] = IF i = 1 THEN seqs[i] ELSE f[i - 1] \o seqs[i]
    BY <2>2 DEF Laid
  <2>5. \A i \in 1..n : seqs[i] \in Seq(T)
    BY <2>1
  <2> DEFINE Made(m) == f[m] \in Seq(T) /\ \A x \in Range(f[m]) : \E j \in 1..n : x \in Range(seqs[j])
             S == {m \in 1..n : Made(m)}
  <2>6. 1 \in S
    <3>1. 1 \in 1..n /\ f[1] = seqs[1]
      BY <2>4
    <3> QED BY <3>1, <2>5
  <2>7. ASSUME NEW m \in S, m < n
        PROVE  m + 1 \in S
    <3>1. m \in 1..n /\ m + 1 \in 1..n /\ Made(m)
      BY <2>7
    <3>2. f[m + 1] = f[m] \o seqs[m + 1]
      <4>1. m + 1 # 1 /\ (m + 1) - 1 = m
        BY <3>1
      <4>2. f[m + 1] = IF m + 1 = 1 THEN seqs[m + 1] ELSE f[(m + 1) - 1] \o seqs[m + 1]
        BY <2>4, <3>1
      <4> QED BY <4>1, <4>2
    <3>3. f[m] \in Seq(T) /\ seqs[m + 1] \in Seq(T)
      BY <3>1, <2>5
    <3>4. f[m + 1] \in Seq(T)
      BY <3>2, <3>3
    <3>5. Range(f[m + 1]) \subseteq Range(f[m]) \cup Range(seqs[m + 1])
      BY <3>2, <3>3, RangeOfBoth
    <3>6. Made(m + 1)
      BY <3>1, <3>4, <3>5
    <3> QED BY <3>1, <3>6
  <2>8. n \in S
    <3> HIDE DEF S
    <3>1. S \in SUBSET (1..n)
      BY DEF S
    <3> QED BY <2>6, <2>7, <3>1, UpTo
  <2> QED BY <2>1, <2>3, <2>8
<1> QED BY <1>1, <1>2

-----------------------------------------------------------------------------
(* Runs, and the markers they leave.                                          *)

Marker == [at : 0..MaxTime, done : BOOLEAN, tally : {0, 1}]

\* The "done" line of a run that got to its end.
DoneOf(r) == [at |-> r.end, done |-> TRUE, tally |-> IF r.how = "failed" THEN 1 ELSE 0]

LEMMA Two == ASSUME NEW x, NEW y PROVE <<x>> \o <<y>> = <<x, y>>
<1>1. <<x>> \in Seq({x, y}) /\ <<y>> \in Seq({x, y}) /\ <<x, y>> \in Seq({x, y})
  OBVIOUS
<1>2. Len(<<x>>) = 1 /\ Len(<<y>>) = 1 /\ Len(<<x, y>>) = 2
  OBVIOUS
<1>3. Len(<<x>> \o <<y>>) = 2 /\ <<x>> \o <<y>> \in Seq({x, y})
  BY <1>1, <1>2
<1>4. (<<x>> \o <<y>>)[1] = x /\ (<<x>> \o <<y>>)[2] = y
  BY <1>1, <1>2
<1>5. \A i \in 1..2 : (<<x>> \o <<y>>)[i] = <<x, y>>[i]
  BY <1>4
<1> QED BY <1>1, <1>2, <1>3, <1>5, SeqEqual

LEMMA MarkersAre ==
  ASSUME NEW r \in Run
  PROVE  /\ Markers(r) \in Seq(Marker)
         /\ \A m \in Range(Markers(r)) : m.done => r.how # "running" /\ m = DoneOf(r)
<1> DEFINE banner == [at |-> r.start, done |-> FALSE, tally |-> 0]
<1>1. banner \in Marker /\ DoneOf(r) \in Marker /\ ~banner.done
  BY SweepBounds DEF Marker, DoneOf, Run
<1>2. CASE r.how \in {"running", "died"}
  <2>1. Markers(r) = <<banner>>
    <3>1. Markers(r) = <<banner>> \o <<>>
      BY <1>2 DEF Markers
    <3> HIDE DEF banner
    <3>2. <<banner>> \in Seq(Marker)
      BY <1>1
    <3> QED BY <3>1, <3>2
  <2> HIDE DEF banner
  <2> QED BY <1>1, <2>1 DEF Range
<1>3. CASE r.how \notin {"running", "died"}
  <2>1. Markers(r) = <<banner, DoneOf(r)>>
    <3>1. Markers(r) = <<banner>> \o <<DoneOf(r)>>
      BY <1>3 DEF Markers, DoneOf
    <3> HIDE DEF banner
    <3> QED BY <3>1, Two
  <2> HIDE DEF banner
  <2>2. Range(Markers(r)) = {banner, DoneOf(r)}
    BY <2>1 DEF Range
  <2>3. Markers(r) \in Seq(Marker)
    BY <1>1, <2>1
  <2> QED BY <1>1, <1>3, <2>2, <2>3
<1> QED BY <1>2, <1>3

\* Every "done" line of a log was written by a run that got to its end.
LEMMA WrittenByARun ==
  ASSUME NEW q \in Seq(Run)
  PROVE  /\ Written(q) \in Seq(Marker)
         /\ \A m \in Range(Written(q)) :
              m.done => \E i \in 1..Len(q) : q[i].how # "running" /\ m = DoneOf(q[i])
<1> DEFINE seqs == [i \in 1..Len(q) |-> Markers(q[i])]
<1>1. \A i \in 1..Len(q) : q[i] \in Run
  OBVIOUS
<1>2. seqs \in Seq(Seq(Marker)) /\ Len(seqs) = Len(q) /\ \A i \in 1..Len(q) : seqs[i] = Markers(q[i])
  <2>1. \A i \in 1..Len(q) : Markers(q[i]) \in Seq(Marker)
    BY <1>1, MarkersAre
  <2>2. Len(q) \in Nat
    OBVIOUS
  <2> QED BY <2>1, <2>2
<1>3. Written(q) = FlattenSeq(seqs)
  BY DEF Written
<1> HIDE DEF seqs
<1>4. Written(q) \in Seq(Marker)
  BY <1>2, <1>3, FlattenOf
<1>5. ASSUME NEW m \in Range(Written(q)), m.done
      PROVE  \E i \in 1..Len(q) : q[i].how # "running" /\ m = DoneOf(q[i])
  <2>1. PICK j \in 1..Len(seqs) : m \in Range(seqs[j])
    BY <1>2, <1>3, FlattenOf
  <2>2. j \in 1..Len(q) /\ m \in Range(Markers(q[j])) /\ q[j] \in Run
    BY <1>1, <1>2, <2>1
  <2> QED BY <1>5, <2>2, MarkersAre
<1> QED BY <1>4, <1>5

\* The newest few of a sequence are among it.
LEMMA LastFew ==
  ASSUME NEW T, NEW s \in Seq(T), NEW n \in Nat \ {0}
  PROVE  LastN(s, n) \in Seq(T) /\ Range(LastN(s, n)) \subseteq Range(s)
<1>1. CASE Len(s) <= n
  BY <1>1 DEF LastN
<1>2. CASE ~(Len(s) <= n)
  <2>1. PICK l \in Nat : l = Len(s)
    OBVIOUS
  <2>2. LastN(s, n) = SubSeq(s, l - n + 1, l) /\ l > n
    BY <1>2, <2>1 DEF LastN
  <2>3. \A i \in DOMAIN SubSeq(s, l - n + 1, l) :
          i \in 1..n /\ SubSeq(s, l - n + 1, l)[i] = s[l - n + i]
    BY <2>1, <2>2
  <2>4. \A i \in 1..n : l - n + i \in DOMAIN s
    BY <2>1, <2>2
  <2>5. SubSeq(s, l - n + 1, l) \in Seq(T)
    <3>1. l - n + 1 \in 1..l
      BY <2>1, <2>2
    <3> QED BY <2>1, <3>1
  <2> QED BY <2>2, <2>3, <2>4, <2>5 DEF Range
<1> QED BY <1>1, <1>2

\* What is read of a log: its lines from some place on, the last one among them.
LEMMA TailIs ==
  ASSUME NEW T, NEW s \in Seq(T), NEW n \in Nat \ {0}
  PROVE  \E off \in Nat, l \in Nat : /\ Len(s) = off + l /\ Len(LastN(s, n)) = l /\ (Len(s) > 0 => l > 0)
                                 /\ \A i \in 1..l : LastN(s, n)[i] = s[off + i]
<1>1. PICK m \in Nat : m = Len(s)
  OBVIOUS
<1>2. CASE m <= n
  <2>1. LastN(s, n) = s
    BY <1>1, <1>2 DEF LastN
  <2>2. m = 0 + m /\ \A i \in 1..m : LastN(s, n)[i] = s[0 + i]
    BY <2>1
  <2> QED BY <1>1, <2>1, <2>2
<1>3. CASE ~(m <= n)
  <2>1. LastN(s, n) = SubSeq(s, m - n + 1, m)
    BY <1>1, <1>3 DEF LastN
  <2>2. PICK off \in Nat : off = m - n
    BY <1>3
  <2>3. m = off + n /\ m - n + 1 = off + 1
    BY <2>2
  <2>4. Len(SubSeq(s, off + 1, m)) = n /\ \A i \in 1..n : SubSeq(s, off + 1, m)[i] = s[off + i]
    BY <1>1, <2>3
  <2> QED BY <1>1, <2>1, <2>3, <2>4
<1> QED BY <1>2, <1>3

\* So every "done" line that is read was written by a run that got to its end.
LEMMA DoneByARun ==
  ASSUME NEW q \in Seq(Run)
  PROVE  /\ allMarkers(q) \in Seq(Marker)
         /\ \A m \in Range(allMarkers(q)) :
              m.done => \E i \in 1..Len(q) : q[i].how # "running" /\ m = DoneOf(q[i])
BY WrittenByARun, LastFew, LogTailAssumption DEF allMarkers

LEMMA Starting ==
  ASSUME NEW q, History(q), NEW t \in 1..MaxTime, ~InFlight(q),
         q # <<>> => Last(q).end <= t /\ Last(q).start < t
  PROVE  History(Append(q, [start |-> t, end |-> 0, how |-> "running"]))
<1> DEFINE r == [start |-> t, end |-> 0, how |-> "running"]
           p == Append(q, r)
<1>1. r \in Run
  BY SweepBounds DEF Run
<1>2. PICK n \in Nat : n = Len(q)
  BY DEF History
<1>3. p \in Seq(Run) /\ Len(p) = n + 1 /\ p[n + 1] = r /\ \A i \in 1..n : p[i] = q[i]
  BY <1>1, <1>2 DEF History
<1>4. n > 0 => q[n].end <= t /\ q[n].start < t /\ q[n].how # "running"
  BY <1>2 DEF History, InFlight, Last
<1>5. \A i \in 1..n : q[i] \in Run
  BY <1>2 DEF History
<1>6. \A i \in 1..n : q[i].how # "running" /\ q[i].start < t /\ q[i].end <= t
  <2> SUFFICES ASSUME NEW i \in 1..n PROVE q[i].how # "running" /\ q[i].start < t /\ q[i].end <= t
    OBVIOUS
  <2>1. CASE i = n
    BY <1>4, <2>1
  <2>2. CASE i < n
    <3>1. q[i].how # "running" /\ q[i].start < q[n].start /\ q[i].end <= q[n].start
      BY <1>2, <2>2 DEF History
    <3>2. q[i].start \in Nat /\ q[i].end \in Nat /\ q[n].start \in Nat /\ q[n].start < t
      BY <1>4, <1>5, <2>2 DEF Run
    <3> QED BY <3>1, <3>2
  <2> QED BY <2>1, <2>2
<1>7. r.start = t /\ r.end = 0 /\ r.how = "running"
  OBVIOUS
<1> HIDE DEF r, p
<1>8. \A i \in 1..Len(p) : (p[i].how = "running" => i = Len(p)) /\ (p[i].how # "running" => p[i].start <= p[i].end)
  BY <1>2, <1>3, <1>6, <1>7 DEF History
<1>9. \A i, j \in 1..Len(p) : i < j =>
        p[i].start < p[j].start /\ p[i].end <= p[j].start /\ (p[j].how # "running" => p[i].end < p[j].end)
  <2> SUFFICES ASSUME NEW i \in 1..(n + 1), NEW j \in 1..(n + 1), i < j
               PROVE  p[i].start < p[j].start /\ p[i].end <= p[j].start /\ (p[j].how # "running" => p[i].end < p[j].end)
    BY <1>3
  <2>1. i \in 1..n /\ p[i] = q[i]
    BY <1>3
  <2>2. CASE j = n + 1
    BY <2>1, <2>2, <1>3, <1>6, <1>7
  <2>3. CASE j # n + 1
    <3>1. j \in 1..n /\ p[j] = q[j]
      BY <2>3, <1>3
    <3> QED BY <2>1, <3>1, <1>2 DEF History
  <2> QED BY <2>2, <2>3
<1>10. History(p)
  BY <1>3, <1>8, <1>9 DEF History
<1> QED BY <1>10 DEF p, r

LEMMA Ending ==
  ASSUME NEW q, History(q), NEW t \in 1..MaxTime, InFlight(q), Last(q).start < t, NEW how \in Ends
  PROVE  History([q EXCEPT ![Len(q)] = [@ EXCEPT !.end = t, !.how = how]])
<1>1. PICK n \in Nat : n = Len(q)
  BY DEF History
<1> DEFINE r == [q[n] EXCEPT !.end = t, !.how = how]
           p == [q EXCEPT ![n] = r]
<1>2. n > 0 /\ q[n].start < t /\ q[n].how = "running"
  BY <1>1 DEF History, InFlight, Last
<1>3. \A i \in 1..n : q[i] \in Run
  BY <1>1 DEF History
<1>4. r \in Run /\ r.start = q[n].start /\ r.end = t /\ r.how = how /\ how # "running"
  <2>1. q[n] \in Run
    BY <1>2, <1>3
  <2>2. how \in Ends \cup {"running"} /\ how # "running"
    BY DEF Ends
  <2>3. t \in 0..MaxTime
    OBVIOUS
  <2> QED BY <2>1, <2>2, <2>3 DEF Run
<1> HIDE DEF r
<1>5. p \in Seq(Run) /\ Len(p) = n /\ p[n] = r /\ \A i \in 1..n : i # n => p[i] = q[i]
  BY <1>1, <1>2, <1>4 DEF History
<1> HIDE DEF p
<1>6. q[n].start \in Nat /\ t \in Nat
  BY <1>2, <1>3 DEF Run
<1>7. \A i \in 1..Len(p) : (p[i].how = "running" => i = Len(p)) /\ (p[i].how # "running" => p[i].start <= p[i].end)
  <2> SUFFICES ASSUME NEW i \in 1..n
               PROVE  (p[i].how = "running" => i = n) /\ (p[i].how # "running" => p[i].start <= p[i].end)
    BY <1>5
  <2>1. CASE i = n
    BY <2>1, <1>2, <1>4, <1>5, <1>6
  <2>2. CASE i # n
    BY <2>2, <1>1, <1>5 DEF History
  <2> QED BY <2>1, <2>2
<1>8. \A i, j \in 1..Len(p) : i < j =>
        p[i].start < p[j].start /\ p[i].end <= p[j].start /\ (p[j].how # "running" => p[i].end < p[j].end)
  <2> SUFFICES ASSUME NEW i \in 1..n, NEW j \in 1..n, i < j
               PROVE  p[i].start < p[j].start /\ p[i].end <= p[j].start /\ (p[j].how # "running" => p[i].end < p[j].end)
    BY <1>5
  <2>1. i # n /\ p[i] = q[i] /\ q[i] \in Run
    BY <1>3, <1>5
  <2>2. q[i].start < q[j].start /\ q[i].end <= q[j].start
    BY <1>1 DEF History
  <2>3. CASE j = n
    <3>1. q[i].end \in Nat /\ q[i].end < t
      BY <2>1, <2>2, <2>3, <1>2, <1>6 DEF Run
    <3> QED BY <2>1, <2>2, <2>3, <3>1, <1>4, <1>5
  <2>4. CASE j # n
    BY <2>1, <2>4, <1>1, <1>5 DEF History
  <2> QED BY <2>3, <2>4
<1>9. History(p)
  BY <1>5, <1>7, <1>8 DEF History
<1> QED BY <1>1, <1>9 DEF p, r

-----------------------------------------------------------------------------
(* The inductive invariant.                                                   *)

\* A sweep is a record of these fields; what they hold is told below.
SweepIs(w) ==
  w = [step |-> w.step, prev |-> w.prev, began |-> w.began, status |-> w.status,
       reports |-> w.reports, fresh |-> w.fresh, news |-> w.news, first |-> w.first]

World ==
  /\ now \in 1..MaxTime
  /\ runs \in [Names -> Seq(Run)]
  /\ \A a \in Names : History(runs[a])

Rostered ==
  /\ roster \in Seq(Declaration(Names))
  /\ \A i \in DOMAIN roster : Renamed(roster[i].name) = roster[i].name

\* What a sweep has found, and when it has a verdict on everything.
After == {"collect", "append", "send", "tell"}
Along(w) ==
  /\ SweepIs(w) /\ w.step \in Steps
  /\ w.step # "idle" => Load(roster) # <<>>
  /\ DOMAIN w.reports \subseteq Declared
  /\ w.step \in {"probe", "record"} => \A a \in DOMAIN w.reports : w.reports[a].state \in States
  /\ w.step \in {"record"} \cup After => DOMAIN w.reports = Declared
  /\ w.step \in After => \A a \in Declared : w.reports[a] \in States
  /\ w.fresh \subseteq Event /\ w.news \subseteq Event

Swept ==
  /\ jobs \subseteq Jobs /\ cuts \in 0..MaxCuts
  /\ sweep = [job \in Jobs |-> sweep[job]]
  /\ \A job \in Jobs : Along(sweep[job])

Known ==
  /\ last # <<>> => Load(roster) # <<>> /\ DOMAIN last = Declared
  /\ recorded \in Seq(Event)
  /\ \A a \in Names : told[a] \in States

HealthInv == World /\ Rostered /\ Swept /\ Known

\* The roster's lines are declarations of automations with names.
LEMMA Lines ==
  ASSUME Rostered
  PROVE  /\ Declared \subseteq Names
         /\ \A a \in Declared : Decl(a) \in Declaration(Names) /\ Decl(a).name = a /\ Renamed(a) = a
<1>2. \A i \in DOMAIN roster : roster[i] \in Declaration(Names) /\ roster[i].name \in Names
  <2>1. \A d \in Declaration(Names) : d.name \in Names
    BY DEF Declaration
  <2>2. \A i \in DOMAIN roster : roster[i] \in Declaration(Names)
    BY DEF Rostered
  <2> QED BY <2>1, <2>2
<1>3. \A a \in Declared : \E i \in DOMAIN roster : roster[i].name = a
  BY DEF Declared
<1> QED BY <1>2, <1>3 DEF Declared, Decl, LineOf, Rostered

\* Looking up a verdict is looking it up in the same roster later.
LEMMA Same ==
  ASSUME UNCHANGED roster
  PROVE  /\ Declared' = Declared /\ Load(roster)' = Load(roster) /\ \A a : Decl(a)' = Decl(a)
         /\ Rostered' = Rostered /\ \A w : Along(w)' = Along(w)
BY DEF Declared, Decl, LineOf, Rostered, Along, SweepIs

LEMMA SweepIdle == Along(NoSweep) /\ NoSweep.step = "idle" /\ NoSweep.fresh = {} /\ NoSweep.news = {}
BY DEF Along, NoSweep, SweepIs, Steps, After

LEMMA InitHealth == HealthInit => HealthInv
<1> SUFFICES ASSUME HealthInit PROVE HealthInv
  OBVIOUS
<1>1. PICK s \in Setups :
        roster = s.roster /\ jobs = s.jobs /\ runs = s.runs /\ recorded = s.log /\ now = s.now
  BY DEF HealthInit
<1>2. /\ s.roster \in Seq(Declaration(Names)) /\ s.jobs \subseteq Jobs /\ s.now \in 1..MaxTime
      /\ \A i \in DOMAIN s.roster : Renamed(s.roster[i].name) = s.roster[i].name
      /\ s.runs \in [Names -> Seq(Run)]
      /\ \A a \in Names : History(s.runs[a])
      /\ s.log \in Seq(Event)
  BY SetupsAssumption
<1>3. World /\ Rostered
  BY <1>1, <1>2 DEF World, Rostered
<1>4. Swept
  <2>1. sweep = [job \in Jobs |-> NoSweep] /\ cuts \in 0..MaxCuts
    BY SweepBounds DEF HealthInit
  <2>2. \A job \in Jobs : sweep[job] = NoSweep
    BY <2>1
  <2>3. sweep = [job \in Jobs |-> sweep[job]]
    BY <2>1, <2>2
  <2> QED BY <1>1, <1>2, <2>1, <2>2, <2>3, SweepIdle DEF Swept
<1>5. Known
  BY <1>1, <1>2 DEF HealthInit, Known, States
<1> QED BY <1>3, <1>4, <1>5 DEF HealthInv

-----------------------------------------------------------------------------
(* The automations.                                                           *)
LEMMA WorldOnly ==
  ASSUME HealthInv, World', UNCHANGED <<roster, jobs, last, recorded, sweep, told, cuts>>
  PROVE  HealthInv'
<1>1. Rostered' /\ Swept' /\ Known'
  <2>1. Declared' = Declared /\ Load(roster)' = Load(roster) /\ Rostered' = Rostered /\ \A w : Along(w)' = Along(w)
    BY Same
  <2>2. \A job \in Jobs : Along(sweep[job])'
    <3> SUFFICES ASSUME NEW job \in Jobs PROVE Along(sweep[job])'
      OBVIOUS
    <3>1. PICK w : w = sweep[job]
      OBVIOUS
    <3>2. Along(w) /\ w = sweep'[job]
      BY <3>1 DEF HealthInv, Swept
    <3> QED BY <2>1, <3>1, <3>2 DEF Along, SweepIs
  <2> QED BY <2>1, <2>2 DEF HealthInv, Swept, Known
<1> QED BY <1>1 DEF HealthInv

LEMMA TimeStep ==
  ASSUME HealthInv, TimePasses
  PROVE  HealthInv'
<1>1. World'
  BY SweepBounds DEF HealthInv, World, TimePasses
<1> QED BY <1>1, WorldOnly DEF TimePasses

LEMMA RunStep ==
  ASSUME HealthInv, NEW a \in Declared, RunStarts(a) \/ RunEnds(a)
  PROVE  HealthInv'
<1>1. a \in Names
  BY Lines DEF HealthInv
<1>2. PICK q : q = runs[a]
  OBVIOUS
<1>3. History(q) /\ q \in Seq(Run) /\ now \in 1..MaxTime
  BY <1>1, <1>2 DEF HealthInv, World
<1>4. PICK p : History(p) /\ runs' = [runs EXCEPT ![a] = p]
  <2>1. CASE RunStarts(a)
    <3>1. ~InFlight(q) /\ (q # <<>> => Last(q).end <= now /\ Last(q).start < now)
      BY <1>2, <2>1 DEF RunStarts
    <3>2. History(Append(q, [start |-> now, end |-> 0, how |-> "running"]))
      BY <1>3, <3>1, Starting
    <3>3. runs' = [runs EXCEPT ![a] = Append(q, [start |-> now, end |-> 0, how |-> "running"])]
      BY <1>1, <1>2, <2>1 DEF RunStarts, HealthInv, World
    <3> QED BY <3>2, <3>3
  <2>2. CASE RunEnds(a)
    <3>1. InFlight(q) /\ Last(q).start < now
      BY <1>2, <2>2 DEF RunEnds
    <3>2. PICK how \in Ends :
            runs' = [runs EXCEPT ![a][Len(runs[a])] = [@ EXCEPT !.end = now, !.how = how]]
      BY <2>2 DEF RunEnds
    <3>3. runs' = [runs EXCEPT ![a] = [q EXCEPT ![Len(q)] = [@ EXCEPT !.end = now, !.how = how]]]
      BY <1>1, <1>2, <3>2 DEF HealthInv, World
    <3>4. History([q EXCEPT ![Len(q)] = [@ EXCEPT !.end = now, !.how = how]])
      BY <1>3, <3>1, Ending
    <3> QED BY <3>3, <3>4
  <2> QED BY <2>1, <2>2
<1>5. p \in Seq(Run)
  BY <1>4 DEF History
<1>6. runs' \in [Names -> Seq(Run)] /\ \A b \in Names : runs'[b] = IF b = a THEN p ELSE runs[b]
  BY <1>1, <1>4, <1>5 DEF HealthInv, World
<1>7. UNCHANGED now
  BY DEF RunStarts, RunEnds
<1>8. World'
  <2>1. \A b \in Names : History(runs'[b])
    BY <1>4, <1>6 DEF HealthInv, World
  <2> QED BY <1>6, <1>7, <2>1 DEF HealthInv, World
<1> QED BY <1>8, WorldOnly DEF RunStarts, RunEnds

-----------------------------------------------------------------------------
(* What a probe says is one of the states, or an error, which the sweep turns *)
(* into "unknown".                                                            *)
Says(v) == \E s, l : s \in States \cup {"error"} /\ v = Report(s, l)

LEMMA Saying == ASSUME NEW s \in States \cup {"error"}, NEW l PROVE Says(Report(s, l))
BY DEF Says

LEMMA LocalJobSays == ASSUME NEW status, NEW markers PROVE Says(localJob(status, markers))
BY DEF localJob, Says, States

LEMMA LaunchdMarkerSays == ASSUME NEW counts, NEW status, NEW markers PROVE Says(launchdMarker(counts, status, markers))
<1>1. PICK s, l : s \in States \cup {"error"} /\ localJob(status, markers) = Report(s, l)
  BY LocalJobSays DEF Says
<1>2. [Report(s, l) EXCEPT !.state = "failing"] = Report("failing", l)
  BY DEF Report
<1>3. launchdMarker(counts, status, markers) \in {Report(s, l), Report("failing", l)}
  BY <1>1, <1>2 DEF launchdMarker
<1>4. "failing" \in States
  BY DEF States
<1> QED BY <1>1, <1>3, <1>4 DEF Says

LEMMA SpendSnapshotSays == ASSUME NEW status, NEW q PROVE Says(spendSnapshot(status, q))
BY DEF spendSnapshot, Says, States
LEMMA MarkerFieldsSays == ASSUME NEW markers PROVE Says(markerFields(markers))
BY DEF markerFields, Says, States
LEMMA SystemdUnitSays == ASSUME NEW loaded, NEW withLog, NEW q PROVE Says(systemdUnit(loaded, withLog, q))
BY DEF systemdUnit, Says, States
LEMMA ServiceSays == ASSUME NEW loopback, NEW loaded, NEW held, NEW answering PROVE Says(service(loopback, loaded, held, answering))
BY DEF service, serviceOnLoopback, serviceOnTailnet, Says, States
LEMMA GithubFileSays == ASSUME NEW reach, NEW q PROVE Says(githubFile(reach, q))
BY DEF githubFile, ProbeError, Says, States
LEMMA N8nSays == ASSUME NEW reach, NEW q PROVE Says(n8nPipeline(reach, q))
BY DEF n8nPipeline, Says, States
LEMMA HeartbeatSays == ASSUME NEW q PROVE Says(heartbeat(q))
BY DEF heartbeat, Says, States

LEMMA VerdictSays == ASSUME NEW a, NEW status, NEW reach PROVE Says(Verdict(a, status, reach))
<1>1. Says(ProbeError)
  BY DEF ProbeError, Says
<1> QED BY <1>1, LaunchdMarkerSays, SpendSnapshotSays, MarkerFieldsSays, SystemdUnitSays, ServiceSays,
           GithubFileSays, N8nSays, HeartbeatSays DEF Verdict

LEMMA JudgedSays ==
  ASSUME NEW d, NEW v, Says(v), NEW t
  PROVE  Judged(d, v, t).state \in States
<1>1. PICK s, l : s \in States \cup {"error"} /\ v = Report(s, l)
  BY DEF Says
<1>2. v.state = s
  BY <1>1 DEF Report
<1>3. [v EXCEPT !.state = "late"].state = "late" /\ Report("unknown", v.last).state = "unknown"
  BY <1>1 DEF Report
<1> QED BY <1>1, <1>2, <1>3 DEF Judged, States

-----------------------------------------------------------------------------
(* The sweeps.  A step of one leaves the others where they are.               *)

\* The sweep that job has under way goes from v to w.
Goes(job, v, w) == v = sweep[job] /\ sweep' = [sweep EXCEPT ![job] = w]

LEMMA OneGoes ==
  ASSUME HealthInv, NEW job \in Jobs, NEW v, NEW w, Goes(job, v, w)
  PROVE  /\ Along(v) /\ SweepIs(v)
         /\ sweep' = [j \in Jobs |-> sweep'[j]]
         /\ sweep'[job] = w /\ \A j \in Jobs : j # job => sweep'[j] = sweep[j]
BY DEF HealthInv, Swept, Goes, Along

LEMMA SweepGoes ==
  ASSUME HealthInv, NEW job \in Jobs, NEW v, NEW w, Goes(job, v, w), Along(w),
         UNCHANGED <<now, runs, roster, jobs>>, cuts' \in 0..MaxCuts, Known'
  PROVE  HealthInv'
<1>1. /\ sweep' = [j \in Jobs |-> sweep'[j]]
      /\ sweep'[job] = w /\ \A j \in Jobs : j # job => sweep'[j] = sweep[j]
  BY OneGoes
<1>2. Rostered' /\ \A x : Along(x)' = Along(x)
  BY Same DEF HealthInv
<1>3. ASSUME NEW j \in Jobs PROVE Along(sweep'[j])
  <2>1. CASE j = job
    BY <1>1, <2>1
  <2>2. CASE j # job
    BY <1>1, <2>2 DEF HealthInv, Swept
  <2> QED BY <2>1, <2>2
<1>4. \A j \in Jobs : Along(sweep[j])'
  <2> SUFFICES ASSUME NEW j \in Jobs PROVE Along(sweep[j])'
    OBVIOUS
  <2>1. PICK x : x = sweep'[j]
    OBVIOUS
  <2>2. Along(x)
    BY <1>3, <2>1
  <2>3. Declared' = Declared /\ Load(roster)' = Load(roster)
    BY Same
  <2> QED BY <2>1, <2>2, <2>3 DEF Along, SweepIs
<1>5. World'
  BY DEF HealthInv, World
<1>6. Swept'
  BY <1>1, <1>4 DEF HealthInv, Swept
<1> QED BY <1>2, <1>5, <1>6 DEF HealthInv

LEMMA KnownStays ==
  ASSUME HealthInv, UNCHANGED <<roster, last, recorded, told>>
  PROVE  Known'
<1>1. Declared' = Declared /\ Load(roster)' = Load(roster)
  BY Same
<1> QED BY <1>1 DEF HealthInv, Known

LEMMA BeginStep ==
  ASSUME HealthInv, NEW job \in Jobs, Begin(job)
  PROVE  HealthInv'
<1> DEFINE begun == [NoSweep EXCEPT !.step = "probe", !.prev = last, !.began = now]
<1>1. PICK v, w : v = sweep[job] /\ w = begun
  OBVIOUS
<1>2. /\ SweepIs(w) /\ w.step = "probe" /\ w.reports = <<>> /\ w.fresh = {} /\ w.news = {}
  BY <1>1 DEF NoSweep, SweepIs
<1>3. /\ Goes(job, v, w) /\ Load(roster) # <<>>
      /\ UNCHANGED <<now, runs, roster, jobs, last, recorded, told, cuts>>
  BY <1>1 DEF Begin, Goes
<1>4. Along(w)
  BY <1>2, <1>3 DEF Along, Steps, After
<1>5. cuts' \in 0..MaxCuts
  BY <1>3 DEF HealthInv, Swept
<1> QED BY <1>3, <1>4, <1>5, SweepGoes, KnownStays

LEMMA ReadStatusStep ==
  ASSUME HealthInv, NEW job \in Jobs, NEW a \in Declared, NEW loaded \in BOOLEAN, ReadStatus(job, a, loaded)
  PROVE  HealthInv'
<1>1. PICK v, x, w : v = sweep[job] /\ w = [v EXCEPT !.status = x] /\ Goes(job, v, w)
  BY DEF ReadStatus, Goes
<1>2. SweepIs(v) /\ Along(v) /\ v.step = "probe"
  BY <1>1, OneGoes DEF ReadStatus
<1>3. /\ SweepIs(w) /\ w.step = v.step /\ w.reports = v.reports /\ w.fresh = v.fresh /\ w.news = v.news
  BY <1>1, <1>2 DEF SweepIs
<1>4. UNCHANGED <<now, runs, roster, jobs, last, recorded, told, cuts>>
  BY DEF ReadStatus
<1>5. Along(w)
  BY <1>2, <1>3 DEF Along
<1>6. cuts' \in 0..MaxCuts
  BY <1>4 DEF HealthInv, Swept
<1> QED BY <1>1, <1>4, <1>5, <1>6, SweepGoes, KnownStays

LEMMA ProbeStep ==
  ASSUME HealthInv, NEW job \in Jobs, NEW a \in Declared, NEW reach, Probe(job, a, reach)
  PROVE  HealthInv'
<1> DEFINE r == Judged(Decl(a), Verdict(a, StatusOf(job, a), reach), now)
           report == [state |-> r.state, last |-> r.last, began |-> sweep[job].began, at |-> now, reach |-> reach]
<1>1. r.state \in States
  BY VerdictSays, JudgedSays
<1>2. PICK v, y : v = sweep[job] /\ y = report
  OBVIOUS
<1>3. y.state \in States
  BY <1>1, <1>2
<1> DEFINE reports == With(v.reports, a, y)
<1>4. PICK status, w : /\ w = [v EXCEPT !.reports = reports, !.status = status,
                                        !.step = IF DOMAIN reports = Declared THEN "record" ELSE "probe"]
                       /\ Goes(job, v, w)
  <2> HIDE DEF r
  <2> QED BY <1>2 DEF Probe, Goes, r
<1> HIDE DEF r, report
<1>5. SweepIs(v) /\ Along(v) /\ v.step = "probe"
  BY <1>2, <1>4, OneGoes DEF Probe
<1>6. /\ DOMAIN reports = DOMAIN v.reports \cup {a}
      /\ \A b \in DOMAIN reports : reports[b].state \in States
  <2>1. \A b \in DOMAIN v.reports : v.reports[b].state \in States
    BY <1>5 DEF Along
  <2> QED BY <2>1, <1>3 DEF With
<1> HIDE DEF reports
<1>7. /\ SweepIs(w) /\ w.reports = reports /\ w.fresh = v.fresh /\ w.news = v.news
      /\ w.step \in {"probe", "record"}
      /\ w.step = "record" => DOMAIN reports = Declared
  BY <1>4, <1>5 DEF SweepIs
<1>8. UNCHANGED <<now, runs, roster, jobs, last, recorded, told, cuts>>
  BY DEF Probe
<1>9. Along(w)
  <2>1. DOMAIN reports \subseteq Declared /\ Load(roster) # <<>>
    BY <1>5, <1>6 DEF Along
  <2> QED BY <1>5, <1>6, <1>7, <2>1 DEF Along, Steps, After
<1>10. cuts' \in 0..MaxCuts
  BY <1>8 DEF HealthInv, Swept
<1> QED BY <1>4, <1>8, <1>9, <1>10, SweepGoes, KnownStays

LEMMA RecordVerdictsStep ==
  ASSUME HealthInv, NEW job \in Jobs, RecordVerdicts(job)
  PROVE  HealthInv'
<1> DEFINE found == [a \in Declared |-> sweep[job].reports[a].state]
<1>1. PICK v, verdicts : v = sweep[job] /\ verdicts = found /\ last' = verdicts
  BY DEF RecordVerdicts
<1>2. PICK w : /\ w = [v EXCEPT !.step = IF "runs" \in job.flags THEN "collect" ELSE "tell",
                                !.reports = verdicts, !.began = 0]
               /\ Goes(job, v, w)
  BY <1>1 DEF RecordVerdicts, Goes
<1>3. SweepIs(v) /\ Along(v) /\ v.step = "record"
  BY <1>1, <1>2, OneGoes DEF RecordVerdicts
<1>4. DOMAIN verdicts = Declared /\ \A a \in Declared : verdicts[a] \in States
  BY <1>1, <1>3 DEF Along
<1>5. /\ SweepIs(w) /\ w.step \in {"collect", "tell"} /\ w.reports = verdicts
      /\ w.fresh = v.fresh /\ w.news = v.news
  BY <1>2, <1>3 DEF SweepIs
<1>6. UNCHANGED <<now, runs, roster, jobs, recorded, told, cuts>>
  BY DEF RecordVerdicts
<1>7. Along(w) /\ Load(roster) # <<>>
  BY <1>3, <1>4, <1>5 DEF Along, Steps, After
<1>8. Known'
  <2>1. Declared' = Declared /\ Load(roster)' = Load(roster)
    BY <1>6, Same
  <2> QED BY <1>1, <1>4, <1>6, <1>7, <2>1 DEF HealthInv, Known
<1>9. cuts' \in 0..MaxCuts
  BY <1>6 DEF HealthInv, Swept
<1> QED BY <1>2, <1>6, <1>7, <1>8, <1>9, SweepGoes

\* While the runs are reported, the verdicts stay put.
LEMMA Reporting ==
  ASSUME NEW v, Along(v), v.step \in After, NEW w, SweepIs(w), w.step \in After, w.reports = v.reports,
         w.fresh \subseteq Event, w.news \subseteq Event
  PROVE  Along(w)
BY DEF Along, Steps, After

-----------------------------------------------------------------------------
(* Individual runs.                                                           *)

\* What is in the log is events, and so is what a report knows of it.
LEMMA Remembered ==
  ASSUME recorded \in Seq(Event)
  PROVE  Records \subseteq Event /\ Range(LastN(recorded, SeenLimit)) \subseteq Records
<1>1. Range(LastN(recorded, SeenLimit)) \subseteq Range(recorded)
  BY WindowAssumption, LastFew
<1> QED BY <1>1 DEF Records, Range

\* The watermark is the greatest of the recorded times.
LEMMA WatermarkIs ==
  ASSUME recorded \in Seq(Event), NEW a
  PROVE  /\ launchdWatermark(a) \in Nat
         /\ \A k \in Seen : k.name = a => k.id <= launchdWatermark(a)
<1> DEFINE found == {k.id : k \in {x \in Seen : x.name = a}}
           ids == found \cup {0}
<1>1. found \subseteq 0..MaxTime
  <2>1. \A e \in Event : e.id \in 0..MaxTime /\ Key(e).id = e.id
    BY DEF Event, Key
  <2>2. Range(LastN(recorded, SeenLimit)) \subseteq Event
    BY Remembered
  <2> QED BY <2>1, <2>2 DEF Seen
<1>2. \A k \in Seen : k.name = a => k.id \in found
  OBVIOUS
<1> HIDE DEF found
<1>3. \E m \in ids : \A i \in ids : i <= m
  <2> DEFINE S == found \ {0}
  <2>1. S \in SUBSET (1..MaxTime) /\ MaxTime \in Nat
    BY <1>1, SweepBounds
  <2>2. CASE S = {}
    <3>1. found \subseteq {0}
      BY <2>2
    <3>2. ids = {0}
      BY <3>1
    <3> HIDE DEF ids
    <3> QED BY <3>2
  <2>3. CASE S # {}
    <3>1. PICK m \in S : \A i \in S : i <= m
      <4> HIDE DEF S
      <4> QED BY <2>1, <2>3, GreatestIn
    <3>2. m \in ids /\ \A i \in ids : i <= m
      BY <2>1, <3>1
    <3> QED BY <3>2
  <2> QED BY <2>2, <2>3
<1>4. launchdWatermark(a) = CHOOSE m \in ids : \A i \in ids : i <= m
  BY DEF launchdWatermark, found
<1> HIDE DEF ids
<1>5. launchdWatermark(a) \in ids /\ \A i \in ids : i <= launchdWatermark(a)
  BY <1>3, <1>4
<1>6. launchdWatermark(a) \in Nat
  <2>1. \A i \in 0..MaxTime : i \in Nat
    BY SweepBounds
  <2>2. \A i \in ids : i \in found \/ i = 0
    BY DEF ids
  <2>3. \A i \in ids : i \in Nat
    BY <1>1, <2>1, <2>2, 0 \in Nat
  <2> QED BY <1>5, <2>3
<1>7. \A i \in found : i <= launchdWatermark(a)
  BY <1>5 DEF ids
<1>8. ASSUME NEW k \in Seen, k.name = a
      PROVE  k.id <= launchdWatermark(a)
  <2>1. PICK i : i = k.id /\ i \in found
    BY <1>2, <1>8
  <2>2. i <= launchdWatermark(a)
    BY <1>7, <2>1
  <2> QED BY <2>1, <2>2
<1> QED BY <1>6, <1>8

TellsOf(e, q, marked) == \E i \in 1..Len(q) : StandsFor(e, q[i], marked)

\* The runs a source lists are new, each under a key of its own, and did happen.
News(a, S, marked) ==
  /\ S \subseteq Event
  /\ \A e \in S : e.name = a /\ Key(e) \notin Seen /\ TellsOf(e, runs[a], marked)
  /\ \A x, y \in S : x.id = y.id => x = y

LEMMA HostedNews ==
  ASSUME NEW a \in Names, History(runs[a]), NEW reach
  PROVE  News(a, HostedRuns(a, reach), FALSE)
<1>1. PICK q \in Seq(Run), n \in Nat : q = runs[a] /\ n = Len(q)
  BY DEF History
<1>2. ASSUME NEW e \in HostedRuns(a, reach)
      PROVE  \E i \in 1..n : /\ e = Entry(a, q[i].start, q[i].start, HostedStatus(q[i], reach))
                             /\ q[i].how # "running" /\ [name |-> a, id |-> q[i].start] \notin Seen
  <2>1. PICK r \in Range(LastN(q, Window)) :
          /\ r.how # "running" /\ e = Entry(a, r.start, r.start, HostedStatus(r, reach))
          /\ [name |-> a, id |-> r.start] \notin Seen
    BY <1>1 DEF HostedRuns
  <2>2. r \in Range(q)
    BY <2>1, WindowAssumption, LastFew
  <2>3. PICK i \in 1..n : r = q[i]
    BY <1>1, <2>2 DEF Range
  <2> QED BY <2>1, <2>3
<1>3. \A i \in 1..n : q[i] \in Run
  BY <1>1
<1>4. ASSUME NEW e \in HostedRuns(a, reach)
      PROVE  e \in Event /\ e.name = a /\ Key(e) \notin Seen /\ TellsOf(e, q, FALSE)
  <2>1. PICK i \in 1..n : /\ e = Entry(a, q[i].start, q[i].start, HostedStatus(q[i], reach))
                          /\ q[i].how # "running" /\ [name |-> a, id |-> q[i].start] \notin Seen
    BY <1>2
  <2>2. q[i].start \in 0..MaxTime
    BY <1>3, SweepBounds DEF Run
  <2>3. HostedStatus(q[i], reach) \in {"ok", "skipped", "failed"}
        /\ (HostedStatus(q[i], reach) = "failed" <=> Bad(q[i]))
    BY DEF HostedStatus
  <2>4. e.at = q[i].start /\ e.id = q[i].start /\ e.status = HostedStatus(q[i], reach)
    BY <2>1 DEF Entry
  <2>5. TellsOf(e, q, FALSE)
    BY <1>1, <2>1, <2>3, <2>4 DEF TellsOf, StandsFor
  <2>6. e \in Event /\ e.name = a /\ Key(e) \notin Seen
    BY <2>1, <2>2, <2>3 DEF Entry, Event, Key
  <2> QED BY <2>5, <2>6
<1>5. ASSUME NEW x \in HostedRuns(a, reach), NEW y \in HostedRuns(a, reach), x.id = y.id
      PROVE  x = y
  <2>1. PICK i \in 1..n : x = Entry(a, q[i].start, q[i].start, HostedStatus(q[i], reach))
    BY <1>2
  <2>2. PICK j \in 1..n : y = Entry(a, q[j].start, q[j].start, HostedStatus(q[j], reach))
    BY <1>2
  <2>3. q[i].start = q[j].start /\ q[i].start \in Nat
    BY <1>3, <1>5, <2>1, <2>2 DEF Entry, Run
  <2>4. ~(i < j) /\ ~(j < i)
    BY <1>1, <2>3 DEF History
  <2>5. i = j
    BY <2>4
  <2> QED BY <2>1, <2>2, <2>5
<1> QED BY <1>1, <1>4, <1>5 DEF News

LEMMA LaunchdNews ==
  ASSUME recorded \in Seq(Event), NEW a \in Names, History(runs[a])
  PROVE  News(a, launchdRuns(a), TRUE)
<1>1. PICK q \in Seq(Run), n \in Nat : q = runs[a] /\ n = Len(q)
  BY DEF History
<1> DEFINE mark == launchdWatermark(a)
           listed == IF NoWatermark(a) THEN LastN(allMarkers(q), 1) ELSE allMarkers(q)
           Told(r) == Entry(a, r.end, r.end, IF r.how = "failed" THEN "failed" ELSE "ok")
<1>2. mark \in Nat /\ \A k \in Seen : k.name = a => k.id <= mark
  BY WatermarkIs
<1>3. Range(listed) \subseteq Range(allMarkers(q))
  <2>1. allMarkers(q) \in Seq(Marker)
    BY DoneByARun
  <2> QED BY <2>1, LastFew
<1>4. launchdRuns(a) = {Entry(a, m.at, m.at, IF m.tally > 0 THEN "failed" ELSE "ok") :
                          m \in {x \in Range(listed) : x.done /\ x.at > mark}}
  BY <1>1 DEF launchdRuns
<1> HIDE DEF listed, mark
<1>5. ASSUME NEW e \in launchdRuns(a)
      PROVE  \E i \in 1..n : q[i].how # "running" /\ e = Told(q[i]) /\ q[i].end > mark
  <2>1. PICK m \in Range(listed) :
          m.done /\ m.at > mark /\ e = Entry(a, m.at, m.at, IF m.tally > 0 THEN "failed" ELSE "ok")
    BY <1>4
  <2>2. PICK i \in 1..n : q[i].how # "running" /\ m = DoneOf(q[i])
    BY <1>1, <1>3, <2>1, DoneByARun
  <2>3. m.at = q[i].end /\ (m.tally > 0 <=> q[i].how = "failed")
    BY <2>2 DEF DoneOf
  <2> QED BY <2>1, <2>2, <2>3
<1>6. \A i \in 1..n : q[i] \in Run
  BY <1>1
<1>7. ASSUME NEW e \in launchdRuns(a)
      PROVE  e \in Event /\ e.name = a /\ Key(e) \notin Seen /\ TellsOf(e, q, TRUE)
  <2>1. PICK i \in 1..n : q[i].how # "running" /\ e = Told(q[i]) /\ q[i].end > mark
    BY <1>5
  <2>2. q[i].end \in 0..MaxTime
    BY <1>6 DEF Run
  <2>3. e \in Event /\ e.name = a /\ Key(e) = [name |-> a, id |-> q[i].end]
    BY <2>1, <2>2 DEF Entry, Event, Key
  <2>4. Key(e) \notin Seen
    <3> SUFFICES ASSUME Key(e) \in Seen PROVE FALSE
      OBVIOUS
    <3>1. Key(e).name = a /\ Key(e).id = q[i].end
      BY <2>3
    <3>2. q[i].end <= mark
      BY <3>1, <1>2
    <3> QED BY <3>2, <2>1, <2>2, <1>2, SweepBounds
  <2>5. e.at = q[i].end /\ e.id = q[i].end
    BY <2>1 DEF Entry
  <2>6. TellsOf(e, q, TRUE)
    BY <1>1, <2>1, <2>5 DEF TellsOf, StandsFor
  <2> QED BY <2>3, <2>4, <2>6
<1>8. ASSUME NEW x \in launchdRuns(a), NEW y \in launchdRuns(a), x.id = y.id
      PROVE  x = y
  <2>1. PICK i \in 1..n : q[i].how # "running" /\ x = Told(q[i])
    BY <1>5
  <2>2. PICK j \in 1..n : q[j].how # "running" /\ y = Told(q[j])
    BY <1>5
  <2>3. q[i].end = q[j].end /\ q[i].end \in Nat
    BY <1>6, <1>8, <2>1, <2>2 DEF Entry, Run
  <2>4. ~(i < j) /\ ~(j < i)
    BY <1>1, <2>1, <2>2, <2>3 DEF History
  <2>5. i = j
    BY <2>4
  <2> QED BY <2>1, <2>2, <2>5
<1> QED BY <1>1, <1>7, <1>8 DEF News

LEMMA NewRunsNews ==
  ASSUME HealthInv, NEW reach
  PROVE  /\ NewRuns(reach) \subseteq Event
         /\ \A x \in NewRuns(reach) : Key(x) \notin Seen
         /\ \A x, y \in NewRuns(reach) : Key(x) = Key(y) => x = y
         /\ \A x \in NewRuns(reach) : x.name \in Declared /\ TellsOf(x, runs[x.name], Marked(x.name))
<1> DEFINE Lists(a) == CASE Decl(a).probe = "launchd_marker" -> launchdRuns(a)
                         [] Decl(a).probe = "n8n" -> jobDiscoveryRuns(a, reach)
                         [] OTHER -> HostedRuns(a, reach)
<1>1. ASSUME NEW a \in Declared
      PROVE  News(a, Lists(a), Marked(a))
  <2>1. a \in Names /\ History(runs[a])
    BY Lines DEF HealthInv, World
  <2>2. News(a, launchdRuns(a), TRUE)
    BY <2>1, LaunchdNews DEF HealthInv, Known
  <2>3. News(a, HostedRuns(a, reach), FALSE)
    BY <2>1, HostedNews
  <2>4. News(a, {}, FALSE)
    BY DEF News
  <2> QED BY <2>2, <2>3, <2>4 DEF jobDiscoveryRuns, Marked, MarkedIn, Declared, Decl
<1>2. NewRuns(reach) = UNION {Lists(a) : a \in {x \in Declared : ReportsRuns(x)}}
  BY DEF NewRuns
<1> HIDE DEF Lists
<1>3. \A x \in NewRuns(reach) : \E a \in Declared : x \in Lists(a)
  BY <1>2
<1>4. ASSUME NEW x \in NewRuns(reach)
      PROVE  x \in Event /\ Key(x) \notin Seen
  BY <1>1, <1>3 DEF News
<1>5. ASSUME NEW x \in NewRuns(reach), NEW y \in NewRuns(reach), Key(x) = Key(y)
      PROVE  x = y
  <2>1. PICK a \in Declared : x \in Lists(a)
    BY <1>3
  <2>2. PICK b \in Declared : y \in Lists(b)
    BY <1>3
  <2>3. x.name = a /\ y.name = b /\ x.name = y.name /\ x.id = y.id
    BY <1>1, <1>5, <2>1, <2>2 DEF News, Key
  <2> QED BY <1>1, <2>1, <2>2, <2>3 DEF News
<1>6. ASSUME NEW x \in NewRuns(reach)
      PROVE  x.name \in Declared /\ TellsOf(x, runs[x.name], Marked(x.name))
  BY <1>1, <1>3 DEF News
<1> QED BY <1>4, <1>5, <1>6


LEMMA CollectStep ==
  ASSUME HealthInv, NEW job \in Jobs, NEW reach, Collect(job, reach)
  PROVE  HealthInv'
<1>1. PICK fresh : fresh = NewRuns(reach) /\ fresh \subseteq Event
  BY NewRunsNews
<1>2. PICK v, first, step, w :
        /\ v = sweep[job] /\ step \in {"tell", "append"}
        /\ w = [v EXCEPT !.fresh = fresh, !.first = first, !.step = step] /\ Goes(job, v, w)
  BY <1>1 DEF Collect, Goes
<1>3. SweepIs(v) /\ Along(v) /\ v.step = "collect"
  BY <1>2, OneGoes DEF Collect
<1>4. /\ SweepIs(w) /\ w.step = step /\ w.reports = v.reports /\ w.fresh = fresh /\ w.news = v.news
  BY <1>2, <1>3 DEF SweepIs
<1>5. UNCHANGED <<now, runs, roster, jobs, last, recorded, told, cuts>>
  BY DEF Collect
<1>6. Along(w)
  <2>1. w.news \subseteq Event
    BY <1>3, <1>4 DEF Along
  <2> QED BY <2>1, <1>1, <1>2, <1>3, <1>4, Reporting DEF After
<1>7. cuts' \in 0..MaxCuts
  BY <1>5 DEF HealthInv, Swept
<1> QED BY <1>2, <1>5, <1>6, <1>7, SweepGoes, KnownStays

\* The step of one append, field by field.
Appends(v, w, e) ==
  /\ SweepIs(w) /\ w.reports = v.reports /\ w.fresh = v.fresh \ {e}
  /\ w.step \in {"append", "tell", "send"} /\ w.news \in {{}, v.news \cup {e}}
  /\ w.step = "tell" => w.news = {}

LEMMA AppendIs ==
  ASSUME HealthInv, NEW job \in Jobs, AppendRun(job)
  PROVE  \E v, w, e : /\ Goes(job, v, w) /\ Along(v) /\ v.step = "append" /\ e \in v.fresh /\ e \in Event
                      /\ Appends(v, w, e) /\ recorded' = Append(recorded, e)
<1>1. PICK v : v = sweep[job]
  OBVIOUS
<1>2. PICK e, news, step, w :
        /\ e \in v.fresh /\ recorded' = Append(recorded, e)
        /\ news \in {{}, v.news \cup {e}} /\ step \in {"append", "tell", "send"} /\ (step = "tell" => news = {})
        /\ w = [v EXCEPT !.fresh = v.fresh \ {e}, !.news = news, !.step = step] /\ Goes(job, v, w)
  <2>1. PICK e \in NewestOf(v.fresh) :
          /\ recorded' = Append(recorded, e)
          /\ sweep' = [sweep EXCEPT ![job] = [v EXCEPT !.fresh = v.fresh \ {e},
                         !.news = IF v.first /\ v.fresh = {e} THEN {} ELSE v.news \cup {e},
                         !.step = IF v.fresh # {e} THEN "append" ELSE IF v.first THEN "tell" ELSE "send"]]
    BY <1>1 DEF AppendRun
  <2>2. e \in v.fresh
    BY DEF NewestOf
  <2>3. PICK news : news = IF v.first /\ v.fresh = {e} THEN {} ELSE v.news \cup {e}
    OBVIOUS
  <2>4. PICK step : step = IF v.fresh # {e} THEN "append" ELSE IF v.first THEN "tell" ELSE "send"
    OBVIOUS
  <2>5. news \in {{}, v.news \cup {e}} /\ step \in {"append", "tell", "send"} /\ (step = "tell" => news = {})
    BY <2>3, <2>4
  <2>6. PICK w : w = [v EXCEPT !.fresh = v.fresh \ {e}, !.news = news, !.step = step]
    OBVIOUS
  <2>7. Goes(job, v, w)
    BY <1>1, <2>1, <2>3, <2>4, <2>6 DEF Goes
  <2> QED BY <2>1, <2>2, <2>5, <2>6, <2>7
<1>3. SweepIs(v) /\ Along(v) /\ v.step = "append"
  BY <1>1, <1>2, OneGoes DEF AppendRun
<1>4. Appends(v, w, e)
  BY <1>2, <1>3 DEF SweepIs, Appends
<1>5. e \in Event
  BY <1>2, <1>3 DEF Along
<1> QED BY <1>2, <1>3, <1>4, <1>5

LEMMA AppendStep ==
  ASSUME HealthInv, NEW job \in Jobs, AppendRun(job)
  PROVE  HealthInv'
<1>1. PICK v, w, e : /\ Goes(job, v, w) /\ Along(v) /\ v.step = "append" /\ e \in v.fresh /\ e \in Event
                     /\ Appends(v, w, e) /\ recorded' = Append(recorded, e)
  BY AppendIs
<1>2. UNCHANGED <<now, runs, roster, jobs, last, told, cuts>>
  BY DEF AppendRun
<1>3. Along(w)
  <2>1. w.fresh \subseteq Event /\ w.news \subseteq Event
    BY <1>1 DEF Appends, Along
  <2> QED BY <2>1, <1>1, Reporting DEF Appends, After
<1>4. Known'
  <2>1. Declared' = Declared /\ Load(roster)' = Load(roster)
    BY <1>2, Same
  <2>2. recorded' \in Seq(Event)
    BY <1>1 DEF HealthInv, Known
  <2> QED BY <1>2, <2>1, <2>2 DEF HealthInv, Known
<1>5. cuts' \in 0..MaxCuts
  BY <1>2 DEF HealthInv, Swept
<1> QED BY <1>1, <1>2, <1>3, <1>4, <1>5, SweepGoes

\* And of one message.
Sends(v, w, message) ==
  /\ SweepIs(w) /\ w.reports = v.reports /\ w.fresh = v.fresh
  /\ message \subseteq v.news /\ w.news = v.news \ message
  /\ w.step \in {"tell", "send"} /\ (w.step = "tell" => w.news = {})
Announces(message) ==
  announced' = [k \in DOMAIN announced \cup {Key(e) : e \in message} |->
                  (IF k \in DOMAIN announced THEN announced[k] ELSE 0)
                    + (IF k \in {Key(e) : e \in message} THEN 1 ELSE 0)]

LEMMA SendIs ==
  ASSUME HealthInv, NEW job \in Jobs, SendRuns(job)
  PROVE  \E v, w, message : /\ Goes(job, v, w) /\ Along(v) /\ v.step = "send"
                            /\ Sends(v, w, message) /\ Announces(message)
<1>1. PICK v : v = sweep[job]
  OBVIOUS
<1>2. PICK message \in NextMessage(v.news) :
        /\ Announces(message)
        /\ sweep' = [sweep EXCEPT ![job] = [v EXCEPT !.news = v.news \ message,
                                              !.step = IF v.news \ message = {} THEN "tell" ELSE "send"]]
  BY <1>1 DEF SendRuns, Announces
<1>3. message \subseteq v.news
  BY DEF NextMessage, NewestOf
<1>4. PICK left, step, w : /\ left = v.news \ message /\ step = IF left = {} THEN "tell" ELSE "send"
                           /\ w = [v EXCEPT !.news = left, !.step = step] /\ Goes(job, v, w)
  BY <1>1, <1>2 DEF Goes
<1>5. SweepIs(v) /\ Along(v) /\ v.step = "send"
  BY <1>1, <1>4, OneGoes DEF SendRuns
<1>6. SweepIs(w) /\ w.step = step /\ w.reports = v.reports /\ w.fresh = v.fresh /\ w.news = left
  BY <1>4, <1>5 DEF SweepIs
<1>7. Sends(v, w, message)
  BY <1>3, <1>4, <1>6 DEF Sends
<1> QED BY <1>2, <1>4, <1>5, <1>7

LEMMA SendRunsStep ==
  ASSUME HealthInv, NEW job \in Jobs, SendRuns(job)
  PROVE  HealthInv'
<1>1. PICK v, w, message : Goes(job, v, w) /\ Along(v) /\ v.step = "send" /\ Sends(v, w, message)
  BY SendIs
<1>2. UNCHANGED <<now, runs, roster, jobs, last, recorded, told, cuts>>
  BY DEF SendRuns
<1>3. Along(w)
  <2>1. w.fresh \subseteq Event /\ w.news \subseteq Event
    BY <1>1 DEF Along, Sends
  <2> QED BY <2>1, <1>1, Reporting DEF After, Sends
<1>4. cuts' \in 0..MaxCuts
  BY <1>2 DEF HealthInv, Swept
<1> QED BY <1>1, <1>2, <1>3, <1>4, SweepGoes, KnownStays

LEMMA ReportFailsStep ==
  ASSUME HealthInv, NEW job \in Jobs, ReportFails(job)
  PROVE  HealthInv'
<1>1. PICK v, w : v = sweep[job] /\ w = [v EXCEPT !.step = "tell", !.fresh = {}, !.news = {}] /\ Goes(job, v, w)
  BY DEF ReportFails, Goes
<1>2. SweepIs(v) /\ Along(v) /\ v.step \in {"append", "send"}
  BY <1>1, OneGoes DEF ReportFails
<1>3. SweepIs(w) /\ w.step = "tell" /\ w.reports = v.reports /\ w.fresh = {} /\ w.news = {}
  BY <1>1, <1>2 DEF SweepIs
<1>4. UNCHANGED <<now, runs, roster, jobs, last, recorded, told>> /\ cuts' = cuts + 1 /\ cuts < MaxCuts
  BY DEF ReportFails
<1>5. Along(w)
  BY <1>2, <1>3, Reporting DEF After
<1>6. cuts' \in 0..MaxCuts
  BY <1>4, SweepBounds DEF HealthInv, Swept
<1> QED BY <1>1, <1>4, <1>5, <1>6, SweepGoes, KnownStays

-----------------------------------------------------------------------------
(* The message, and the end of a sweep.                                       *)

LEMMA TellStep ==
  ASSUME HealthInv, NEW job \in Jobs, Tell(job)
  PROVE  HealthInv'
<1>1. PICK v : v = sweep[job] /\ Goes(job, v, NoSweep)
  BY DEF Tell, Goes
<1>2. Along(v) /\ v.step = "tell"
  BY <1>1, OneGoes DEF Tell
<1>3. /\ UNCHANGED <<now, runs, roster, jobs, last, recorded, cuts>>
      /\ told' = [a \in Names |-> IF a \in Mentioned(job) THEN v.reports[a] ELSE told[a]]
  BY <1>1 DEF Tell
<1>4. Mentioned(job) \subseteq Declared
  BY DEF Mentioned, Digest, Alert
<1>5. \A a \in Declared : v.reports[a] \in States
  BY <1>2 DEF Along, After
<1>6. Known'
  <2>1. Declared' = Declared /\ Load(roster)' = Load(roster)
    BY <1>3, Same
  <2>2. \A a \in Names : told'[a] \in States
    BY <1>3, <1>4, <1>5 DEF HealthInv, Known
  <2> QED BY <1>3, <2>1, <2>2 DEF HealthInv, Known
<1>7. cuts' \in 0..MaxCuts
  BY <1>3 DEF HealthInv, Swept
<1> QED BY <1>1, <1>3, <1>6, <1>7, SweepIdle, SweepGoes

LEMMA CutStep ==
  ASSUME HealthInv, NEW job \in Jobs, Cut(job)
  PROVE  HealthInv'
<1>1. PICK v : v = sweep[job] /\ Goes(job, v, NoSweep)
  BY DEF Cut, Goes
<1>2. UNCHANGED <<now, runs, roster, jobs, last, recorded, told>> /\ cuts' = cuts + 1 /\ cuts < MaxCuts
  BY DEF Cut
<1>3. cuts' \in 0..MaxCuts
  BY <1>2, SweepBounds DEF HealthInv, Swept
<1> QED BY <1>1, <1>2, <1>3, SweepIdle, SweepGoes, KnownStays

LEMMA NextHealth == HealthInv /\ [HealthNext]_healthVars => HealthInv'
<1> SUFFICES ASSUME HealthInv, [HealthNext]_healthVars PROVE HealthInv'
  OBVIOUS
<1>1. CASE TimePasses
  BY <1>1, TimeStep
<1>2. ASSUME NEW a \in Declared, RunStarts(a) \/ RunEnds(a) PROVE HealthInv'
  BY <1>2, RunStep
<1>3. ASSUME NEW job \in Jobs, SweepStep(job) PROVE HealthInv'
  <2>1. ASSUME NEW a \in Declared, NEW loaded \in BOOLEAN, ReadStatus(job, a, loaded) PROVE HealthInv'
    BY <2>1, ReadStatusStep
  <2>2. ASSUME NEW a \in Declared, NEW reach \in {"none", "partial", "all"}, Probe(job, a, reach) PROVE HealthInv'
    BY <2>2, ProbeStep
  <2>3. ASSUME NEW reach \in {"none", "partial", "all"}, Collect(job, reach) PROVE HealthInv'
    BY <2>3, CollectStep
  <2> QED BY <1>3, <2>1, <2>2, <2>3, RecordVerdictsStep, AppendStep, SendRunsStep, TellStep DEF SweepStep
<1>4. ASSUME NEW job \in Jobs, Begin(job) \/ SweepStep(job) \/ ReportFails(job) \/ Cut(job) PROVE HealthInv'
  BY <1>3, <1>4, BeginStep, ReportFailsStep, CutStep
<1>5. CASE UNCHANGED healthVars
  <2>1. World'
    BY <1>5 DEF healthVars, HealthInv, World
  <2> QED BY <1>5, <2>1, WorldOnly DEF healthVars
<1> QED BY <1>1, <1>2, <1>4, <1>5 DEF HealthNext

LEMMA HealthInvariance == HealthSpec => []HealthInv
BY InitHealth, NextHealth, PTL DEF HealthSpec

\* Every variable of the sweeps keeps to its type.
THEOREM SweepTypeCorrect == HealthSpec => []HealthTypeOK
<1>1. HealthInv => HealthTypeOK
  <2> SUFFICES ASSUME HealthInv PROVE HealthTypeOK
    OBVIOUS
  <2>1. ASSUME NEW a \in Names
        PROVE  Range(runs[a]) \subseteq Run /\ told[a] \in States
    <3>1. runs[a] \in Seq(Run)
      BY DEF HealthInv, World
    <3> QED BY <3>1 DEF Range, HealthInv, Known
  <2>2. ASSUME NEW job \in Jobs
        PROVE  /\ sweep[job].step \in Steps /\ DOMAIN sweep[job].reports \subseteq Declared
               /\ sweep[job].fresh \cup sweep[job].news \subseteq Event
    BY DEF HealthInv, Swept, Along
  <2>3. DOMAIN sweep = Jobs /\ jobs \subseteq Jobs /\ cuts \in 0..MaxCuts
    BY DEF HealthInv, Swept
  <2>4. now \in 1..MaxTime /\ recorded \in Seq(Event)
    BY DEF HealthInv, World, Known
  <2> QED BY <2>1, <2>2, <2>3, <2>4 DEF HealthTypeOK
<1> QED BY <1>1, HealthInvariance, PTL

\* A sweep that records a verdict records one for every line of the roster, and
\* no two lines share one (config.go: Load refuses the roster as a whole).
THEOREM EveryLineIsWatched == HealthSpec => []AllWatched
<1>1. HealthInv => AllWatched
  <2> SUFFICES ASSUME HealthInv, last # <<>> PROVE DOMAIN last = Declared /\ Cardinality(Declared) = Len(roster)
    BY DEF AllWatched
  <2>1. DOMAIN last = Declared /\ Load(roster) # <<>> /\ roster \in Seq(Declaration(Names))
    BY DEF HealthInv, Known, Rostered
  <2>2. PICK n \in Nat : n = Len(roster) /\ DOMAIN roster = 1..n
    BY <2>1
  <2>3. \A i \in 1..n : \A j \in 1..(i - 1) : roster[j].name # roster[i].name
    BY <2>1, <2>2 DEF Load, Problem
  <2>4. ASSUME NEW i \in 1..n, NEW j \in 1..n, roster[i].name = roster[j].name
        PROVE  i = j
    <3>1. ~(i < j) /\ ~(j < i)
      BY <2>3, <2>4
    <3> QED BY <3>1
  <2> DEFINE f == [i \in 1..n |-> roster[i].name]
  <2>5. f \in Bijection(1..n, Declared)
    <3>1. \A i \in 1..n : roster[i].name \in Declared
      BY <2>2 DEF Declared
    <3>2. \A a \in Declared : \E i \in 1..n : roster[i].name = a
      BY <2>2 DEF Declared
    <3> QED BY <3>1, <3>2, <2>4 DEF Bijection, Injection, Surjection, IsInjective
  <2> HIDE DEF f
  <2>6. Cardinality(Declared) = n
    <3>1. ExistsBijection(1..n, Declared)
      BY <2>5 DEF ExistsBijection
    <3> QED BY <3>1, FS_CountingElements
  <2> QED BY <2>1, <2>2, <2>6
<1> QED BY <1>1, HealthInvariance, PTL

-----------------------------------------------------------------------------
(* The run log.                                                               *)

\* How runs go on: the newest may end, and another may start after it.
Grown(q, p, t) ==
  /\ Len(q) <= Len(p)
  /\ \A i \in 1..Len(p) :
       \/ i \in 1..Len(q) /\ p[i] = q[i]
       \/ i = Len(q) + 1 /\ p[i].how = "running" /\ p[i].start = t /\ p[i].end = 0
       \/ /\ i \in 1..Len(q) /\ i = Len(q) /\ q[i].how = "running" /\ p[i].how # "running"
          /\ p[i].start = q[i].start /\ p[i].end = t

LEMMA Unchanged == ASSUME NEW q \in Seq(Run), NEW t PROVE Grown(q, q, t)
BY DEF Grown

LEMMA StartGrows ==
  ASSUME NEW q \in Seq(Run), NEW t
  PROVE  Grown(q, Append(q, [start |-> t, end |-> 0, how |-> "running"]), t)
<1> DEFINE r == [start |-> t, end |-> 0, how |-> "running"]
           p == Append(q, r)
<1>1. PICK n \in Nat : n = Len(q)
  OBVIOUS
<1>2. Len(p) = n + 1 /\ p[n + 1] = r /\ \A i \in 1..n : p[i] = q[i]
  BY <1>1
<1>3. r.how = "running" /\ r.start = t /\ r.end = 0
  OBVIOUS
<1> HIDE DEF r, p
<1>4. \A i \in 1..(n + 1) : i \in 1..n \/ i = n + 1
  OBVIOUS
<1>5. Grown(q, p, t)
  BY <1>1, <1>2, <1>3, <1>4 DEF Grown
<1> QED BY <1>5 DEF p, r

LEMMA EndGrows ==
  ASSUME NEW q \in Seq(Run), InFlight(q), NEW t, NEW how \in Ends
  PROVE  Grown(q, [q EXCEPT ![Len(q)] = [@ EXCEPT !.end = t, !.how = how]], t)
<1>1. PICK n \in Nat : n = Len(q)
  OBVIOUS
<1> DEFINE r == [q[n] EXCEPT !.end = t, !.how = how]
           p == [q EXCEPT ![n] = r]
<1>2. n \in 1..n /\ q[n].how = "running" /\ q[n] \in Run
  BY <1>1 DEF InFlight, Last
<1>3. r.start = q[n].start /\ r.end = t /\ r.how = how /\ how # "running"
  BY <1>2 DEF Run, Ends
<1> HIDE DEF r
<1>4. Len(p) = n /\ p[n] = r /\ \A i \in 1..n : i # n => p[i] = q[i]
  BY <1>1, <1>2
<1> HIDE DEF p
<1>5. Grown(q, p, t)
  BY <1>1, <1>2, <1>3, <1>4 DEF Grown
<1> QED BY <1>1, <1>5 DEF p, r

\* Every step lets the runs of each automation go on, if it touches them.
LEMMA RunsGoOn ==
  ASSUME HealthInv, [HealthNext]_healthVars
  PROVE  /\ \A b \in Names : Grown(runs[b], runs'[b], now)
         /\ roster' = roster /\ now \in Nat /\ now <= now' /\ now' \in Nat
<1>1. now \in 1..MaxTime /\ runs \in [Names -> Seq(Run)]
  BY DEF HealthInv, World
<1>2. \A b \in Names : Grown(runs[b], runs[b], now)
  BY <1>1, Unchanged
<1>3. ASSUME NEW a \in Declared, RunStarts(a) \/ RunEnds(a)
      PROVE  (\A b \in Names : Grown(runs[b], runs'[b], now)) /\ UNCHANGED <<roster, now>>
  <2>1. a \in Names
    BY Lines DEF HealthInv
  <2>2. PICK q \in Seq(Run) : q = runs[a]
    BY <1>1, <2>1
  <2>3. PICK p : runs' = [runs EXCEPT ![a] = p] /\ Grown(q, p, now)
    <3>1. CASE RunStarts(a)
      <4>1. runs' = [runs EXCEPT ![a] = Append(q, [start |-> now, end |-> 0, how |-> "running"])]
        BY <1>1, <2>1, <2>2, <3>1 DEF RunStarts
      <4> QED BY <4>1, StartGrows
    <3>2. CASE RunEnds(a)
      <4>1. PICK how \in Ends :
              runs' = [runs EXCEPT ![a][Len(runs[a])] = [@ EXCEPT !.end = now, !.how = how]]
        BY <3>2 DEF RunEnds
      <4>2. runs' = [runs EXCEPT ![a] = [q EXCEPT ![Len(q)] = [@ EXCEPT !.end = now, !.how = how]]]
        BY <1>1, <2>1, <2>2, <4>1
      <4>3. InFlight(q)
        BY <2>2, <3>2 DEF RunEnds
      <4> QED BY <4>2, <4>3, EndGrows
    <3> QED BY <1>3, <3>1, <3>2
  <2>4. \A b \in Names : runs'[b] = IF b = a THEN p ELSE runs[b]
    BY <1>1, <2>1, <2>3
  <2> QED BY <1>2, <1>3, <2>2, <2>3, <2>4 DEF RunStarts, RunEnds
<1>4. CASE TimePasses
  BY <1>1, <1>2, <1>4, SweepBounds DEF TimePasses
<1>5. CASE UNCHANGED <<runs, roster, now>>
  BY <1>1, <1>2, <1>5, SweepBounds
<1>6. ASSUME NEW job \in Jobs, Begin(job) \/ SweepStep(job) \/ ReportFails(job) \/ Cut(job)
      PROVE  UNCHANGED <<runs, roster, now>>
  <2>1. ASSUME NEW a \in Declared, NEW loaded \in BOOLEAN, ReadStatus(job, a, loaded) PROVE UNCHANGED <<runs, roster, now>>
    BY <2>1 DEF ReadStatus
  <2>2. ASSUME NEW a \in Declared, NEW reach \in {"none", "partial", "all"}, Probe(job, a, reach) PROVE UNCHANGED <<runs, roster, now>>
    BY <2>2 DEF Probe
  <2>3. ASSUME NEW reach \in {"none", "partial", "all"}, Collect(job, reach) PROVE UNCHANGED <<runs, roster, now>>
    BY <2>3 DEF Collect
  <2>4. ASSUME RecordVerdicts(job) \/ AppendRun(job) \/ SendRuns(job) \/ Tell(job) PROVE UNCHANGED <<runs, roster, now>>
    BY <2>4 DEF RecordVerdicts, AppendRun, SendRuns, Tell
  <2>5. ASSUME Begin(job) \/ ReportFails(job) \/ Cut(job) PROVE UNCHANGED <<runs, roster, now>>
    BY <2>5 DEF Begin, ReportFails, Cut
  <2> QED BY <1>6, <2>1, <2>2, <2>3, <2>4, <2>5 DEF SweepStep
<1>7. CASE UNCHANGED healthVars
  BY <1>5, <1>7 DEF healthVars
<1>8. CASE \E a \in Declared : RunStarts(a) \/ RunEnds(a)
  BY <1>1, <1>3, <1>8, SweepBounds
<1>9. CASE \E job \in Jobs : Begin(job) \/ SweepStep(job) \/ ReportFails(job) \/ Cut(job)
  BY <1>5, <1>6, <1>9
<1> QED BY <1>4, <1>7, <1>8, <1>9 DEF HealthNext

\* What is in the log, and what a sweep has on its way to it.
Carried == Records \cup UNION {sweep[job].fresh : job \in Jobs}

\* Every recorded run stands for one.
Recounted ==
  \A e \in Carried :
    /\ Canonical(e.name) \in Names
    /\ TellsOf(e, runs[Canonical(e.name)], Marked(Canonical(e.name)))

LEMMA TellsOn ==
  ASSUME NEW q \in Seq(Run), NEW p \in Seq(Run), NEW t, Grown(q, p, t), NEW e, NEW marked, TellsOf(e, q, marked)
  PROVE  TellsOf(e, p, marked)
<1>1. PICK i \in 1..Len(q) : StandsFor(e, q[i], marked)
  BY DEF TellsOf
<1>2. i \in 1..Len(p) /\ i # Len(q) + 1
  <2>1. PICK n \in Nat, m \in Nat : n = Len(q) /\ m = Len(p)
    OBVIOUS
  <2>2. n <= m /\ i \in 1..n
    BY <2>1 DEF Grown
  <2> QED BY <2>1, <2>2
<1>3. q[i].how # "running"
  BY <1>1 DEF StandsFor
<1>4. p[i] = q[i]
  BY <1>2, <1>3 DEF Grown
<1> QED BY <1>1, <1>2, <1>4 DEF TellsOf

LEMMA InitRecounted == HealthInit => Recounted
<1> SUFFICES ASSUME HealthInit PROVE Recounted
  OBVIOUS
<1>1. PICK s \in Setups : roster = s.roster /\ runs = s.runs /\ recorded = s.log
  BY DEF HealthInit
<1>2. \A job \in Jobs : sweep[job].fresh = {}
  BY DEF HealthInit, NoSweep
<1> SUFFICES ASSUME NEW e \in Records
             PROVE  /\ Canonical(e.name) \in Names
                    /\ TellsOf(e, runs[Canonical(e.name)], Marked(Canonical(e.name)))
  BY <1>2 DEF Recounted, Carried
<1>3. s.log \in Seq(Event) /\ Rostered /\ s.runs \in [Names -> Seq(Run)]
  BY <1>1, SetupsAssumption DEF Rostered
<1>4. PICK i \in DOMAIN s.log : e = s.log[i]
  BY <1>1 DEF Records, Range
<1>5. e.name \in Names /\ Canonical(e.name) \in Names
  <2>1. e \in Event
    BY <1>3, <1>4
  <2> QED BY <2>1, RenamedAssumption DEF Event, Canonical
<1>6. PICK n : n = Canonical(e.name) /\ n \in Names /\ runs[n] \in Seq(Run)
  BY <1>1, <1>3, <1>5
<1>7. Marked(n) <=> MarkedIn(s.roster, n)
  BY <1>1 DEF Marked
<1>8. \E k \in DOMAIN runs[n] : StandsFor(e, runs[n][k], MarkedIn(s.roster, n))
  BY <1>1, <1>4, <1>6, SetupsAssumption DEF Canonical
<1>9. PICK k \in 1..Len(runs[n]) : StandsFor(e, runs[n][k], MarkedIn(s.roster, n))
  BY <1>6, <1>8
<1>10. StandsFor(e, runs[n][k], Marked(n))
  BY <1>7, <1>9 DEF StandsFor
<1> QED BY <1>6, <1>9, <1>10 DEF TellsOf


\* A sweep's step brings in no more than the sweep holds, or than x.
LEMMA HeldGrows ==
  ASSUME HealthInv, NEW job \in Jobs, NEW v, NEW w, Goes(job, v, w), NEW new,
         Records' \subseteq Records \cup v.fresh, w.fresh \subseteq v.fresh \cup new
  PROVE  Carried' \subseteq Carried \cup new
<1>1. sweep'[job] = w /\ \A j \in Jobs : j # job => sweep'[j] = sweep[j]
  BY OneGoes
<1>2. v.fresh \subseteq Carried
  BY DEF Goes, Carried
<1>3. ASSUME NEW j \in Jobs PROVE sweep'[j].fresh \subseteq Carried \cup new
  <2>1. CASE j = job
    BY <1>1, <1>2, <2>1
  <2>2. CASE j # job
    BY <1>1, <2>2 DEF Carried
  <2> QED BY <2>1, <2>2
<1>4. Records' \subseteq Carried
  BY <1>2 DEF Carried
<1> QED BY <1>3, <1>4 DEF Carried

\* Only a look at the sources brings runs in; all else moves what is there.
LEMMA WhereNewsIsFrom ==
  ASSUME HealthInv, [HealthNext]_healthVars
  PROVE  \A e \in Carried' : e \in Carried \/ \E reach : e \in NewRuns(reach)
<1> DEFINE Kept == Carried' \subseteq Carried
<1>1. UNCHANGED recorded => Records' = Records
  BY DEF Records, Range
<1>2. ASSUME UNCHANGED <<recorded, sweep>> PROVE Kept
  BY <1>1, <1>2 DEF Carried
<1>3. CASE TimePasses \/ UNCHANGED healthVars
  BY <1>2, <1>3 DEF TimePasses, healthVars
<1>4. ASSUME NEW a \in Declared, RunStarts(a) \/ RunEnds(a) PROVE Kept
  BY <1>2, <1>4 DEF RunStarts, RunEnds
<1>5. ASSUME NEW job \in Jobs, Begin(job) PROVE Kept
  <2>1. PICK v, w : v = sweep[job] /\ w = [NoSweep EXCEPT !.step = "probe", !.prev = last, !.began = now]
                    /\ Goes(job, v, w)
    BY <1>5 DEF Begin, Goes
  <2>3. w.fresh = {}
    BY <2>1 DEF NoSweep
  <2>2. Records' = Records
    BY <1>1, <1>5 DEF Begin
  <2> QED BY <2>1, <2>2, <2>3, HeldGrows
<1>6. ASSUME NEW job \in Jobs, SweepStep(job)
      PROVE  \A e \in Carried' : e \in Carried \/ \E reach : e \in NewRuns(reach)
  <2>1. ASSUME NEW a \in Declared, NEW loaded \in BOOLEAN, ReadStatus(job, a, loaded) PROVE Kept
    <3>1. PICK v, x, w : w = [v EXCEPT !.status = x] /\ Goes(job, v, w)
      BY <2>1 DEF ReadStatus, Goes
    <3>2. w.fresh = v.fresh
      BY <3>1, OneGoes DEF SweepIs
    <3>3. Records' = Records
      BY <1>1, <2>1 DEF ReadStatus
    <3> QED BY <3>1, <3>2, <3>3, HeldGrows
  <2>2. ASSUME NEW a \in Declared, NEW reach \in {"none", "partial", "all"}, Probe(job, a, reach) PROVE Kept
    <3>1. PICK v, x, y, z, w : w = [v EXCEPT !.reports = x, !.status = y, !.step = z] /\ Goes(job, v, w)
      BY <2>2 DEF Probe, Goes
    <3>2. w.fresh = v.fresh
      BY <3>1, OneGoes DEF SweepIs
    <3>3. Records' = Records
      BY <1>1, <2>2 DEF Probe
    <3> QED BY <3>1, <3>2, <3>3, HeldGrows
  <2>3. ASSUME RecordVerdicts(job) PROVE Kept
    <3>1. PICK v, x, y, w : w = [v EXCEPT !.step = x, !.reports = y, !.began = 0] /\ Goes(job, v, w)
      BY <2>3 DEF RecordVerdicts, Goes
    <3>2. w.fresh = v.fresh
      BY <3>1, OneGoes DEF SweepIs
    <3>3. Records' = Records
      BY <1>1, <2>3 DEF RecordVerdicts
    <3> QED BY <3>1, <3>2, <3>3, HeldGrows
  <2>4. ASSUME NEW reach \in {"none", "partial", "all"}, Collect(job, reach)
        PROVE  Carried' \subseteq Carried \cup NewRuns(reach)
    <3>1. PICK fresh : fresh = NewRuns(reach)
      OBVIOUS
    <3>2. PICK v, x, y, w : w = [v EXCEPT !.fresh = fresh, !.first = x, !.step = y] /\ Goes(job, v, w)
      BY <2>4, <3>1 DEF Collect, Goes
    <3>3. w.fresh = fresh
      BY <3>2, OneGoes DEF SweepIs
    <3>4. Records' = Records
      BY <1>1, <2>4 DEF Collect
    <3>5. Carried' \subseteq Carried \cup fresh
      BY <3>2, <3>3, <3>4, HeldGrows
    <3> QED BY <3>1, <3>5
  <2>5. ASSUME AppendRun(job) PROVE Kept
    <3>1. PICK v, w, e : /\ Goes(job, v, w) /\ e \in v.fresh /\ e \in Event
                         /\ Appends(v, w, e) /\ recorded' = Append(recorded, e)
      BY <2>5, AppendIs
    <3>2. Records' \subseteq Records \cup {e}
      <4>1. \A x \in Seq(Event) : Range(Append(x, e)) \subseteq Range(x) \cup {e}
        BY <3>1 DEF Range
      <4> QED BY <3>1, <4>1 DEF Records, HealthInv, Known
    <3>3. w.fresh \subseteq v.fresh
      BY <3>1 DEF Appends
    <3> QED BY <3>1, <3>2, <3>3, HeldGrows
  <2>6. ASSUME SendRuns(job) PROVE Kept
    <3>1. PICK v, w : Goes(job, v, w) /\ w.fresh = v.fresh
      BY <2>6, SendIs DEF Sends
    <3>2. Records' = Records
      BY <1>1, <2>6 DEF SendRuns
    <3> QED BY <3>1, <3>2, HeldGrows
  <2>7. ASSUME Tell(job) PROVE Kept
    <3>1. PICK v, w : v = sweep[job] /\ w = NoSweep /\ Goes(job, v, w)
      BY <2>7 DEF Tell, Goes
    <3>3. w.fresh = {}
      BY <3>1 DEF NoSweep
    <3>2. Records' = Records
      BY <1>1, <2>7 DEF Tell
    <3> QED BY <3>1, <3>2, <3>3, HeldGrows
  <2> QED BY <1>6, <2>1, <2>2, <2>3, <2>4, <2>5, <2>6, <2>7 DEF SweepStep
<1>7. ASSUME NEW job \in Jobs, ReportFails(job) PROVE Kept
  <2>1. PICK v, w : w = [v EXCEPT !.step = "tell", !.fresh = {}, !.news = {}] /\ Goes(job, v, w)
    BY <1>7 DEF ReportFails, Goes
  <2>2. w.fresh = {}
    BY <2>1, OneGoes DEF SweepIs
  <2>3. Records' = Records
    BY <1>1, <1>7 DEF ReportFails
  <2> QED BY <2>1, <2>2, <2>3, HeldGrows
<1>8. ASSUME NEW job \in Jobs, Cut(job) PROVE Kept
  <2>1. PICK v, w : v = sweep[job] /\ w = NoSweep /\ Goes(job, v, w)
    BY <1>8 DEF Cut, Goes
  <2>3. w.fresh = {}
    BY <2>1 DEF NoSweep
  <2>2. Records' = Records
    BY <1>1, <1>8 DEF Cut
  <2> QED BY <2>1, <2>2, <2>3, HeldGrows
<1>9. CASE \E job \in Jobs : Begin(job) \/ SweepStep(job) \/ ReportFails(job) \/ Cut(job)
  BY <1>5, <1>6, <1>7, <1>8, <1>9
<1> QED BY <1>3, <1>4, <1>9 DEF HealthNext

LEMMA NextRecounted == HealthInv /\ Recounted /\ [HealthNext]_healthVars => Recounted'
<1> SUFFICES ASSUME HealthInv, Recounted, [HealthNext]_healthVars PROVE Recounted'
  OBVIOUS
<1>1. /\ \A b \in Names : Grown(runs[b], runs'[b], now)
      /\ \A b \in Names : runs[b] \in Seq(Run) /\ runs'[b] \in Seq(Run)
  <2>1. HealthInv'
    BY NextHealth
  <2> QED BY <2>1, RunsGoOn DEF HealthInv, World
<1>2. \A n : Marked(n)' = Marked(n) /\ Canonical(n)' = Canonical(n)
  BY RunsGoOn DEF Marked, MarkedIn, LineOf, Canonical
<1>3. ASSUME NEW e, Canonical(e.name) \in Names, TellsOf(e, runs[Canonical(e.name)], Marked(Canonical(e.name)))
      PROVE  TellsOf(e, runs'[Canonical(e.name)], Marked(Canonical(e.name)))
  BY <1>1, <1>3, TellsOn
<1>4. ASSUME NEW e \in Carried'
      PROVE  /\ Canonical(e.name) \in Names
             /\ TellsOf(e, runs[Canonical(e.name)], Marked(Canonical(e.name)))
  <2>1. CASE e \in Carried
    BY <2>1 DEF Recounted
  <2>2. ASSUME NEW reach, e \in NewRuns(reach)
        PROVE  /\ Canonical(e.name) \in Names
               /\ TellsOf(e, runs[Canonical(e.name)], Marked(Canonical(e.name)))
    <3>1. e.name \in Declared /\ TellsOf(e, runs[e.name], Marked(e.name))
      BY <2>2, NewRunsNews
    <3>2. Canonical(e.name) = e.name /\ e.name \in Names
      BY <3>1, Lines DEF Canonical, HealthInv
    <3> QED BY <3>1, <3>2
  <2> QED BY <2>1, <2>2, WhereNewsIsFrom
<1> QED BY <1>2, <1>3, <1>4 DEF Recounted

LEMMA RecountedInvariance == HealthSpec => []Recounted
<1>1. HealthInit => Recounted
  BY InitRecounted
<1>2. HealthInv /\ Recounted /\ [HealthNext]_healthVars => Recounted'
  BY NextRecounted
<1> QED BY <1>1, <1>2, HealthInvariance, PTL DEF HealthSpec

\* One line of the run log, from the runs it is about: no more entries than runs
\* that ended, and its failures where the runs failed.
LEMMA OneLine ==
  ASSUME HealthInv, Recounted, NEW n \in Names, Canonical(n) = n
  PROVE  LET q == runs[n]
             l == summarizeOne(n)
             newest == Newest(q, Ended(q))
         IN /\ l.total <= Cardinality(Ended(q))
            /\ ~Marked(n) /\ (\E i \in DOMAIN q : Bad(q[i]) /\ [name |-> n, id |-> q[i].start] \in Logged)
                 => l.verdict \in {"broken", "recovered"}
            /\ ~Marked(n) /\ l.verdict = "recovered"
                 => ~Bad(newest) \/ newest.start \notin {e.id : e \in RunsOf(n)}
<1> DEFINE mine == {e \in Records : Canonical(e.name) = n}
           Pick(id) == CHOOSE e \in mine : e.id = id
<1>1. PICK q \in Seq(Run), k \in Nat : q = runs[n] /\ k = Len(q) /\ History(q)
  BY DEF HealthInv, World, History
<1>2. \A i \in 1..k : q[i] \in Run /\ q[i].start \in Nat /\ q[i].end \in Nat
  <2>1. \A i \in 1..k : q[i] \in Run
    BY <1>1
  <2>2. \A r \in Run : r.start \in Nat /\ r.end \in Nat
    BY SweepBounds DEF Run
  <2> QED BY <2>1, <2>2
<1>3. \A e \in mine : \E i \in 1..k : StandsFor(e, q[i], Marked(n))
  BY <1>1 DEF Recounted, TellsOf, Carried
<1>4. RunsOf(n) = {Pick(id) : id \in {e.id : e \in mine}}
  BY DEF RunsOf
<1>5. \A e \in mine : Pick(e.id) \in mine /\ Pick(e.id).id = e.id
  OBVIOUS
<1>6. \A i : i \in Ended(q) <=> i \in 1..k /\ q[i].how # "running"
  BY <1>1 DEF Ended
<1> HIDE DEF mine, Pick
<1>7. /\ RunsOf(n) \subseteq mine
      /\ \A x, y \in RunsOf(n) : x.id = y.id => x = y
      /\ \A e \in mine : \E x \in RunsOf(n) : x.id = e.id
  BY <1>4, <1>5
<1>8. \A i, j \in 1..k : q[i].start = q[j].start => i = j
  <2> SUFFICES ASSUME NEW i \in 1..k, NEW j \in 1..k, q[i].start = q[j].start PROVE i = j
    OBVIOUS
  <2>1. ~(i < j) /\ ~(j < i)
    BY <1>1, <1>2 DEF History
  <2> QED BY <2>1
<1>9. summarizeOne(n).total <= Cardinality(Ended(q))
  <2> DEFINE f == [e \in RunsOf(n) |-> CHOOSE i \in Ended(q) : StandsFor(e, q[i], Marked(n))]
  <2>1. \A e \in RunsOf(n) : f[e] \in Ended(q) /\ StandsFor(e, q[f[e]], Marked(n))
    <3> SUFFICES ASSUME NEW e \in RunsOf(n)
                 PROVE  \E i \in Ended(q) : StandsFor(e, q[i], Marked(n))
      OBVIOUS
    <3>1. PICK i \in 1..k : StandsFor(e, q[i], Marked(n))
      BY <1>3, <1>7
    <3> QED BY <3>1, <1>6 DEF StandsFor
  <2>2. ASSUME NEW x \in RunsOf(n), NEW y \in RunsOf(n), f[x] = f[y]
        PROVE  x = y
    <3> HIDE DEF f
    <3>1. StandsFor(x, q[f[x]], Marked(n)) /\ StandsFor(y, q[f[x]], Marked(n))
      BY <2>1, <2>2
    <3>2. x.id = y.id
      BY <3>1 DEF StandsFor
    <3> QED BY <3>2, <1>7
  <2>3. f \in Injection(RunsOf(n), Ended(q))
    <3>1. f \in [RunsOf(n) -> Ended(q)]
      BY <2>1
    <3> HIDE DEF f
    <3> QED BY <2>2, <3>1 DEF Injection, IsInjective
  <2>4. IsFiniteSet(Ended(q))
    <3>1. IsFiniteSet(1..k) /\ Ended(q) \subseteq 1..k
      BY <1>6, FS_Interval
    <3> QED BY <3>1, FS_Subset
  <2>5. Cardinality(RunsOf(n)) <= Cardinality(Ended(q))
    <3> HIDE DEF f
    <3> QED BY <2>3, <2>4, FS_Injection
  <2> QED BY <2>5 DEF summarizeOne
<1>10. summarizeOne(n).verdict = verdictOf(n, RunsOf(n))
  BY DEF summarizeOne
<1>11. ASSUME ~Marked(n), NEW i \in DOMAIN q, Bad(q[i]), NEW x \in RunsOf(n), x.id = q[i].start
       PROVE  x.status = "failed"
  <2>1. PICK j \in 1..k : StandsFor(x, q[j], Marked(n))
    BY <1>3, <1>7
  <2>2. q[j].start = q[i].start /\ i \in 1..k
    BY <1>1, <1>11, <2>1 DEF StandsFor
  <2>3. i = j
    BY <1>8, <2>2
  <2> QED BY <1>11, <2>1, <2>3 DEF StandsFor
<1>12. ASSUME ~Marked(n), NEW i \in DOMAIN q, Bad(q[i]), [name |-> n, id |-> q[i].start] \in Logged
       PROVE  verdictOf(n, RunsOf(n)) \in {"broken", "recovered"}
  <2>1. PICK e \in Records : e.name = n /\ e.id = q[i].start
    BY <1>12 DEF Logged, Key
  <2>2. PICK x \in RunsOf(n) : x.id = q[i].start
    BY <1>7, <2>1 DEF mine
  <2>3. x.status = "failed"
    BY <1>11, <1>12, <2>2
  <2> QED BY <2>2, <2>3 DEF verdictOf
<1>13. ASSUME ~Marked(n), verdictOf(n, RunsOf(n)) = "recovered", Bad(Newest(q, Ended(q))),
              NEW x \in RunsOf(n), x.id = Newest(q, Ended(q)).start
       PROVE  FALSE
  <2>1. ~(\E e \in NewestOf(RunsOf(n)) : e.status = "failed")
    BY <1>13 DEF verdictOf
  <2>2. PICK i \in 1..k : StandsFor(x, q[i], Marked(n))
    BY <1>3, <1>7
  <2> DEFINE m == Max(Ended(q))
  <2>3. m \in Ended(q) /\ \A j \in Ended(q) : j <= m
    <3>1. Ended(q) \in SUBSET (1..k) /\ Ended(q) # {}
      BY <1>6, <2>2 DEF StandsFor
    <3>2. \E y \in Ended(q) : \A j \in Ended(q) : j <= y
      BY <3>1, GreatestIn
    <3>3. \A y, j \in Ended(q) : j <= y <=> y >= j
      BY <3>1
    <3>4. \E y \in Ended(q) : \A j \in Ended(q) : y >= j
      BY <3>2, <3>3
    <3>5. m \in Ended(q) /\ \A j \in Ended(q) : m >= j
      BY <3>4 DEF Max
    <3> QED BY <3>3, <3>5
  <2>4. Newest(q, Ended(q)) = q[m]
    BY DEF Newest
  <2> HIDE DEF m
  <2>5. m \in 1..k /\ m \in DOMAIN q /\ Bad(q[m]) /\ x.id = q[m].start
    BY <1>1, <1>6, <1>13, <2>3, <2>4
  <2>6. x.status = "failed"
    BY <1>11, <1>13, <2>5
  <2>7. \A y \in RunsOf(n) : y.at <= x.at
    <3> SUFFICES ASSUME NEW y \in RunsOf(n) PROVE y.at <= x.at
      OBVIOUS
    <3>1. PICK j \in 1..k : StandsFor(y, q[j], Marked(n))
      BY <1>3, <1>7
    <3>2. y.at = q[j].start /\ j <= m
      BY <1>6, <1>13, <2>3, <3>1 DEF StandsFor
    <3>3. x.at = q[m].start
      BY <1>13, <2>2, <2>5 DEF StandsFor
    <3>4. q[j].start <= q[m].start
      BY <1>1, <1>2, <2>5, <3>1, <3>2 DEF History
    <3> QED BY <3>2, <3>3, <3>4
  <2> QED BY <2>1, <2>6, <2>7, <1>13 DEF NewestOf
<1> QED BY <1>1, <1>9, <1>10, <1>12, <1>13

\* The run log counts no run twice across a rename, and a failure in it shows
\* (runlog.go): the newest run failing is "broken", an older one "recovered".
THEOREM TheRunLogIsTrue == HealthSpec => []RunLogTrue
<1>1. HealthInv /\ Recounted => RunLogTrue
  <2> SUFFICES ASSUME HealthInv, Recounted, Load(roster) # <<>>, NEW n \in DOMAIN SummarizeRuns
               PROVE  LET l == SummarizeRuns[n]
                          failed == {i \in DOMAIN runs[n] : Bad(runs[n][i]) /\ [name |-> n, id |-> runs[n][i].start] \in Logged}
                          newest == Newest(runs[n], Ended(runs[n]))
                          hosted == n \in Declared => Decl(n).probe # "launchd_marker"
                      IN /\ l.total <= Cardinality(Ended(runs[n]))
                         /\ hosted /\ failed # {} => l.verdict \in {"broken", "recovered"}
                         /\ hosted /\ l.verdict = "recovered" => ~Bad(newest) \/ newest.start \notin {e.id : e \in RunsOf(n)}
    BY DEF RunLogTrue
  <2>1. SummarizeRuns[n] = summarizeOne(n) /\ \E a \in Declared \cup {e.name : e \in Records} : n = Canonical(a)
    BY DEF SummarizeRuns
  <2>2. PICK a \in Names : n = Canonical(a)
    <3>1. \A e \in Records : e.name \in Names
      BY Remembered DEF HealthInv, Known, Event
    <3> QED BY <2>1, <3>1, Lines DEF HealthInv
  <2>3. n \in Names /\ Canonical(n) = n
    BY <2>2, RenamedAssumption DEF Canonical
  <2>4. (n \in Declared => Decl(n).probe # "launchd_marker") <=> ~Marked(n)
    BY DEF Marked, MarkedIn, Declared, Decl
  <2> QED BY <2>1, <2>3, <2>4, OneLine
<1> QED BY <1>1, HealthInvariance, RecountedInvariance, PTL


-----------------------------------------------------------------------------
(* What a log tells.  Its last line, and its newest "done" line, are those of *)
(* the newest run, and of the newest that got to its end.                     *)
Finished(r) == r.how \notin {"running", "died"}

LEMMA MarkersForm ==
  ASSUME NEW r \in Run
  PROVE  \E b \in Marker : ~b.done /\ Markers(r) = IF Finished(r) THEN <<b, DoneOf(r)>> ELSE <<b>>
<1> DEFINE banner == [at |-> r.start, done |-> FALSE, tally |-> 0]
<1>1. banner \in Marker /\ ~banner.done
  BY SweepBounds DEF Marker, Run
<1>2. Markers(r) = <<banner>> \o IF Finished(r) THEN <<DoneOf(r)>> ELSE <<>>
  BY DEF Markers, Finished, DoneOf
<1> HIDE DEF banner
<1>3. <<banner>> \o <<>> = <<banner>> /\ <<banner>> \o <<DoneOf(r)>> = <<banner, DoneOf(r)>>
  <2>1. <<banner>> \in Seq(Marker)
    BY <1>1
  <2> QED BY <2>1, Two
<1> QED BY <1>1, <1>2, <1>3

LEMMA FlattenBySteps ==
  ASSUME NEW seqs, NEW n \in Nat \ {0}, Len(seqs) = n
  PROVE  \E f : /\ f[n] = FlattenSeq(seqs)
                /\ \A i \in 1..n : f[i] = IF i = 1 THEN seqs[i] ELSE f[i - 1] \o seqs[i]
<1> DEFINE f == CHOOSE f : Laid(seqs, n, f)
<1>1. Laid(seqs, n, f)
  BY LaidExists
<1>2. FlattenSeq(seqs) = f[n]
  BY DEF FlattenSeq, Laid
<1> HIDE DEF f
<1> QED BY <1>1, <1>2 DEF Laid

\* s is the log of the first j runs of q: its last line, its newest "done" line.
LastLine(s, q, j) ==
  /\ Len(s) > 0
  /\ Finished(q[j]) => s[Len(s)] = DoneOf(q[j])
  /\ ~Finished(q[j]) => ~s[Len(s)].done
IsLastDone(s, d) == s[d].done /\ \A e \in 1..Len(s) : s[e].done => e <= d
Shows(s, q, j, d, k) ==
  /\ Finished(q[k]) /\ s[d] = DoneOf(q[k])
  /\ \A x \in 1..j : Finished(q[x]) => x <= k
  /\ d = Len(s) <=> k = j
NewestDone(s, q, j) ==
  \A d \in 1..Len(s) : IsLastDone(s, d) => \E k \in 1..j : Shows(s, q, j, d, k)
Reads(s, q, j) == s \in Seq(Marker) /\ (j > 0 => LastLine(s, q, j)) /\ NewestDone(s, q, j)

LEMMA ReadsMore ==
  ASSUME NEW q \in Seq(Run), NEW j \in Nat, j + 1 \in 1..Len(q), NEW s, Reads(s, q, j)
  PROVE  Reads(s \o Markers(q[j + 1]), q, j + 1)
<1> DEFINE r == q[j + 1]
<1>1. r \in Run
  OBVIOUS
<1> HIDE DEF r
<1>2. PICK b \in Marker : ~b.done /\ Markers(r) = IF Finished(r) THEN <<b, DoneOf(r)>> ELSE <<b>>
  BY <1>1, MarkersForm
<1>3. DoneOf(r) \in Marker /\ DoneOf(r).done
  BY <1>1 DEF DoneOf, Marker, Run
<1>4. PICK l \in Nat : l = Len(s) /\ s \in Seq(Marker)
  BY DEF Reads
<1>5. CASE Finished(r)
  <2> DEFINE t == s \o <<b, DoneOf(r)>>
  <2>1. /\ t \in Seq(Marker) /\ Len(t) = l + 2 /\ t[l + 2] = DoneOf(r)
    <3>1. <<b, DoneOf(r)>> \in Seq(Marker) /\ Len(<<b, DoneOf(r)>>) = 2
      BY <1>2, <1>3
    <3> QED BY <1>4, <3>1
  <2> HIDE DEF t
  <2>2. ASSUME NEW d \in 1..Len(t), IsLastDone(t, d)
        PROVE  d = l + 2
    BY <2>1, <2>2, <1>3, <1>4 DEF IsLastDone
  <2>3. j + 1 \in 1..(j + 1) /\ \A x \in 1..(j + 1) : x <= j + 1
    OBVIOUS
  <2>4. LastLine(t, q, j + 1)
    BY <2>1, <1>4, <1>5 DEF LastLine, r
  <2>5. NewestDone(t, q, j + 1)
    <3> SUFFICES ASSUME NEW d \in 1..Len(t), IsLastDone(t, d)
                 PROVE  Shows(t, q, j + 1, d, j + 1)
      BY <2>3 DEF NewestDone
    <3> QED BY <2>1, <2>2, <2>3, <1>4, <1>5 DEF Shows, r
  <2>6. Reads(t, q, j + 1)
    BY <2>1, <2>4, <2>5 DEF Reads
  <2> QED BY <2>6, <1>2, <1>5 DEF t, r
<1>6. CASE ~Finished(r)
  <2> DEFINE t == s \o <<b>>
  <2>1. /\ t \in Seq(Marker) /\ Len(t) = l + 1 /\ t[l + 1] = b
        /\ \A i \in 1..l : t[i] = s[i]
    BY <1>2, <1>4
  <2> HIDE DEF t
  <2>2. NewestDone(t, q, j + 1)
    <3> SUFFICES ASSUME NEW d \in 1..Len(t), IsLastDone(t, d)
                 PROVE  \E k \in 1..(j + 1) : Shows(t, q, j + 1, d, k)
      BY DEF NewestDone
    <3>1. d \in 1..l /\ s[d].done /\ t[d] = s[d]
      BY <2>1, <1>2, <1>4 DEF IsLastDone
    <3>2. \A e \in 1..l : s[e].done => e <= d
      <4> SUFFICES ASSUME NEW e \in 1..l, s[e].done PROVE e <= d
        OBVIOUS
      <4>1. e \in 1..Len(t) /\ t[e].done
        BY <2>1
      <4> QED BY <4>1 DEF IsLastDone
    <3>3. PICK k \in 1..j : Shows(s, q, j, d, k)
      BY <1>4, <3>1, <3>2 DEF Reads, NewestDone, IsLastDone
    <3>4. k \in 1..(j + 1) /\ k # j + 1 /\ d # Len(t)
      BY <2>1, <3>1
    <3>5. \A x \in 1..(j + 1) : x = j + 1 \/ x \in 1..j
      OBVIOUS
    <3>6. Shows(t, q, j + 1, d, k)
      BY <1>6, <3>1, <3>3, <3>4, <3>5 DEF r, Shows
    <3> QED BY <3>4, <3>6
  <2>3. LastLine(t, q, j + 1)
    BY <2>1, <1>2, <1>4, <1>6 DEF LastLine, r
  <2>4. Reads(t, q, j + 1)
    BY <2>1, <2>2, <2>3 DEF Reads
  <2> QED BY <2>4, <1>2, <1>6 DEF t, r
<1> QED BY <1>5, <1>6

LEMMA WrittenReads ==
  ASSUME NEW q \in Seq(Run)
  PROVE  Reads(Written(q), q, Len(q))
<1>1. PICK n \in Nat : n = Len(q)
  OBVIOUS
<1> DEFINE seqs == [i \in 1..n |-> Markers(q[i])]
<1>2. Written(q) = FlattenSeq(seqs) /\ Len(seqs) = n
  BY <1>1 DEF Written
<1>3. Reads(<<>>, q, 0)
  BY DEF Reads, LastLine, NewestDone, IsLastDone, Shows
<1>4. CASE n = 0
  <2>1. FlattenSeq(seqs) = seqs /\ seqs = <<>>
    BY <1>2, <1>4 DEF FlattenSeq
  <2> QED BY <1>1, <1>2, <1>3, <1>4, <2>1
<1>5. CASE n # 0
  <2>1. n \in Nat \ {0}
    BY <1>5
  <2>2. PICK f : /\ f[n] = FlattenSeq(seqs)
                 /\ \A i \in 1..n : f[i] = IF i = 1 THEN seqs[i] ELSE f[i - 1] \o seqs[i]
    <3> HIDE DEF seqs
    <3> QED BY <1>2, <2>1, FlattenBySteps
  <2>3. \A i \in 1..n : seqs[i] = Markers(q[i])
    OBVIOUS
  <2> HIDE DEF seqs
  <2> DEFINE S == {m \in 1..n : Reads(f[m], q, m)}
  <2>4. 1 \in S
    <3>1. 0 + 1 \in 1..Len(q) /\ 0 + 1 = 1 /\ 1 \in 1..n
      BY <1>1, <2>1
    <3>2. Reads(<<>> \o Markers(q[0 + 1]), q, 0 + 1)
      BY <1>3, <3>1, ReadsMore
    <3>3. f[1] = Markers(q[1])
      BY <2>2, <2>3, <3>1
    <3>4. <<>> \o Markers(q[1]) = Markers(q[1])
      <4>1. q[1] \in Run
        BY <1>1, <3>1
      <4>2. Markers(q[1]) \in Seq(Marker)
        BY <4>1, MarkersAre
      <4> QED BY <4>2
    <3> QED BY <3>1, <3>2, <3>3, <3>4
  <2>5. ASSUME NEW m \in S, m < n
        PROVE  m + 1 \in S
    <3>1. m \in Nat /\ m + 1 \in 1..n /\ m + 1 \in 1..Len(q) /\ m + 1 # 1 /\ (m + 1) - 1 = m /\ Reads(f[m], q, m)
      BY <1>1, <2>5
    <3>2. f[m + 1] = f[m] \o Markers(q[m + 1])
      <4>1. f[m + 1] = IF m + 1 = 1 THEN seqs[m + 1] ELSE f[(m + 1) - 1] \o seqs[m + 1]
        BY <2>2, <3>1
      <4> QED BY <2>3, <3>1, <4>1
    <3>3. Reads(f[m] \o Markers(q[m + 1]), q, m + 1)
      BY <3>1, ReadsMore
    <3> QED BY <3>1, <3>2, <3>3
  <2>6. n \in S
    <3> HIDE DEF S
    <3>1. S \in SUBSET (1..n)
      BY DEF S
    <3> QED BY <2>1, <2>4, <2>5, <3>1, UpTo
  <2> QED BY <1>1, <1>2, <2>2, <2>6
<1> QED BY <1>4, <1>5

\* Whoever reads only the end of a log reads the same of it.
LEMMA TailReads ==
  ASSUME NEW q, NEW j \in Nat, NEW s, Reads(s, q, j), NEW n \in Nat \ {0}
  PROVE  Reads(LastN(s, n), q, j)
<1>1. s \in Seq(Marker)
  BY DEF Reads
<1>2. PICK t : t = LastN(s, n) /\ t \in Seq(Marker)
  BY <1>1, LastFew
<1>3. PICK off \in Nat, l \in Nat : /\ Len(s) = off + l /\ Len(t) = l /\ (Len(s) > 0 => l > 0)
                                  /\ \A i \in 1..l : t[i] = s[off + i]
  BY <1>1, <1>2, TailIs
<1>4. j > 0 => LastLine(t, q, j)
  <2> SUFFICES ASSUME LastLine(s, q, j) PROVE LastLine(t, q, j)
    BY DEF Reads
  <2>1. l \in 1..l /\ l > 0
    BY <1>3 DEF LastLine
  <2>2. t[l] = s[off + l]
    BY <1>3, <2>1
  <2> QED BY <1>3, <2>1, <2>2 DEF LastLine
<1>5. ASSUME NEW d \in 1..l, IsLastDone(t, d)
      PROVE  \E k \in 1..j : Shows(t, q, j, d, k)
  <2>1. off + d \in 1..(off + l) /\ t[d] = s[off + d] /\ (d = l <=> off + d = off + l)
    BY <1>3
  <2>2. ASSUME NEW e \in 1..(off + l), s[e].done PROVE e <= off + d
    <3>1. CASE e <= off
      BY <3>1
    <3>2. CASE ~(e <= off)
      <4>1. PICK i \in 1..l : e = off + i
        <5>1. e - off \in 1..l /\ e = off + (e - off)
          BY <1>3, <3>2
        <5> QED BY <5>1
      <4>2. t[i].done
        BY <1>3, <2>2, <4>1
      <4>3. i <= d
        BY <1>3, <1>5, <4>2 DEF IsLastDone
      <4> QED BY <4>1, <4>3
    <3> QED BY <3>1, <3>2
  <2>3. off + d \in 1..Len(s) /\ IsLastDone(s, off + d)
    BY <1>3, <1>5, <2>1, <2>2 DEF IsLastDone
  <2>4. PICK k \in 1..j : Shows(s, q, j, off + d, k)
    BY <2>3 DEF Reads, NewestDone
  <2>5. Shows(t, q, j, d, k)
    BY <1>3, <2>1, <2>4 DEF Shows
  <2> QED BY <2>5
<1> QED BY <1>2, <1>3, <1>4, <1>5 DEF Reads, NewestDone

LEMMA LogReads ==
  ASSUME NEW q \in Seq(Run)
  PROVE  Reads(allMarkers(q), q, Len(q))
<1>1. Len(q) \in Nat /\ Reads(Written(q), q, Len(q))
  BY WrittenReads
<1> QED BY <1>1, TailReads, LogTailAssumption DEF allMarkers

LEMMA DeliveryIs ==
  ASSUME NEW q \in Seq(Run), readDelivery(allMarkers(q)).found
  PROVE  LET d == readDelivery(allMarkers(q))
         IN \E k \in 1..Len(q) : /\ Finished(q[k]) /\ \A x \in 1..Len(q) : Finished(q[x]) => x <= k
                                 /\ d.at = q[k].end /\ d.tally = IF q[k].how = "failed" THEN 1 ELSE 0
                                 /\ d.unfinished <=> k < Len(q)
<1> DEFINE m == allMarkers(q)
           done == {i \in DOMAIN m : m[i].done}
           top == CHOOSE i \in done : \A j \in done : j <= i
<1>1. Reads(m, q, Len(q)) /\ m \in Seq(Marker)
  BY LogReads, DoneByARun
<1>2. PICK n \in Nat, l \in Nat : n = Len(q) /\ l = Len(m)
  BY <1>1
<1>3. readDelivery(m).found <=> done # {}
  BY DEF readDelivery
<1>4. done # {} => /\ readDelivery(m).at = m[top].at /\ readDelivery(m).tally = m[top].tally
                   /\ readDelivery(m).unfinished <=> top < Len(m)
  BY DEF readDelivery
<1> HIDE DEF m
<1>5. done \in SUBSET (1..l) /\ done # {}
  BY <1>1, <1>2, <1>3 DEF m
<1>6. top \in done /\ \A j \in done : j <= top
  <2>1. \E i \in done : \A j \in done : j <= i
    <3> HIDE DEF done
    <3> QED BY <1>5, GreatestIn
  <2> QED BY <2>1
<1> HIDE DEF top
<1>7. top \in 1..Len(m) /\ m[top].done /\ \A e \in 1..Len(m) : m[e].done => e <= top
  <2>1. DOMAIN m = 1..l
    BY <1>1, <1>2
  <2>2. top \in 1..l /\ m[top].done
    BY <2>1, <1>6
  <2>3. \A e \in 1..l : m[e].done => e \in done
    BY <2>1
  <2> QED BY <2>2, <2>3, <1>2, <1>6
<1> HIDE DEF done
<1>8. PICK k \in 1..n : /\ Finished(q[k]) /\ m[top] = DoneOf(q[k])
                        /\ \A x \in 1..n : Finished(q[x]) => x <= k
                        /\ top = Len(m) <=> k = n
  BY <1>1, <1>2, <1>7 DEF Reads, LastLine, NewestDone, IsLastDone, Shows
<1>9. top < Len(m) <=> k < n
  BY <1>2, <1>7, <1>8
<1> QED BY <1>2, <1>4, <1>5, <1>8, <1>9 DEF DoneOf, m

LEMMA NewestIs ==
  ASSUME NEW q \in Seq(Run), NEW S \in SUBSET (1..Len(q)), S # {}
  PROVE  \E i \in S : Newest(q, S) = q[i] /\ \A j \in S : j <= i
<1>1. PICK n \in Nat : n = Len(q)
  OBVIOUS
<1>2. PICK y \in S : \A j \in S : j <= y
  BY <1>1, GreatestIn
<1>3. \A x, j \in S : j <= x <=> x >= j
  BY <1>1
<1>4. Max(S) \in S /\ \A j \in S : Max(S) >= j
  BY <1>2, <1>3 DEF Max
<1> QED BY <1>3, <1>4 DEF Newest

-----------------------------------------------------------------------------
(* What launchctl said stays good for what it is used for.                    *)

\* If a run was in flight, or the exit was clean, no failure from before the
\* sweep is the newest thing in the log.
StatusTells(s, q, tallies, b) ==
  /\ s.running => \A i \in 1..Len(q) : i = Len(q) /\ q[i].how # "running" => q[i].end >= b
  /\ s.exit = 0 =>
       \A i \in 1..Len(q) :
         /\ q[i].how # "running" /\ q[i].end < b
         /\ \A j \in 1..Len(q) : q[j].how # "running" => j <= i
         => q[i].how # "died" /\ (tallies \/ q[i].how # "failed")

LEMMA StatusIsRead ==
  ASSUME NEW q \in Seq(Run), NEW loaded, NEW tallies \in BOOLEAN, NEW b
  PROVE  StatusTells(launchdStatus(loaded, tallies, q), q, tallies, b)
<1> DEFINE s == launchdStatus(loaded, tallies, q)
<1>1. s.running <=> InFlight(q)
  BY DEF launchdStatus
<1>2. s.exit = ExitCode(tallies, q)
  BY DEF launchdStatus
<1>3. PICK n \in Nat : n = Len(q)
  OBVIOUS
<1>4. InFlight(q) => \A i \in 1..Len(q) : i = Len(q) => q[i].how = "running"
  BY <1>3 DEF InFlight, Last
<1>5. ASSUME ExitCode(tallies, q) = 0, NEW i \in 1..Len(q), q[i].how # "running",
             \A j \in 1..Len(q) : q[j].how # "running" => j <= i
      PROVE  q[i].how # "died" /\ (tallies \/ q[i].how # "failed")
  <2>1. i \in Ended(q) /\ Ended(q) \in SUBSET (1..Len(q))
    BY <1>3, <1>5 DEF Ended
  <2>2. PICK k \in Ended(q) : Newest(q, Ended(q)) = q[k] /\ \A j \in Ended(q) : j <= k
    BY <2>1, NewestIs
  <2>3. k = i
    <3>1. k \in 1..n /\ i \in 1..n /\ i <= k /\ q[k].how # "running"
      BY <1>3, <2>1, <2>2 DEF Ended
    <3>2. k <= i
      BY <1>3, <1>5, <3>1
    <3> QED BY <3>1, <3>2
  <2>4. ~(Newest(q, Ended(q)).how \in {"died"} \cup (IF tallies THEN {} ELSE {"failed"}))
    BY <1>5, <2>1 DEF ExitCode
  <2> QED BY <2>2, <2>3, <2>4
<1> HIDE DEF s
<1>6. StatusTells(s, q, tallies, b)
  BY <1>1, <1>2, <1>4, <1>5 DEF StatusTells
<1> QED BY <1>6 DEF s

LEMMA StatusStands ==
  ASSUME NEW q \in Seq(Run), NEW p \in Seq(Run), NEW t \in Nat, Grown(q, p, t),
         NEW b \in Nat, b <= t, NEW s, NEW tallies, StatusTells(s, q, tallies, b)
  PROVE  StatusTells(s, p, tallies, b)
<1>1. PICK n \in Nat, m \in Nat : n = Len(q) /\ m = Len(p) /\ n <= m
  BY DEF Grown
<1>2. \A i \in 1..m : \/ i \in 1..n /\ p[i] = q[i]
                      \/ i = n + 1 /\ p[i].how = "running" /\ p[i].start = t /\ p[i].end = 0
                      \/ i \in 1..n /\ i = n /\ q[i].how = "running" /\ p[i].how # "running"
                         /\ p[i].start = q[i].start /\ p[i].end = t
  BY <1>1 DEF Grown
<1>3. \A j \in 1..n : j \in 1..m /\ (q[j].how # "running" => p[j] = q[j])
  <2> SUFFICES ASSUME NEW j \in 1..n PROVE j \in 1..m /\ (q[j].how # "running" => p[j] = q[j])
    OBVIOUS
  <2>1. j \in 1..m /\ j # n + 1
    BY <1>1
  <2> QED BY <2>1, <1>2
<1>4. ASSUME s.running, NEW i \in 1..m, i = m, p[i].how # "running"
      PROVE  p[i].end >= b
  <2>1. CASE i \in 1..n /\ p[i] = q[i]
    <3>1. i = n
      BY <1>1, <1>4, <2>1
    <3> QED BY <3>1, <2>1, <1>1, <1>4 DEF StatusTells
  <2>2. CASE p[i].end = t
    BY <2>2
  <2> QED BY <1>2, <1>4, <2>1, <2>2
<1>5. ASSUME s.exit = 0, NEW i \in 1..m, p[i].how # "running", p[i].end < b,
             \A j \in 1..m : p[j].how # "running" => j <= i
      PROVE  p[i].how # "died" /\ (tallies \/ p[i].how # "failed")
  <2>1. i \in 1..n /\ p[i] = q[i]
    <3>1. p[i].end # t
      <4> SUFFICES ASSUME p[i].end = t PROVE FALSE
        OBVIOUS
      <4> QED BY <1>5
    <3> QED BY <3>1, <1>2, <1>5
  <2>2. \A j \in 1..n : q[j].how # "running" => j <= i
    BY <1>3, <1>5
  <2> QED BY <2>1, <2>2, <1>1, <1>5 DEF StatusTells
<1> QED BY <1>1, <1>4, <1>5 DEF StatusTells

-----------------------------------------------------------------------------
(* What a green verdict rests on: what was declared (d), the runs (q), when   *)
(* the sweep began (b) and the probe was made (t), how much of the source     *)
(* answered (reach) and the time shown (l).                                   *)
Github == {"github_delivery_file", "github_newest_file"}

Completing(d, q, k, b, t) ==
  \/ q[k].how = "delivered"
  \/ q[k].how = "failed" /\ d.probe = "launchd_marker"
       /\ (q[k].end >= b \/ \E x \in 1..Len(q) : q[x].start \in q[k].end..t)
  \/ q[k].how = "skipped" /\ d.probe \notin {"spend_snapshot"} \cup Github

Forgiven(d, r, reach) ==
  (r.how = "died" /\ d.probe = "heartbeat") \/ (reach = "partial" /\ d.probe \in Github)

NewestFine(d, q, b, t, reach) ==
  \A i \in 1..Len(q) :
    /\ q[i].start <= t /\ \A j \in 1..Len(q) : q[j].start <= t => j <= i
    /\ q[i].end \in 1..(b - 1) /\ Bad(q[i])
    => Forgiven(d, q[i], reach)

Timed(d, l) == d.probe # "service" /\ ~(d.probe = "systemd_unit" /\ l = 0)

Sound(d, q, b, t, reach, l) ==
  /\ d.probe = "service" => reach = "all"
  /\ d.probe = "systemd_unit" => \E i \in 1..Len(q) : q[i].start <= t
  /\ Timed(d, l) => /\ \E k \in 1..Len(q) : Completing(d, q, k, b, t) /\ q[k].end = l
                    /\ NewestFine(d, q, b, t, reach)

\* The automation goes on: what was sound about the verdict stays so.
LEMMA SoundOn ==
  ASSUME NEW q \in Seq(Run), NEW p \in Seq(Run), NEW now1 \in Nat, Grown(q, p, now1),
         NEW b \in Nat, NEW t \in Nat, b <= t, t <= now1,
         NEW d, NEW reach, NEW l, Sound(d, q, b, t, reach, l)
  PROVE  Sound(d, p, b, t, reach, l)
<1>1. PICK n \in Nat, m \in Nat : n = Len(q) /\ m = Len(p) /\ n <= m
  BY DEF Grown
<1>2. \A i \in 1..m : \/ i \in 1..n /\ p[i] = q[i]
                      \/ i = n + 1 /\ p[i].how = "running"
                      \/ i \in 1..n /\ i = n /\ q[i].how = "running" /\ p[i].start = q[i].start /\ p[i].end = now1
  BY <1>1 DEF Grown
<1>3. \A j \in 1..n : /\ j \in 1..m /\ p[j].start = q[j].start
                      /\ q[j].how # "running" => p[j] = q[j]
  <2> SUFFICES ASSUME NEW j \in 1..n
               PROVE  j \in 1..m /\ p[j].start = q[j].start /\ (q[j].how # "running" => p[j] = q[j])
    OBVIOUS
  <2>1. j \in 1..m /\ j # n + 1
    BY <1>1
  <2> QED BY <2>1, <1>2
<1>4. ASSUME NEW k \in 1..n, Completing(d, q, k, b, t)
      PROVE  p[k] = q[k] /\ Completing(d, p, k, b, t)
  <2>1. p[k] = q[k]
    BY <1>3, <1>4 DEF Completing
  <2>2. (\E x \in 1..n : q[x].start \in q[k].end..t) => \E x \in 1..m : p[x].start \in q[k].end..t
    BY <1>3
  <2> QED BY <2>1, <2>2, <1>1, <1>4 DEF Completing
<1>5. ASSUME NewestFine(d, q, b, t, reach), NEW i \in 1..m, p[i].start <= t,
             \A j \in 1..m : p[j].start <= t => j <= i,
             p[i].end \in 1..(b - 1), Bad(p[i])
      PROVE  Forgiven(d, p[i], reach)
  <2>1. p[i].how # "running"
    BY <1>5 DEF Bad
  <2>2. p[i].end # now1
    <3> SUFFICES ASSUME p[i].end = now1 PROVE FALSE
      OBVIOUS
    <3> QED BY <1>5
  <2>3. i \in 1..n /\ p[i] = q[i]
    BY <1>2, <2>1, <2>2
  <2>4. \A j \in 1..n : q[j].start <= t => j <= i
    <3> SUFFICES ASSUME NEW j \in 1..n, q[j].start <= t PROVE j <= i
      OBVIOUS
    <3>1. j \in 1..m /\ p[j].start <= t
      BY <1>3
    <3> QED BY <3>1, <1>5
  <2> QED BY <2>3, <2>4, <1>1, <1>5 DEF NewestFine
<1>6. NewestFine(d, q, b, t, reach) => NewestFine(d, p, b, t, reach)
  BY <1>1, <1>5 DEF NewestFine
<1>7. (\E i \in 1..n : q[i].start <= t) => \E i \in 1..m : p[i].start <= t
  BY <1>3
<1>8. (\E k \in 1..n : Completing(d, q, k, b, t) /\ q[k].end = l)
        => \E k \in 1..m : Completing(d, p, k, b, t) /\ p[k].end = l
  <2> SUFFICES ASSUME NEW k \in 1..n, Completing(d, q, k, b, t), q[k].end = l
               PROVE  \E j \in 1..m : Completing(d, p, j, b, t) /\ p[j].end = l
    OBVIOUS
  <2>1. k \in 1..m
    BY <1>3
  <2> QED BY <2>1, <1>4
<1> QED BY <1>1, <1>6, <1>7, <1>8 DEF Sound

\* The failure a verdict must not hide: the newest run's, ended before the sweep.
Trouble(q, b) == Len(q) > 0 /\ Bad(q[Len(q)]) /\ q[Len(q)].end < b

LEMMA FineNow ==
  ASSUME NEW q \in Seq(Run), NEW b \in Nat, NEW t \in Nat, \A i \in 1..Len(q) : q[i].start <= t,
         NEW d, NEW reach, Trouble(q, b) => Forgiven(d, q[Len(q)], reach)
  PROVE  NewestFine(d, q, b, t, reach)
<1>1. PICK n \in Nat : n = Len(q)
  OBVIOUS
<1> SUFFICES ASSUME NEW i \in 1..n, \A j \in 1..n : q[j].start <= t => j <= i,
                    q[i].end \in 1..(b - 1), Bad(q[i])
             PROVE  Forgiven(d, q[i], reach)
  BY <1>1 DEF NewestFine
<1>2. n \in 1..n /\ q[n].start <= t
  BY <1>1
<1>3. i = n
  <2>1. n <= i
    BY <1>2
  <2> QED BY <2>1
<1>4. q[i].end < b /\ n > 0
  OBVIOUS
<1> QED BY <1>1, <1>3, <1>4 DEF Trouble

-----------------------------------------------------------------------------
(* Kind by kind: a probe that says "ok" shows the end of a run that it may     *)
(* take for a delivery, and hides no failure it must not.                     *)
Backed(d, q, b, t, l) == \E k \in 1..Len(q) : Completing(d, q, k, b, t) /\ q[k].end = l

LEMMA EndedIs ==
  ASSUME NEW q \in Seq(Run)
  PROVE  /\ Ended(q) = {i \in 1..Len(q) : q[i].how # "running"}
         /\ Delivered(q) = {i \in 1..Len(q) : q[i].how = "delivered"}
         /\ Beats(q) = {i \in 1..Len(q) : q[i].how \notin {"running", "died"}}
BY DEF Ended, Delivered, Beats

\* The newest run is the newest of those of its sort.
LEMMA NewestOfAll ==
  ASSUME NEW q \in Seq(Run), NEW S \in SUBSET (1..Len(q)), Len(q) \in S
  PROVE  Newest(q, S) = q[Len(q)]
<1>1. PICK n \in Nat : n = Len(q)
  OBVIOUS
<1>2. PICK i \in S : Newest(q, S) = q[i] /\ \A j \in S : j <= i
  BY NewestIs
<1>3. i = n
  BY <1>1, <1>2
<1> QED BY <1>1, <1>2, <1>3

LEMMA TroubleEnded ==
  ASSUME NEW q \in Seq(Run), NEW b, Trouble(q, b)
  PROVE  Len(q) \in 1..Len(q) /\ q[Len(q)].how \in {"failed", "died"}
<1>1. PICK n \in Nat : n = Len(q)
  OBVIOUS
<1> QED BY <1>1 DEF Trouble, Bad

LEMMA RunsAre ==
  ASSUME NEW q, History(q)
  PROVE  /\ q \in Seq(Run)
         /\ \A i \in 1..Len(q) :
              /\ q[i].start \in Nat /\ q[i].end \in Nat
              /\ q[i].how \in {"delivered", "skipped", "failed", "died", "running"}
              /\ q[i].how # "running" => q[i].end > 0
<1>1. \A r \in Run : /\ r.start \in Nat /\ r.start > 0 /\ r.end \in Nat
                     /\ r.how \in {"delivered", "skipped", "failed", "died", "running"}
  BY SweepBounds DEF Run, Ends
<1>2. q \in Seq(Run) /\ \A i \in 1..Len(q) : q[i] \in Run
  BY DEF History
<1>3. \A i \in 1..Len(q) : q[i].how # "running" => q[i].start <= q[i].end
  BY DEF History
<1> QED BY <1>1, <1>2, <1>3

LEMMA LocalJobOk ==
  ASSUME NEW status, NEW markers, localJob(status, markers).state = "ok"
  PROVE  LET d == readDelivery(markers)
         IN /\ d.found /\ localJob(status, markers) = Report("ok", d.at)
            /\ IF d.unfinished THEN status.running ELSE status.exit = 0
<1> DEFINE d == readDelivery(markers)
           r == localJob(status, markers)
<1>1. \A s, l : Report(s, l).state = s
  BY DEF Report
<1>2. CASE ~status.loaded
  <2>1. r = Report("down", 0)
    BY <1>2 DEF localJob
  <2> QED BY <1>1, <2>1
<1>3. CASE status.loaded /\ ~d.found
  <2>1. r = Report("unknown", 0)
    BY <1>3 DEF localJob
  <2> QED BY <1>1, <2>1
<1>4. CASE status.loaded /\ d.found /\ d.unfinished
  <2>1. r = Report(IF status.running THEN "ok" ELSE "failing", d.at)
    BY <1>4 DEF localJob
  <2>2. status.running /\ r = Report("ok", d.at)
    <3> HIDE DEF d
    <3> QED BY <1>1, <1>4, <2>1
  <2> QED BY <1>4, <2>2
<1>5. CASE status.loaded /\ d.found /\ ~d.unfinished
  <2>1. r = Report(IF status.exit # 0 THEN "failing" ELSE "ok", d.at)
    BY <1>5 DEF localJob
  <2>2. status.exit = 0 /\ r = Report("ok", d.at)
    <3> HIDE DEF d
    <3> QED BY <1>1, <1>5, <2>1
  <2> QED BY <1>5, <2>2
<1> QED BY <1>2, <1>3, <1>4, <1>5

LEMMA LaunchdOk ==
  ASSUME NEW counts, NEW status, NEW markers, launchdMarker(counts, status, markers).state = "ok"
  PROVE  /\ localJob(status, markers).state = "ok"
         /\ launchdMarker(counts, status, markers) = localJob(status, markers)
         /\ ~(counts /\ readDelivery(markers).tally > 0)
<1>1. PICK s, l : localJob(status, markers) = Report(s, l)
  BY LocalJobSays DEF Says
<1>2. [Report(s, l) EXCEPT !.state = "failing"].state = "failing"
  BY DEF Report
<1> QED BY <1>1, <1>2 DEF launchdMarker

LEMMA LaunchdRight ==
  ASSUME NEW q, History(q), NEW b \in Nat, NEW t \in Nat,
         \A i \in 1..Len(q) : q[i].start <= t,
         NEW d, d.probe = "launchd_marker", NEW counts \in BOOLEAN, NEW status,
         StatusTells(status, q, counts, b),
         launchdMarker(counts, status, allMarkers(q)).state = "ok"
  PROVE  /\ Backed(d, q, b, t, launchdMarker(counts, status, allMarkers(q)).last)
         /\ ~Trouble(q, b)
<1> DEFINE m == allMarkers(q)
           f == readDelivery(m)
<1>1. /\ f.found /\ launchdMarker(counts, status, m).last = f.at
      /\ IF f.unfinished THEN status.running ELSE status.exit = 0
      /\ ~(counts /\ f.tally > 0)
  <2>1. \A s, l : Report(s, l).last = l
    BY DEF Report
  <2> QED BY <2>1, LaunchdOk, LocalJobOk
<1>2. PICK n \in Nat : n = Len(q) /\ q \in Seq(Run)
  BY DEF History
<1>3. PICK k \in 1..n : /\ Finished(q[k]) /\ \A x \in 1..n : Finished(q[x]) => x <= k
                        /\ f.at = q[k].end /\ f.tally = IF q[k].how = "failed" THEN 1 ELSE 0
                        /\ f.unfinished <=> k < n
  BY <1>1, <1>2, DeliveryIs
<1> HIDE DEF f, m
<1>4. /\ \A i \in 1..n : q[i].start \in Nat /\ q[i].end \in Nat
      /\ q[k].how \in {"delivered", "failed", "skipped"}
  BY <1>2, <1>3, RunsAre DEF Finished
<1>5. ASSUME k = n, q[n].how = "failed" PROVE q[n].end >= b
  <2>1. status.exit = 0 /\ ~counts
    BY <1>1, <1>3, <1>5
  <2>2. \A j \in 1..n : q[j].how # "running" => j <= n
    OBVIOUS
  <2>3. ~(q[n].end < b)
    BY <1>2, <1>3, <1>5, <2>1, <2>2 DEF StatusTells
  <2>4. q[n].end \in Nat
    BY <1>4, <1>5
  <2> QED BY <2>3, <2>4
<1>6. k < n => k + 1 \in 1..n /\ q[k + 1].start \in q[k].end..t
  <2> SUFFICES ASSUME k < n PROVE k + 1 \in 1..n /\ q[k + 1].start \in q[k].end..t
    OBVIOUS
  <2>1. k + 1 \in 1..n /\ k < k + 1
    BY <1>2
  <2>2. q[k].end <= q[k + 1].start /\ q[k + 1].start <= t
    BY <1>2, <2>1 DEF History
  <2>3. q[k + 1].start \in Nat /\ q[k].end \in Nat
    BY <1>4, <2>1
  <2> QED BY <2>1, <2>2, <2>3
<1>7. Completing(d, q, k, b, t)
  <2>1. CASE q[k].how = "failed"
    BY <2>1, <1>2, <1>3, <1>5, <1>6 DEF Completing
  <2>2. CASE q[k].how # "failed"
    BY <2>2, <1>4 DEF Completing, Github
  <2> QED BY <2>1, <2>2
<1>8. Trouble(q, b) => FALSE
  <2> SUFFICES ASSUME Trouble(q, b) PROVE FALSE
    OBVIOUS
  <2>1. n \in 1..n /\ q[n].how \in {"failed", "died"} /\ q[n].end < b /\ q[n].end \in Nat
    <3>1. n \in 1..n /\ q[n].how \in {"failed", "died"}
      BY <1>2, TroubleEnded
    <3> QED BY <3>1, <1>2, <1>4 DEF Trouble
  <2>2. CASE k = n
    BY <1>3, <1>5, <2>1, <2>2 DEF Finished
  <2>3. CASE k < n
    <3>1. status.running
      BY <1>1, <1>3, <2>3
    <3>2. q[n].end >= b
      BY <1>2, <2>1, <3>1 DEF StatusTells
    <3> QED BY <2>1, <3>2
  <2> QED BY <1>3, <2>2, <2>3
<1> QED BY <1>1, <1>2, <1>3, <1>7, <1>8 DEF Backed, m
LEMMA SpendRight ==
  ASSUME NEW q, History(q), NEW b \in Nat, NEW t, NEW d, NEW status,
         StatusTells(status, q, FALSE, b), spendSnapshot(status, q).state = "ok"
  PROVE  Backed(d, q, b, t, spendSnapshot(status, q).last) /\ ~Trouble(q, b)
<1> DEFINE v == spendSnapshot(status, q)
<1>1. \A s, l : Report(s, l).state = s /\ Report(s, l).last = l
  BY DEF Report
<1>2. status.loaded /\ Delivered(q) # {} /\ status.exit = 0 /\ v.last = Newest(q, Delivered(q)).end
  <2>1. CASE ~status.loaded
    <3>1. v = Report("down", 0)
      BY <2>1 DEF spendSnapshot
    <3> QED BY <1>1, <3>1
  <2>2. CASE status.loaded /\ Delivered(q) = {}
    <3>1. v = Report("unknown", 0)
      BY <2>2 DEF spendSnapshot
    <3> QED BY <1>1, <3>1
  <2>3. CASE status.loaded /\ Delivered(q) # {}
    <3>1. v = Report(IF status.exit # 0 THEN "failing" ELSE "ok", Newest(q, Delivered(q)).end)
      BY <2>3 DEF spendSnapshot
    <3> QED BY <1>1, <2>3, <3>1
  <2> QED BY <2>1, <2>2, <2>3
<1> HIDE DEF v
<1>3. PICK n \in Nat : n = Len(q) /\ q \in Seq(Run)
  BY DEF History
<1>4. Backed(d, q, b, t, v.last)
  <2>1. Delivered(q) \in SUBSET (1..Len(q)) /\ \A i \in Delivered(q) : i \in 1..Len(q) /\ q[i].how = "delivered"
    BY <1>3, EndedIs
  <2>2. PICK k \in Delivered(q) : Newest(q, Delivered(q)) = q[k]
    BY <1>2, <1>3, <2>1, NewestIs
  <2> QED BY <1>2, <2>1, <2>2 DEF Backed, Completing
<1>5. ASSUME Trouble(q, b) PROVE FALSE
  <2>1. n \in 1..n /\ q[n].how \in {"failed", "died"} /\ q[n].end < b
    BY <1>3, <1>5, TroubleEnded DEF Trouble
  <2> QED BY <1>2, <1>3, <2>1 DEF StatusTells
<1> QED BY <1>4, <1>5 DEF v

LEMMA FieldsRight ==
  ASSUME NEW q, History(q), NEW b, NEW t, NEW d, d.probe = "marker_fields",
         markerFields(allMarkers(q)).state = "ok"
  PROVE  Backed(d, q, b, t, markerFields(allMarkers(q)).last) /\ ~Trouble(q, b)
<1> DEFINE m == allMarkers(q)
<1>1. \A s, l : Report(s, l).state = s /\ Report(s, l).last = l
  BY DEF Report
<1>2. m # <<>> /\ Last(m).done /\ ~(Last(m).tally > 0) /\ markerFields(m).last = Last(m).at
  BY <1>1 DEF markerFields
<1>3. Reads(m, q, Len(q)) /\ m \in Seq(Marker)
  BY LogReads, DoneByARun DEF History
<1> HIDE DEF m
<1>4. PICK n \in Nat, l \in Nat : n = Len(q) /\ l = Len(m) /\ q \in Seq(Run)
  BY <1>3 DEF History
<1>5. l \in 1..l /\ Last(m) = m[l] /\ m[l].done
  BY <1>2, <1>3, <1>4 DEF Last
<1>6. PICK k \in 1..n : Finished(q[k]) /\ m[l] = DoneOf(q[k]) /\ k = n
  <2>1. \A e \in 1..l : m[e].done => e <= l
    OBVIOUS
  <2> QED BY <1>3, <1>4, <1>5, <2>1 DEF Reads, LastLine, NewestDone, IsLastDone, Shows
<1>7. DoneOf(q[k]).at = q[k].end /\ (q[k].how = "failed" => DoneOf(q[k]).tally > 0)
  BY DEF DoneOf
<1>8. q[k].how \in {"delivered", "skipped"}
  BY <1>2, <1>4, <1>5, <1>6, <1>7, RunsAre DEF Finished
<1>9. Completing(d, q, k, b, t) /\ q[k].end = Last(m).at
  BY <1>5, <1>6, <1>7, <1>8 DEF Completing, Github
<1>10. ASSUME Trouble(q, b) PROVE FALSE
  BY <1>4, <1>6, <1>8, <1>10, TroubleEnded
<1> QED BY <1>2, <1>4, <1>9, <1>10 DEF Backed, m

\* The newest run that ended did not fail.
LEMMA EndedWell ==
  ASSUME NEW q, History(q), Ended(q) # {}, Newest(q, Ended(q)).how \notin {"failed", "died"}
  PROVE  /\ \E k \in 1..Len(q) : /\ Newest(q, Ended(q)) = q[k] /\ q[k].how \in {"delivered", "skipped"}
                                 /\ q[k].end > 0
                                 /\ \A j \in 1..Len(q) : q[j].how # "running" => j <= k
         /\ \A b : ~Trouble(q, b)
<1>1. PICK n \in Nat : n = Len(q) /\ q \in Seq(Run)
  BY DEF History
<1>2. Ended(q) = {i \in 1..n : q[i].how # "running"}
  BY <1>1, EndedIs
<1>3. PICK k \in Ended(q) : Newest(q, Ended(q)) = q[k] /\ \A j \in Ended(q) : j <= k
  BY <1>1, <1>2, NewestIs
<1>4. q[k].how \in {"delivered", "skipped"} /\ q[k].end > 0
  BY <1>1, <1>2, <1>3, RunsAre
<1>5. ASSUME NEW b, Trouble(q, b) PROVE FALSE
  <2>1. n \in 1..n /\ q[n].how \in {"failed", "died"}
    BY <1>1, <1>5, TroubleEnded
  <2>2. n \in Ended(q)
    BY <1>2, <2>1
  <2> QED BY <1>1, <1>2, <2>1, <2>2, NewestOfAll
<1> QED BY <1>1, <1>2, <1>3, <1>4, <1>5

LEMMA UnitRight ==
  ASSUME NEW q, History(q), NEW b, NEW t, \A i \in 1..Len(q) : q[i].start <= t,
         NEW d, d.probe = "systemd_unit", NEW loaded, NEW withLog,
         systemdUnit(loaded, withLog, q).state = "ok"
  PROVE  /\ \E i \in 1..Len(q) : q[i].start <= t
         /\ systemdUnit(loaded, withLog, q).last # 0 =>
              Backed(d, q, b, t, systemdUnit(loaded, withLog, q).last) /\ ~Trouble(q, b)
<1> DEFINE v == systemdUnit(loaded, withLog, q)
           newest == Newest(q, Ended(q))
           f == readDelivery(allMarkers(q))
<1>1. \A s, l : Report(s, l).state = s /\ Report(s, l).last = l
  BY DEF Report
<1>2. PICK n \in Nat : n = Len(q) /\ q \in Seq(Run)
  BY DEF History
<1>3. CASE ~loaded
  <2>1. v = Report("down", 0)
    BY <1>3 DEF systemdUnit
  <2> QED BY <1>1, <2>1
<1>4. CASE loaded /\ Ended(q) = {}
  <2>1. v = Report(IF InFlight(q) THEN "ok" ELSE "unknown", 0)
    BY <1>4 DEF systemdUnit
  <2>2. InFlight(q) /\ v.last = 0
    BY <1>1, <2>1
  <2>3. n \in 1..n
    BY <1>2, <2>2 DEF InFlight
  <2> QED BY <1>2, <2>2, <2>3
<1>5. CASE loaded /\ Ended(q) # {} /\ newest.how \in {"failed", "died"}
  <2>1. v = Report("failing", newest.end)
    BY <1>5 DEF systemdUnit
  <2> HIDE DEF v
  <2>2. v.state = "failing"
    BY <1>1, <2>1
  <2> QED BY <2>2 DEF v
<1>6. CASE loaded /\ Ended(q) # {} /\ newest.how \notin {"failed", "died"}
  <2>1. v = IF ~withLog THEN Report("ok", newest.end)
            ELSE IF ~f.found THEN Report("unknown", newest.end) ELSE Report("ok", f.at)
    BY <1>6 DEF systemdUnit
  <2>2. v.last = newest.end \/ (f.found /\ v.last = f.at)
    <3> HIDE DEF v, f, newest
    <3>1. CASE ~withLog
      BY <1>1, <2>1, <3>1
    <3>2. CASE withLog /\ ~f.found
      <4>1. v.last = newest.end
        BY <1>1, <2>1, <3>2
      <4> QED BY <4>1
    <3>3. CASE withLog /\ f.found
      BY <1>1, <2>1, <3>3
    <3> QED BY <3>1, <3>2, <3>3
  <2>3. PICK k \in 1..n : newest = q[k] /\ q[k].how \in {"delivered", "skipped"}
                          /\ \A j \in 1..n : q[j].how # "running" => j <= k
    BY <1>2, <1>6, EndedWell
  <2>4. f.found => f.at = q[k].end
    <3> SUFFICES ASSUME f.found PROVE f.at = q[k].end
      OBVIOUS
    <3>1. PICK x \in 1..n : Finished(q[x]) /\ (\A y \in 1..n : Finished(q[y]) => y <= x) /\ f.at = q[x].end
      BY <1>2, DeliveryIs
    <3>2. x = k
      <4>1. Finished(q[k]) /\ q[x].how # "running"
        BY <2>3, <3>1 DEF Finished
      <4>2. k <= x /\ x <= k
        BY <2>3, <3>1, <4>1
      <4> QED BY <4>2
    <3> QED BY <3>1, <3>2
  <2>5. v.last = q[k].end
    BY <2>2, <2>3, <2>4
  <2>6. Completing(d, q, k, b, t)
    BY <2>3 DEF Completing, Github
  <2>7. ~Trouble(q, b)
    BY <1>6, EndedWell
  <2> HIDE DEF v, newest, f
  <2> QED BY <1>2, <2>5, <2>6, <2>7 DEF Backed, v
<1> QED BY <1>3, <1>4, <1>5, <1>6

LEMMA GithubRight ==
  ASSUME NEW q, History(q), NEW b, NEW t, NEW d, NEW reach \in {"none", "partial", "all"},
         d.probe \in Github, githubFile(reach, q).state = "ok"
  PROVE  /\ Backed(d, q, b, t, githubFile(reach, q).last)
         /\ Trouble(q, b) => Forgiven(d, q[Len(q)], reach)
<1>1. \A s, l : Report(s, l).state = s /\ Report(s, l).last = l
  BY DEF Report
<1>2. /\ reach # "none" /\ Delivered(q) # {} /\ ~(reach = "all" /\ failureNote(q))
      /\ githubFile(reach, q).last = Newest(q, Delivered(q)).end
  <2>1. CASE reach = "none" \/ Delivered(q) = {}
    <3>1. githubFile(reach, q) = Report("error", 0)
      BY <2>1 DEF githubFile, ProbeError
    <3> QED BY <1>1, <3>1
  <2>2. CASE ~(reach = "none" \/ Delivered(q) = {})
    <3>1. githubFile(reach, q) = Report(IF reach = "all" /\ failureNote(q) THEN "failing" ELSE "ok",
                                        Newest(q, Delivered(q)).end)
      BY <2>2 DEF githubFile
    <3> QED BY <1>1, <2>2, <3>1
  <2> QED BY <2>1, <2>2
<1>3. PICK n \in Nat : n = Len(q) /\ q \in Seq(Run)
  BY DEF History
<1>4. Backed(d, q, b, t, githubFile(reach, q).last)
  <2>1. Delivered(q) \in SUBSET (1..Len(q)) /\ \A i \in Delivered(q) : i \in 1..Len(q) /\ q[i].how = "delivered"
    BY <1>3, EndedIs
  <2>2. PICK k \in Delivered(q) : Newest(q, Delivered(q)) = q[k]
    BY <1>2, <1>3, <2>1, NewestIs
  <2> QED BY <1>2, <2>1, <2>2 DEF Backed, Completing
<1>5. ASSUME Trouble(q, b), reach = "all" PROVE FALSE
  <2>1. ~failureNote(q)
    BY <1>2, <1>5
  <2>2. n \in 1..n /\ q[n].how \in {"failed", "died"}
    BY <1>3, <1>5, TroubleEnded
  <2>3. Ended(q) # {}
    BY <1>3, <2>2, EndedIs
  <2> QED BY <1>5, <2>1, <2>3, EndedWell DEF failureNote
<1> QED BY <1>2, <1>4, <1>5 DEF Forgiven

LEMMA N8nRight ==
  ASSUME NEW q, History(q), NEW b, NEW t, NEW d, NEW reach \in {"none", "partial", "all"},
         d.probe = "n8n", n8nPipeline(reach, q).state = "ok"
  PROVE  Backed(d, q, b, t, n8nPipeline(reach, q).last) /\ ~Trouble(q, b)
<1> DEFINE newest == Newest(q, Ended(q))
<1>1. \A s, l : Report(s, l).state = s /\ Report(s, l).last = l
  BY DEF Report
<1>2. reach = "all" /\ Ended(q) # {} /\ newest.how \notin {"failed", "died"}
      /\ n8nPipeline(reach, q).last = newest.end
  <2>1. CASE reach # "all" \/ Ended(q) = {}
    <3>1. n8nPipeline(reach, q) \in {Report("down", 0), Report("unknown", 0)}
      BY <2>1 DEF n8nPipeline
    <3> QED BY <1>1, <3>1
  <2>2. CASE reach = "all" /\ Ended(q) # {}
    <3>1. n8nPipeline(reach, q) = Report(IF newest.how \in {"failed", "died"} THEN "failing" ELSE "ok", newest.end)
      BY <2>2 DEF n8nPipeline
    <3> HIDE DEF newest
    <3> QED BY <1>1, <2>2, <3>1
  <2> QED BY <2>1, <2>2
<1>3. PICK n \in Nat : n = Len(q) /\ q \in Seq(Run)
  BY DEF History
<1>4. PICK k \in 1..n : newest = q[k] /\ q[k].how \in {"delivered", "skipped"}
  BY <1>2, <1>3, EndedWell
<1>5. Completing(d, q, k, b, t)
  BY <1>4 DEF Completing, Github
<1>6. ~Trouble(q, b)
  BY <1>2, EndedWell
<1> QED BY <1>2, <1>3, <1>4, <1>5, <1>6 DEF Backed

LEMMA HeartbeatRight ==
  ASSUME NEW q, History(q), NEW b, NEW t, NEW d, NEW reach,
         d.probe = "heartbeat", heartbeat(q).state = "ok"
  PROVE  /\ Backed(d, q, b, t, heartbeat(q).last)
         /\ Trouble(q, b) => Forgiven(d, q[Len(q)], reach)
<1> DEFINE newest == Newest(q, Beats(q))
<1>1. \A s, l : Report(s, l).state = s /\ Report(s, l).last = l
  BY DEF Report
<1>2. Beats(q) # {} /\ newest.how # "failed" /\ heartbeat(q).last = newest.end
  <2>1. CASE Beats(q) = {}
    <3>1. heartbeat(q) = Report("unknown", 0)
      BY <2>1 DEF heartbeat
    <3> QED BY <1>1, <3>1
  <2>2. CASE Beats(q) # {}
    <3>1. heartbeat(q) = Report(IF newest.how = "failed" THEN "failing" ELSE "ok", newest.end)
      BY <2>2 DEF heartbeat
    <3> HIDE DEF newest
    <3> QED BY <1>1, <2>2, <3>1
  <2> QED BY <2>1, <2>2
<1>3. PICK n \in Nat : n = Len(q) /\ q \in Seq(Run)
  BY DEF History
<1>4. Beats(q) = {i \in 1..n : q[i].how \notin {"running", "died"}}
  BY <1>3, EndedIs
<1>5. PICK k \in Beats(q) : newest = q[k]
  BY <1>2, <1>3, <1>4, NewestIs
<1>6. k \in 1..n /\ q[k].how \in {"delivered", "skipped"}
  BY <1>2, <1>3, <1>4, <1>5, RunsAre
<1>7. Completing(d, q, k, b, t)
  BY <1>6 DEF Completing, Github
<1>8. ASSUME Trouble(q, b) PROVE q[n].how = "died"
  <2>1. n \in 1..n /\ q[n].how \in {"failed", "died"}
    BY <1>3, <1>8, TroubleEnded
  <2>2. ASSUME q[n].how = "failed" PROVE FALSE
    <3>1. n \in Beats(q)
      BY <1>4, <2>1, <2>2
    <3> QED BY <1>2, <1>3, <1>4, <2>2, <3>1, NewestOfAll
  <2> QED BY <2>1, <2>2
<1> QED BY <1>2, <1>3, <1>5, <1>6, <1>7, <1>8 DEF Backed, Forgiven
LEMMA ServiceRight ==
  ASSUME NEW loopback, NEW held, NEW reach,
         service(loopback, TRUE, held, IF reach = "all" THEN {"wifi"} ELSE {}).state = "ok"
  PROVE  reach = "all"
<1>1. \A s, l : Report(s, l).state = s
  BY DEF Report
<1> SUFFICES ASSUME reach # "all" PROVE FALSE
  OBVIOUS
<1>2. service(loopback, TRUE, held, {}).state = "ok"
  OBVIOUS
<1>3. service(loopback, TRUE, held, {}) = Report("down", 0)
  <2>1. serviceOnLoopback(TRUE, FALSE) = Report("down", 0)
    BY DEF serviceOnLoopback
  <2>2. serviceOnTailnet(TRUE, held, {}) = Report("down", 0)
    BY DEF serviceOnTailnet
  <2>3. service(loopback, TRUE, held, {})
          = IF loopback THEN serviceOnLoopback(TRUE, FALSE) ELSE serviceOnTailnet(TRUE, held, {})
    BY DEF service
  <2> QED BY <2>1, <2>2, <2>3
<1>4. Report("down", 0).state = "down"
  BY <1>1
<1>5. service(loopback, TRUE, held, {}).state = "down"
  BY <1>3, <1>4
<1> QED BY <1>2, <1>5

\* A roster that loads declares only kinds of probe there are.
LEMMA KindsOnly ==
  ASSUME Load(roster) # <<>>, NEW a \in Declared
  PROVE  Decl(a).probe \in Kinds
<1>1. \E i \in DOMAIN roster : roster[i].name = a
  BY DEF Declared
<1>2. PICK i \in DOMAIN roster : Decl(a) = roster[i]
  BY <1>1 DEF Decl, LineOf
<1>3. ~Problem(roster, i)
  BY DEF Load
<1> QED BY <1>2, <1>3 DEF Problem

Allowing(d, l, t) == l # 0 => ~(t - l > Allowed(d))

\* An "ok" the sweep lets stand is the probe's, and not too old.
LEMMA JudgedOk ==
  ASSUME NEW d, NEW r, Says(r), NEW t, Judged(d, r, t).state = "ok"
  PROVE  r.state = "ok" /\ Judged(d, r, t).last = r.last /\ Allowing(d, r.last, t)
<1>1. PICK s, l : r = Report(s, l) /\ s \in States \cup {"error"}
  BY DEF Says
<1>2. r.state = s /\ r.last = l
  BY <1>1 DEF Report
<1>3. [r EXCEPT !.state = "late"].state = "late" /\ Report("unknown", r.last).state = "unknown"
  BY <1>1 DEF Report
<1>4. CASE r.state = "error"
  <2>1. Judged(d, r, t) = Report("unknown", r.last)
    BY <1>4 DEF Judged
  <2> QED BY <1>3, <2>1
<1>5. CASE r.state = "ok" /\ r.last # 0 /\ t - r.last > Allowed(d)
  <2>1. Judged(d, r, t) = [r EXCEPT !.state = "late"]
    BY <1>5 DEF Judged
  <2> QED BY <1>3, <2>1
<1>6. CASE r.state # "error" /\ ~(r.state = "ok" /\ r.last # 0 /\ t - r.last > Allowed(d))
  <2>1. Judged(d, r, t) = r
    BY <1>6 DEF Judged
  <2>2. r.state = "ok"
    BY <2>1
  <2> QED BY <1>6, <2>1, <2>2 DEF Allowing
<1> QED BY <1>4, <1>5, <1>6

\* Whatever the kind: a verdict of "ok" is sound when it is reached.
LEMMA VerdictRight ==
  ASSUME NEW a, NEW reach \in {"none", "partial", "all"}, NEW q, q = runs[a], History(q),
         NEW b \in Nat, NEW t \in Nat, \A i \in 1..Len(q) : q[i].start <= t,
         NEW d, d = Decl(a), d.probe \in Kinds,
         NEW s, d.probe \in Launchd => StatusTells(s, q, Tallies(a), b),
         Verdict(a, s, reach).state = "ok"
  PROVE  Sound(d, q, b, t, reach, Verdict(a, s, reach).last)
<1> DEFINE v == Verdict(a, s, reach)
<1>1. ProbeError.state # "ok"
  BY DEF ProbeError, Report
<1>2. q \in Seq(Run)
  BY DEF History
<1>3. ASSUME d.probe # "service", d.probe # "systemd_unit", Backed(d, q, b, t, v.last),
             Trouble(q, b) => Forgiven(d, q[Len(q)], reach)
      PROVE  Sound(d, q, b, t, reach, v.last)
  <2> HIDE DEF v
  <2>1. NewestFine(d, q, b, t, reach)
    BY <1>2, <1>3, FineNow
  <2> QED BY <1>3, <2>1 DEF Sound, Backed
<1>4. CASE d.probe = "launchd_marker"
  <2> DEFINE counts == "counts" \in d.with
  <2>1. reach # "none"
    <3> SUFFICES ASSUME reach = "none" PROVE FALSE
      OBVIOUS
    <3>1. v = ProbeError
      BY <1>4 DEF Verdict, Launchd
    <3> QED BY <1>1, <3>1
  <2>2. v = launchdMarker(counts, s, allMarkers(q))
    BY <1>4, <2>1 DEF Verdict, Launchd
  <2>3. StatusTells(s, q, counts, b) /\ counts \in BOOLEAN
    BY <1>4 DEF Tallies, Launchd
  <2> HIDE DEF v, counts
  <2>4. launchdMarker(counts, s, allMarkers(q)).state = "ok"
    BY <2>2 DEF v
  <2> QED BY <1>3, <1>4, <2>2, <2>3, <2>4, LaunchdRight DEF v
<1>5. CASE d.probe = "spend_snapshot"
  <2>1. reach # "none"
    <3> SUFFICES ASSUME reach = "none" PROVE FALSE
      OBVIOUS
    <3>1. v = ProbeError
      BY <1>5 DEF Verdict, Launchd
    <3> QED BY <1>1, <3>1
  <2>2. v = spendSnapshot(s, q)
    BY <1>5, <2>1 DEF Verdict, Launchd
  <2>3. StatusTells(s, q, FALSE, b)
    <3>1. Tallies(a) = FALSE
      BY <1>5 DEF Tallies
    <3> QED BY <1>5, <3>1 DEF Launchd
  <2> HIDE DEF v
  <2>4. spendSnapshot(s, q).state = "ok"
    BY <2>2 DEF v
  <2> QED BY <1>3, <1>5, <2>2, <2>3, <2>4, SpendRight DEF v
<1>6. CASE d.probe = "systemd_unit"
  <2> DEFINE loaded == reach = "all"
             withLog == "log" \in d.with
  <2>1. reach # "none"
    <3> SUFFICES ASSUME reach = "none" PROVE FALSE
      OBVIOUS
    <3>1. v = ProbeError
      BY <1>6 DEF Verdict, Launchd
    <3> QED BY <1>1, <3>1
  <2>2. v = systemdUnit(loaded, withLog, q)
    BY <1>6, <2>1 DEF Verdict, Launchd
  <2> HIDE DEF v, loaded, withLog
  <2>3. systemdUnit(loaded, withLog, q).state = "ok"
    BY <2>2 DEF v
  <2>4. /\ \E i \in 1..Len(q) : q[i].start <= t
        /\ v.last # 0 => Backed(d, q, b, t, v.last) /\ ~Trouble(q, b)
    BY <1>6, <2>2, <2>3, UnitRight
  <2>5. v.last # 0 => NewestFine(d, q, b, t, reach)
    BY <1>2, <2>4, FineNow
  <2> QED BY <1>6, <2>4, <2>5 DEF Sound, Timed, Backed, v
<1>7. CASE d.probe = "marker_fields"
  <2>1. v = markerFields(allMarkers(q))
    BY <1>7 DEF Verdict, Launchd
  <2> HIDE DEF v
  <2>2. markerFields(allMarkers(q)).state = "ok"
    BY <2>1 DEF v
  <2> QED BY <1>3, <1>7, <2>1, <2>2, FieldsRight DEF v
<1>8. CASE d.probe = "service"
  <2> DEFINE held == IF reach = "none" THEN {} ELSE Interfaces
             loopback == "loopback" \in d.with
  <2>1. v = service(loopback, TRUE, held, IF reach = "all" THEN {"wifi"} ELSE {})
    BY <1>8 DEF Verdict, Launchd
  <2> HIDE DEF v, held, loopback
  <2>2. service(loopback, TRUE, held, IF reach = "all" THEN {"wifi"} ELSE {}).state = "ok"
    BY <2>1 DEF v
  <2>3. reach = "all"
    BY <2>2, ServiceRight
  <2> QED BY <1>8, <2>3 DEF Sound, Timed
<1>9. CASE d.probe \in Github
  <2>1. v = githubFile(reach, q)
    BY <1>9 DEF Verdict, Launchd, Github
  <2> HIDE DEF v
  <2>2. githubFile(reach, q).state = "ok"
    BY <2>1 DEF v
  <2>3. d.probe # "service" /\ d.probe # "systemd_unit"
    BY <1>9 DEF Github
  <2> QED BY <1>3, <1>9, <2>1, <2>2, <2>3, GithubRight DEF v
<1>10. CASE d.probe = "n8n"
  <2>1. v = n8nPipeline(reach, q)
    BY <1>10 DEF Verdict, Launchd
  <2> HIDE DEF v
  <2>2. n8nPipeline(reach, q).state = "ok"
    BY <2>1 DEF v
  <2> QED BY <1>3, <1>10, <2>1, <2>2, N8nRight DEF v
<1>11. CASE d.probe = "heartbeat"
  <2>1. v = heartbeat(q)
    BY <1>11 DEF Verdict, Launchd
  <2> HIDE DEF v
  <2>2. heartbeat(q).state = "ok"
    BY <2>1 DEF v
  <2> QED BY <1>3, <1>11, <2>1, <2>2, HeartbeatRight DEF v
<1> QED BY <1>4, <1>5, <1>6, <1>7, <1>8, <1>9, <1>10, <1>11 DEF Kinds, Github

-----------------------------------------------------------------------------
(* The second invariant: what each sweep has read, and what it has said, is    *)
(* true of the runs as they are now.                                          *)
OnTime(q, t) == \A i \in 1..Len(q) : q[i].start <= t /\ q[i].end <= t
Timely == \A a \in Names : OnTime(runs[a], now)

Good(d, q, v) == Sound(d, q, v.began, v.at, v.reach, v.last) /\ Allowing(d, v.last, v.at)

ReadRight(w) ==
  \A a \in DOMAIN w.status : a \in Declared /\ StatusTells(w.status[a], runs[a], Tallies(a), w.began)
SaidRight(w) ==
  \A a \in DOMAIN w.reports :
    LET v == w.reports[a]
    IN /\ v.began = w.began /\ v.at \in v.began..now
       /\ v.state = "ok" => Good(Decl(a), runs[a], v)
Founded(w) == w.step \in {"probe", "record"} => w.began \in 1..now /\ ReadRight(w) /\ SaidRight(w)
Grounded == \A job \in Jobs : Founded(sweep[job])

GroundedInv == HealthInv /\ Timely /\ Grounded

LEMMA OnTimeOn ==
  ASSUME NEW q \in Seq(Run), NEW p \in Seq(Run), NEW t \in Nat, Grown(q, p, t), OnTime(q, t),
         NEW u \in Nat, t <= u
  PROVE  OnTime(p, u)
<1>1. PICK n \in Nat, m \in Nat : n = Len(q) /\ m = Len(p)
  OBVIOUS
<1>2. \A r \in Run : r.start \in Nat /\ r.end \in Nat
  BY SweepBounds DEF Run
<1>3. \A i \in 1..n : q[i].start \in Nat /\ q[i].end \in Nat /\ q[i].start <= t /\ q[i].end <= t
  <2>1. \A i \in 1..n : q[i] \in Run
    BY <1>1
  <2> QED BY <1>1, <1>2, <2>1 DEF OnTime
<1>4. \A i \in 1..m : p[i].start <= t /\ p[i].end <= t /\ p[i].start \in Nat /\ p[i].end \in Nat
  <2> SUFFICES ASSUME NEW i \in 1..m
               PROVE  p[i].start <= t /\ p[i].end <= t /\ p[i].start \in Nat /\ p[i].end \in Nat
    OBVIOUS
  <2>1. \/ i \in 1..n /\ p[i] = q[i]
        \/ p[i].start = t /\ p[i].end = 0
        \/ i \in 1..n /\ p[i].start = q[i].start /\ p[i].end = t
    BY <1>1 DEF Grown
  <2> QED BY <1>3, <2>1
<1> QED BY <1>1, <1>4 DEF OnTime

LEMMA InitGrounded == HealthInit => Timely /\ Grounded
<1> SUFFICES ASSUME HealthInit PROVE Timely /\ Grounded
  OBVIOUS
<1>1. PICK s \in Setups : runs = s.runs /\ now = s.now
  BY DEF HealthInit
<1>2. /\ s.now \in 1..MaxTime /\ s.runs \in [Names -> Seq(Run)]
      /\ \A a \in Names : History(s.runs[a])
      /\ \A a \in Names : \A i \in DOMAIN s.runs[a] : s.runs[a][i].how # "running" /\ s.runs[a][i].end < s.now
  BY SetupsAssumption
<1>3. ASSUME NEW a \in Names PROVE OnTime(runs[a], now)
  <2>1. PICK q \in Seq(Run) : q = s.runs[a] /\ History(q)
    BY <1>2
  <2>2. PICK n \in Nat : n = Len(q) /\ DOMAIN q = 1..n
    BY <2>1
  <2>3. now \in Nat
    BY <1>1, <1>2, SweepBounds
  <2>4. ASSUME NEW i \in 1..n PROVE q[i].start <= now /\ q[i].end <= now
    <3>1. q[i].start \in Nat /\ q[i].end \in Nat
      BY <2>1, <2>2, RunsAre
    <3>2. q[i].how # "running" /\ q[i].end < now
      BY <1>1, <1>2, <2>1, <2>2
    <3>3. q[i].start <= q[i].end
      BY <2>1, <2>2, <3>2 DEF History
    <3> QED BY <2>3, <3>1, <3>2, <3>3
  <2> QED BY <1>1, <2>1, <2>2, <2>4 DEF OnTime
<1>4. \A job \in Jobs : sweep[job].step = "idle"
  BY DEF HealthInit, NoSweep
<1> QED BY <1>3, <1>4 DEF Timely, Grounded, Founded

LEMMA TimelyStep ==
  ASSUME HealthInv, HealthInv', Timely, [HealthNext]_healthVars
  PROVE  Timely'
<1>1. /\ \A b \in Names : Grown(runs[b], runs'[b], now)
      /\ now \in Nat /\ now <= now' /\ now' \in Nat
  BY RunsGoOn
<1>2. \A b \in Names : runs[b] \in Seq(Run) /\ runs'[b] \in Seq(Run)
  BY DEF HealthInv, World
<1>3. ASSUME NEW b \in Names PROVE OnTime(runs'[b], now')
  BY <1>1, <1>2, OnTimeOn DEF Timely
<1> QED BY <1>3 DEF Timely, OnTime

\* Where a sweep stands still, the runs go on, and what it holds stays true.
LEMMA FoundedOn ==
  ASSUME HealthInv, HealthInv', [HealthNext]_healthVars, NEW v, Along(v), Founded(v)
  PROVE  Founded(v)'
<1> SUFFICES ASSUME v.step \in {"probe", "record"}
             PROVE  v.began \in 1..now' /\ ReadRight(v)' /\ SaidRight(v)'
  BY DEF Founded
<1>1. /\ \A b \in Names : Grown(runs[b], runs'[b], now)
      /\ roster' = roster /\ now \in Nat /\ now <= now' /\ now' \in Nat
  BY RunsGoOn
<1>2. \A b \in Names : runs[b] \in Seq(Run) /\ runs'[b] \in Seq(Run)
  BY DEF HealthInv, World
<1>3. Declared' = Declared /\ Declared \subseteq Names /\ \A a : Decl(a)' = Decl(a) /\ Tallies(a)' = Tallies(a)
  BY <1>1, Same, Lines DEF HealthInv, Tallies
<1>4. PICK b \in Nat : b = v.began /\ b \in 1..now /\ b <= now
  BY <1>1 DEF Founded
<1>5. ASSUME NEW a \in DOMAIN v.status
      PROVE  a \in Declared /\ StatusTells(v.status[a], runs'[a], Tallies(a), b)
  <2>1. a \in Declared /\ StatusTells(v.status[a], runs[a], Tallies(a), b)
    BY <1>4, <1>5 DEF Founded, ReadRight
  <2>2. a \in Names
    BY <1>3, <2>1
  <2> QED BY <1>1, <1>2, <1>4, <2>1, <2>2, StatusStands
<1>6. ASSUME NEW a \in DOMAIN v.reports, NEW x, x = v.reports[a]
      PROVE  x.began = b /\ x.at \in b..now' /\ (x.state = "ok" => Good(Decl(a), runs'[a], x))
  <2>1. x.began = b /\ x.at \in b..now /\ (x.state = "ok" => Good(Decl(a), runs[a], x))
    BY <1>4, <1>6 DEF Founded, SaidRight
  <2>2. a \in Names
    BY <1>3, <1>6 DEF Along
  <2>3. x.at \in Nat /\ b <= x.at /\ x.at <= now /\ x.at <= now'
    BY <1>1, <1>4, <2>1
  <2>4. x.state = "ok" => Good(Decl(a), runs'[a], x)
    BY <1>1, <1>2, <2>1, <2>2, <2>3, SoundOn DEF Good
  <2> QED BY <1>1, <2>1, <2>3, <2>4
<1>7. ReadRight(v)'
  BY <1>3, <1>4, <1>5 DEF ReadRight
<1>8. SaidRight(v)'
  BY <1>3, <1>4, <1>6 DEF SaidRight
<1> QED BY <1>1, <1>4, <1>7, <1>8

LEMMA GroundedOn ==
  ASSUME HealthInv, HealthInv', [HealthNext]_healthVars, Grounded, UNCHANGED sweep
  PROVE  Grounded'
<1> SUFFICES ASSUME NEW job \in Jobs PROVE Founded(sweep[job])'
  BY DEF Grounded
<1>1. PICK v : v = sweep[job]
  OBVIOUS
<1>2. Along(v) /\ Founded(v) /\ v = sweep'[job]
  BY <1>1 DEF HealthInv, Swept, Grounded
<1>3. Founded(v)'
  BY <1>2, FoundedOn
<1> QED BY <1>2, <1>3 DEF Founded, ReadRight, SaidRight

\* One sweep goes on, and what it now holds is true.
LEMMA GroundedOne ==
  ASSUME HealthInv, HealthInv', [HealthNext]_healthVars, Grounded,
         NEW job \in Jobs, NEW v, NEW w, Goes(job, v, w), Founded(w)'
  PROVE  Grounded'
<1>1. sweep'[job] = w /\ \A j \in Jobs : j # job => sweep'[j] = sweep[j]
  BY OneGoes
<1> SUFFICES ASSUME NEW j \in Jobs PROVE Founded(sweep[j])'
  BY DEF Grounded
<1>2. CASE j = job
  BY <1>1, <1>2 DEF Founded, ReadRight, SaidRight
<1>3. CASE j # job
  <2>1. PICK x : x = sweep[j]
    OBVIOUS
  <2>2. Along(x) /\ Founded(x) /\ x = sweep'[j]
    BY <1>1, <1>3, <2>1 DEF HealthInv, Swept, Grounded
  <2>3. Founded(x)'
    BY <2>2, FoundedOn
  <2> QED BY <2>2, <2>3 DEF Founded, ReadRight, SaidRight
<1> QED BY <1>2, <1>3

LEMMA BeginFounded ==
  ASSUME HealthInv, NEW job \in Jobs, Begin(job)
  PROVE  \E v, w : Goes(job, v, w) /\ Founded(w)'
<1>1. PICK v, w : v = sweep[job] /\ w = [NoSweep EXCEPT !.step = "probe", !.prev = last, !.began = now]
  OBVIOUS
<1>2. Goes(job, v, w) /\ now' = now
  BY <1>1 DEF Begin, Goes
<1>3. w.began = now /\ w.status = <<>> /\ w.reports = <<>>
  BY <1>1 DEF NoSweep
<1>4. now \in 1..now
  BY SweepBounds DEF HealthInv, World
<1>5. DOMAIN w.status = {} /\ DOMAIN w.reports = {}
  BY <1>3
<1>6. Founded(w)'
  BY <1>2, <1>3, <1>4, <1>5 DEF Founded, ReadRight, SaidRight
<1> QED BY <1>2, <1>6

LEMMA ReadStatusFounded ==
  ASSUME HealthInv, Grounded, NEW job \in Jobs, NEW a \in Declared, NEW loaded, ReadStatus(job, a, loaded)
  PROVE  \E v, w : Goes(job, v, w) /\ Founded(w)'
<1>1. PICK v, s : v = sweep[job] /\ s = launchdStatus(loaded, Tallies(a), runs[a])
  OBVIOUS
<1>2. PICK w : w = [v EXCEPT !.status = With(v.status, a, s)] /\ Goes(job, v, w)
  BY <1>1 DEF ReadStatus, Goes
<1>3. SweepIs(v) /\ v.step = "probe" /\ UNCHANGED <<now, runs, roster>>
  BY <1>1, <1>2, OneGoes DEF ReadStatus
<1>4. runs[a] \in Seq(Run)
  BY Lines DEF HealthInv, World
<1>5. StatusTells(s, runs[a], Tallies(a), v.began)
  <2>1. Tallies(a) \in BOOLEAN
    BY DEF Tallies
  <2> QED BY <1>1, <1>4, <2>1, StatusIsRead
<1>6. w.step = v.step /\ w.began = v.began /\ w.reports = v.reports /\ w.status = With(v.status, a, s)
  BY <1>2, <1>3 DEF SweepIs
<1>7. Declared' = Declared /\ \A b : Decl(b)' = Decl(b) /\ Tallies(b)' = Tallies(b)
  BY <1>3, Same DEF Tallies
<1>8. ReadRight(v) /\ SaidRight(v) /\ v.began \in 1..now
  BY <1>1, <1>3 DEF Grounded, Founded
<1>9. ReadRight(w)'
  <2>1. \A b \in DOMAIN With(v.status, a, s) :
          \/ b = a /\ With(v.status, a, s)[b] = s
          \/ b \in DOMAIN v.status /\ With(v.status, a, s)[b] = v.status[b]
    BY DEF With
  <2> SUFFICES ASSUME NEW b \in DOMAIN w.status
               PROVE  b \in Declared /\ StatusTells(w.status[b], runs[b], Tallies(b), v.began)
    BY <1>3, <1>6, <1>7 DEF ReadRight
  <2> QED BY <1>5, <1>6, <1>8, <2>1 DEF ReadRight
<1>10. SaidRight(w)'
  BY <1>3, <1>6, <1>7, <1>8 DEF SaidRight
<1>11. Founded(w)'
  BY <1>3, <1>6, <1>8, <1>9, <1>10 DEF Founded
<1> QED BY <1>2, <1>11

LEMMA ProbeFounded ==
  ASSUME HealthInv, Timely, Grounded, NEW job \in Jobs, NEW a \in Declared,
         NEW reach \in {"none", "partial", "all"}, Probe(job, a, reach)
  PROVE  \E v, w : Goes(job, v, w) /\ Founded(w)'
<1> DEFINE u == Verdict(a, StatusOf(job, a), reach)
           r == Judged(Decl(a), u, now)
           said == [state |-> r.state, last |-> r.last, began |-> sweep[job].began, at |-> now, reach |-> reach]
<1>1. PICK v, y : v = sweep[job] /\ y = said
  OBVIOUS
<1>2. PICK b \in Nat, t \in Nat : b = v.began /\ t = now /\ b \in 1..t
  <2>1. v.step = "probe" /\ now \in Nat
    BY <1>1, SweepBounds DEF Probe, HealthInv, World
  <2>2. v.began \in 1..now
    BY <1>1, <2>1 DEF Grounded, Founded
  <2> QED BY <2>1, <2>2
<1>3. y.state = r.state /\ y.last = r.last /\ y.began = b /\ y.at = t /\ y.reach = reach
  <2> HIDE DEF r
  <2> QED BY <1>1, <1>2
<1> DEFINE reports == With(v.reports, a, y)
           status == Without(v.status, a)
<1>4. PICK step, w : /\ w = [v EXCEPT !.reports = reports, !.status = status, !.step = step]
                     /\ Goes(job, v, w)
  <2> HIDE DEF r
  <2> QED BY <1>1 DEF Probe, Goes, r
<1> HIDE DEF said
<1>5. SweepIs(v) /\ Along(v) /\ v.step = "probe"
  BY <1>1, <1>4, OneGoes DEF Probe
<1>6. /\ UNCHANGED <<now, runs, roster>>
      /\ Decl(a).probe \in Launchd => a \in DOMAIN v.status
  BY <1>1 DEF Probe
<1>7. ReadRight(v) /\ SaidRight(v)
  BY <1>1, <1>5 DEF Grounded, Founded
<1>8. y.state = "ok" => Good(Decl(a), runs[a], y)
  <2> SUFFICES ASSUME r.state = "ok" PROVE Good(Decl(a), runs[a], y)
    BY <1>3
  <2>1. a \in Names /\ History(runs[a]) /\ OnTime(runs[a], now)
    BY Lines DEF HealthInv, World, Timely
  <2>2. \A i \in 1..Len(runs[a]) : runs[a][i].start <= t
    BY <1>2, <2>1 DEF OnTime
  <2>3. Decl(a).probe \in Kinds
    BY <1>5, KindsOnly DEF Along
  <2>4. PICK s : s = StatusOf(job, a)
    OBVIOUS
  <2>5. Decl(a).probe \in Launchd => StatusTells(s, runs[a], Tallies(a), b)
    BY <1>1, <1>2, <1>6, <1>7, <2>4 DEF ReadRight, StatusOf
  <2>6. u = Verdict(a, s, reach) /\ Says(u)
    BY <2>4, VerdictSays
  <2> HIDE DEF u
  <2>7. u.state = "ok" /\ r.last = u.last /\ Allowing(Decl(a), u.last, t)
    BY <1>2, <2>6, JudgedOk
  <2>8. Sound(Decl(a), runs[a], b, t, reach, u.last)
    BY <2>1, <2>2, <2>3, <2>5, <2>6, <2>7, VerdictRight
  <2> HIDE DEF r
  <2> QED BY <1>3, <2>7, <2>8 DEF Good
<1> HIDE DEF r, u
<1>9. w.began = b /\ w.reports = reports /\ w.status = status
  <2> HIDE DEF reports, status
  <2> QED BY <1>2, <1>4, <1>5 DEF SweepIs
<1>10. Declared' = Declared /\ \A x : Decl(x)' = Decl(x) /\ Tallies(x)' = Tallies(x)
  BY <1>6, Same DEF Tallies
<1>11. ReadRight(w)'
  <2>1. \A x \in DOMAIN status : x \in DOMAIN v.status /\ status[x] = v.status[x]
    BY DEF Without
  <2> HIDE DEF status
  <2> QED BY <1>2, <1>6, <1>7, <1>9, <1>10, <2>1 DEF ReadRight
<1>12. SaidRight(w)'
  <2>1. \A x \in DOMAIN reports : \/ x = a /\ reports[x] = y
                                  \/ x \in DOMAIN v.reports /\ reports[x] = v.reports[x]
    BY DEF With
  <2> HIDE DEF reports
  <2> SUFFICES ASSUME NEW x \in DOMAIN reports, NEW z, z = reports[x]
               PROVE  z.began = b /\ z.at \in z.began..t /\ (z.state = "ok" => Good(Decl(x), runs[x], z))
    BY <1>2, <1>6, <1>9, <1>10 DEF SaidRight
  <2>2. CASE x = a /\ z = y
    BY <1>2, <1>3, <1>8, <2>2
  <2>3. CASE x \in DOMAIN v.reports /\ z = v.reports[x]
    BY <1>2, <1>7, <2>3 DEF SaidRight
  <2> QED BY <2>1, <2>2, <2>3
<1>13. Founded(w)'
  BY <1>2, <1>6, <1>9, <1>11, <1>12 DEF Founded
<1> QED BY <1>4, <1>13

\* From the log on, a sweep's verdicts are only passed on.
LEMMA LaterFounded ==
  ASSUME HealthInv, NEW job \in Jobs,
         \/ RecordVerdicts(job) \/ (\E reach \in {"none", "partial", "all"} : Collect(job, reach))
         \/ AppendRun(job) \/ SendRuns(job) \/ Tell(job) \/ ReportFails(job) \/ Cut(job)
  PROVE  \E v, w : Goes(job, v, w) /\ w.step \notin {"probe", "record"}
<1>1. PICK v : v = sweep[job] /\ SweepIs(v)
  BY DEF HealthInv, Swept, Along
<1>2. CASE RecordVerdicts(job)
  <2>1. PICK x, y, w : /\ w = [v EXCEPT !.step = IF "runs" \in job.flags THEN "collect" ELSE "tell",
                                          !.reports = x, !.began = y] /\ Goes(job, v, w)
    BY <1>1, <1>2 DEF RecordVerdicts, Goes
  <2>2. w.step \in {"collect", "tell"}
    BY <1>1, <2>1 DEF SweepIs
  <2> QED BY <2>1, <2>2
<1>3. ASSUME NEW reach \in {"none", "partial", "all"}, Collect(job, reach)
      PROVE  \E x, w : Goes(job, x, w) /\ w.step \notin {"probe", "record"}
  <2>1. PICK x, y, z, w : /\ w = [v EXCEPT !.fresh = x, !.first = y, !.step = z] /\ Goes(job, v, w)
                          /\ z \in {"tell", "append"}
    BY <1>1, <1>3 DEF Collect, Goes
  <2>2. w.step = z
    BY <1>1, <2>1 DEF SweepIs
  <2> QED BY <2>1, <2>2
<1>4. CASE AppendRun(job)
  <2>1. PICK x, w, e : Goes(job, x, w) /\ Appends(x, w, e)
    BY <1>4, AppendIs
  <2> QED BY <2>1 DEF Appends
<1>5. CASE SendRuns(job)
  <2>1. PICK x, y, w : /\ w = [v EXCEPT !.news = x, !.step = y] /\ Goes(job, v, w) /\ y \in {"tell", "send"}
    BY <1>1, <1>5 DEF SendRuns, Goes
  <2>2. w.step = y
    BY <1>1, <2>1 DEF SweepIs
  <2> QED BY <2>1, <2>2
<1>6. CASE Tell(job) \/ Cut(job)
  <2>1. Goes(job, v, NoSweep)
    BY <1>1, <1>6 DEF Tell, Cut, Goes
  <2> QED BY <2>1 DEF NoSweep
<1>7. CASE ReportFails(job)
  <2>1. PICK w : w = [v EXCEPT !.step = "tell", !.fresh = {}, !.news = {}] /\ Goes(job, v, w)
    BY <1>1, <1>7 DEF ReportFails, Goes
  <2>2. w.step = "tell"
    BY <1>1, <2>1 DEF SweepIs
  <2> QED BY <2>1, <2>2
<1> QED BY <1>2, <1>3, <1>4, <1>5, <1>6, <1>7

LEMMA NextGrounded == GroundedInv /\ [HealthNext]_healthVars => GroundedInv'
<1> SUFFICES ASSUME HealthInv, Timely, Grounded, [HealthNext]_healthVars PROVE GroundedInv'
  BY DEF GroundedInv
<1>1. HealthInv'
  BY NextHealth
<1>2. Timely'
  BY <1>1, TimelyStep
<1> SUFFICES Grounded'
  BY <1>1, <1>2 DEF GroundedInv
<1>3. ASSUME UNCHANGED sweep PROVE Grounded'
  BY <1>1, <1>3, GroundedOn
<1>4. CASE TimePasses \/ (\E a \in Declared : RunStarts(a) \/ RunEnds(a)) \/ UNCHANGED healthVars
  BY <1>3, <1>4 DEF TimePasses, RunStarts, RunEnds, healthVars
<1>5. ASSUME NEW job \in Jobs, \E v, w : Goes(job, v, w) /\ Founded(w)' PROVE Grounded'
  BY <1>1, <1>5, GroundedOne
<1>6. ASSUME NEW job \in Jobs, \E v, w : Goes(job, v, w) /\ w.step \notin {"probe", "record"} PROVE Grounded'
  BY <1>5, <1>6 DEF Founded
<1>7. ASSUME NEW job \in Jobs, Begin(job) PROVE Grounded'
  BY <1>5, <1>7, BeginFounded
<1>8. ASSUME NEW job \in Jobs, SweepStep(job) PROVE Grounded'
  <2>1. ASSUME NEW a \in Declared, NEW loaded \in BOOLEAN, ReadStatus(job, a, loaded) PROVE Grounded'
    BY <1>5, <2>1, ReadStatusFounded
  <2>2. ASSUME NEW a \in Declared, NEW reach \in {"none", "partial", "all"}, Probe(job, a, reach) PROVE Grounded'
    BY <1>5, <2>2, ProbeFounded
  <2>3. CASE \/ RecordVerdicts(job) \/ (\E reach \in {"none", "partial", "all"} : Collect(job, reach))
             \/ AppendRun(job) \/ SendRuns(job) \/ Tell(job)
    BY <1>6, <2>3, LaterFounded
  <2> QED BY <1>8, <2>1, <2>2, <2>3 DEF SweepStep
<1>9. ASSUME NEW job \in Jobs, ReportFails(job) \/ Cut(job) PROVE Grounded'
  BY <1>6, <1>9, LaterFounded
<1> QED BY <1>4, <1>7, <1>8, <1>9 DEF HealthNext

LEMMA GroundedInvariance == HealthSpec => []GroundedInv
<1>1. HealthInit => GroundedInv
  BY InitHealth, InitGrounded DEF GroundedInv
<1> QED BY <1>1, NextGrounded, PTL DEF HealthSpec

\* What is good is deserved.
LEMMA GoodIsDeserved ==
  ASSUME HealthInv, NEW a \in Declared, NEW v, v.began \in Nat, v.at \in Nat, Good(Decl(a), runs[a], v)
  PROVE  Deserved(a, v)
<1> DEFINE d == Decl(a)
           q == runs[a]
<1>1. a \in Names /\ d \in Declaration(Names) /\ History(q)
  BY Lines DEF HealthInv, World, Rostered
<1>2. PICK n \in Nat : n = Len(q) /\ q \in Seq(Run) /\ DOMAIN q = 1..n
  BY <1>1 DEF History
<1>3. \A i \in 1..n : q[i] \in Range(q)
  BY <1>2 DEF Range
<1>4. Sound(d, q, v.began, v.at, v.reach, v.last) /\ Allowing(d, v.last, v.at)
  BY DEF Good
<1>5. CASE d.probe = "service"
  BY <1>4, <1>5 DEF Deserved, Sound
<1>6. CASE d.probe = "systemd_unit" /\ v.last = 0
  <2>1. \E r \in Range(q) : r.start <= v.at
    BY <1>2, <1>3, <1>4, <1>6 DEF Sound
  <2> QED BY <1>6, <2>1 DEF Deserved
<1>7. CASE d.probe # "service" /\ ~(d.probe = "systemd_unit" /\ v.last = 0)
  <2>1. PICK k \in 1..n : Completing(d, q, k, v.began, v.at) /\ q[k].end = v.last
    BY <1>2, <1>4, <1>7 DEF Sound, Timed
  <2>2. NewestFine(d, q, v.began, v.at, v.reach)
    BY <1>4, <1>7 DEF Sound, Timed
  <2>3. v.last \in Nat /\ v.last # 0
    <3>1. q[k].how # "running"
      BY <2>1 DEF Completing
    <3>2. q[k].end \in Nat /\ q[k].end > 0
      BY <1>1, <1>2, <3>1, RunsAre
    <3> QED BY <2>1, <3>2
  <2>4. Allowed(d) \in Nat
    <3>1. d.every \in Seq(Nat)
      BY <1>1 DEF Declaration
    <3>2. d.every # <<>> => d.every[1] \in Nat
      BY <3>1
    <3> QED BY <3>2 DEF Allowed
  <2>5. v.at - v.last <= Allowed(d)
    <3> HIDE DEF d
    <3>1. ~(v.at - v.last > Allowed(d))
      BY <1>4, <2>3 DEF Allowing
    <3> QED BY <2>3, <2>4, <3>1
  <2>6. Completed(a, q[k], v)
    <3>1. (\E x \in 1..n : q[x].start \in q[k].end..v.at) => \E next \in Range(q) : next.start \in q[k].end..v.at
      BY <1>3
    <3> QED BY <1>2, <2>1, <3>1 DEF Completing, Completed, Github
  <2> DEFINE begun == {i \in DOMAIN q : q[i].start <= v.at}
             newest == Newest(q, begun)
  <2>7. ASSUME begun # {}, newest.end \in 1..(v.began - 1), Bad(newest)
        PROVE  \/ newest.how = "died" /\ d.probe = "heartbeat"
               \/ v.reach = "partial" /\ d.probe \in {"github_delivery_file", "github_newest_file"}
    <3>1. begun \in SUBSET (1..Len(q))
      BY <1>2
    <3>2. PICK i \in begun : newest = q[i] /\ \A j \in begun : j <= i
      <4> HIDE DEF begun, q
      <4> QED BY <1>2, <2>7, <3>1, NewestIs
    <3>3. i \in 1..n /\ q[i].start <= v.at /\ \A j \in 1..n : q[j].start <= v.at => j <= i
      BY <1>2, <3>2
    <3> HIDE DEF newest, begun, q, d
    <3>4. Forgiven(d, q[i], v.reach)
      BY <1>2, <2>2, <2>7, <3>2, <3>3 DEF NewestFine
    <3> QED BY <3>2, <3>4 DEF Forgiven, Github
  <2>8. Earned(a, v)
    <3>1. q[k] \in Range(q) /\ q[k].end = v.last
      BY <1>3, <2>1
    <3> QED BY <2>5, <2>6, <2>7, <3>1 DEF Earned
  <2> QED BY <1>7, <2>8 DEF Deserved
<1> QED BY <1>5, <1>6, <1>7

\* A green verdict is earned: when a sweep has its verdicts, whatever other sweeps
\* are under way, behind every "ok" is a run that did complete, at the time shown
\* and within the cadence, and the newest run that had ended when the sweep began
\* had not failed, but for what the source could not show (probes.go, launchd.go,
\* core/health.go).
THEOREM GreenIsEarned == HealthSpec => []OkIsEarned
<1>1. GroundedInv => OkIsEarned
  <2> SUFFICES ASSUME GroundedInv, NEW job \in Jobs, sweep[job].step = "record",
                      NEW a \in Declared, sweep[job].reports[a].state = "ok"
               PROVE  Deserved(a, sweep[job].reports[a])
    BY DEF OkIsEarned
  <2>1. PICK w : w = sweep[job] /\ HealthInv /\ Along(w) /\ Founded(w)
    BY DEF GroundedInv, HealthInv, Swept, Grounded
  <2>2. PICK v : v = w.reports[a] /\ a \in DOMAIN w.reports
    BY <2>1 DEF Along
  <2>3. v.began = w.began /\ v.at \in v.began..now /\ Good(Decl(a), runs[a], v) /\ w.began \in 1..now
    BY <2>1, <2>2 DEF Founded, SaidRight
  <2>4. v.began \in Nat /\ v.at \in Nat
    BY <2>3
  <2> QED BY <2>1, <2>2, <2>3, <2>4, GoodIsDeserved
<1> QED BY <1>1, GroundedInvariance, PTL

-----------------------------------------------------------------------------
(* No run is announced more often than it is recorded.  What a report has yet *)
(* to send it has recorded, each run once; and while there is one report at a *)
(* time, what it has yet to record is not among what it looks back on.        *)
Single == \A x, y \in Reporters : x = y

Reports(job, w) ==
  /\ w.step # "idle" => job \in jobs
  /\ w.step \in {"collect", "append", "send"} => "runs" \in job.flags
  /\ w.step \notin {"append", "send"} => w.news = {}
  /\ w.fresh \cap w.news = {}
  /\ \A x, y \in w.fresh \cup w.news : Key(x) = Key(y) => x = y

\* The record that i is of the run k is so old that it is not looked back on.
Scrolled(i, k) == Key(recorded[i]) = k => Len(recorded) + 1 - i > SeenLimit
AheadOf(w) == w.step = "append" => \A e \in w.fresh : \A i \in 1..Len(recorded) : Scrolled(i, Key(e))

Told(k) == IF k \in DOMAIN announced THEN announced[k] ELSE 0
Holds(w, k) == \E e \in w.news : Key(e) = k
Holding(k) == {job \in Jobs : Holds(sweep[job], k)}
RecordsOf(k) == {i \in 1..Len(recorded) : Key(recorded[i]) = k}

Each == \A job \in Jobs : Reports(job, sweep[job])
Ahead == Single => \A job \in Jobs : AheadOf(sweep[job])
Apart == Single => \A i, j \in 1..Len(recorded) : i < j /\ Key(recorded[i]) = Key(recorded[j]) => j - i > SeenLimit
Counted == \A k : Told(k) \in Nat /\ Told(k) + Cardinality(Holding(k)) <= Cardinality(RecordsOf(k))

OnceInv == HealthInv /\ Each /\ Ahead /\ Apart /\ Counted

LEMMA Counts ==
  ASSUME recorded \in Seq(Event), NEW k
  PROVE  /\ IsFiniteSet(RecordsOf(k)) /\ Cardinality(RecordsOf(k)) \in Nat
         /\ IsFiniteSet(Holding(k)) /\ Cardinality(Holding(k)) \in Nat
<1>1. PICK n \in Nat : n = Len(recorded)
  OBVIOUS
<1>2. IsFiniteSet(1..n)
  BY <1>1, FS_Interval
<1>3. RecordsOf(k) \in SUBSET (1..n) /\ Holding(k) \in SUBSET Jobs
  BY <1>1 DEF RecordsOf, Holding
<1>4. IsFiniteSet(RecordsOf(k)) /\ IsFiniteSet(Holding(k))
  BY <1>2, <1>3, JobsAssumption, FS_Subset
<1> QED BY <1>4, FS_CardinalityType

LEMMA InitOnce == HealthInit => OnceInv
<1> SUFFICES ASSUME HealthInit PROVE OnceInv
  OBVIOUS
<1>1. HealthInv
  BY InitHealth
<1>2. PICK s \in Setups : recorded = s.log
  BY DEF HealthInit
<1>3. s.log \in Seq(Event) /\ \A i, j \in DOMAIN s.log : i < j => Key(s.log[i]) # Key(s.log[j])
  BY SetupsAssumption
<1>4. ASSUME NEW job \in Jobs PROVE sweep[job] = NoSweep
  BY DEF HealthInit
<1>5. NoSweep.step = "idle" /\ NoSweep.fresh = {} /\ NoSweep.news = {}
  BY SweepIdle
<1>6. Each /\ Ahead
  BY <1>4, <1>5 DEF Each, Ahead, Reports, AheadOf
<1>7. Apart
  <2>1. DOMAIN recorded = 1..Len(recorded)
    BY <1>2, <1>3
  <2> QED BY <1>2, <1>3, <2>1 DEF Apart
<1>8. Counted
  <2> SUFFICES ASSUME NEW k PROVE Told(k) \in Nat /\ Told(k) + Cardinality(Holding(k)) <= Cardinality(RecordsOf(k))
    BY DEF Counted
  <2>1. Told(k) = 0
    BY DEF HealthInit, Told
  <2>2. Holding(k) = {}
    BY <1>4, <1>5 DEF Holding, Holds
  <2>3. Cardinality(Holding(k)) = 0 /\ Cardinality(RecordsOf(k)) \in Nat
    BY <1>2, <1>3, <2>2, Counts, FS_EmptySet
  <2> QED BY <2>1, <2>3
<1> QED BY <1>1, <1>6, <1>7, <1>8 DEF OnceInv

LEMMA SameOnce ==
  ASSUME OnceInv, HealthInv', UNCHANGED <<jobs, recorded, sweep, announced>>
  PROVE  OnceInv'
<1>1. Each' /\ Ahead' /\ Apart'
  BY DEF OnceInv, Each, Ahead, Apart, Single, Reporters, Reports, AheadOf, Scrolled
<1>2. \A k : Told(k)' = Told(k) /\ Holding(k)' = Holding(k) /\ RecordsOf(k)' = RecordsOf(k)
  BY DEF Told, Holding, RecordsOf, Holds
<1>3. Counted'
  BY <1>2 DEF OnceInv, Counted
<1> QED BY <1>1, <1>3 DEF OnceInv

\* One sweep goes on and the others stand still.
LEMMA EachGoes ==
  ASSUME OnceInv, NEW job \in Jobs, NEW v, NEW w, Goes(job, v, w), UNCHANGED jobs, Reports(job, w)
  PROVE  Each' /\ Reports(job, v)
<1>1. sweep'[job] = w /\ \A j \in Jobs : j # job => sweep'[j] = sweep[j]
  BY OneGoes DEF OnceInv
<1>2. ASSUME NEW j \in Jobs PROVE Reports(j, sweep'[j])
  <2>1. CASE j = job
    BY <1>1, <2>1
  <2>2. CASE j # job
    BY <1>1, <2>2 DEF OnceInv, Each
  <2> QED BY <2>1, <2>2
<1>3. Each'
  BY <1>2 DEF Each, Reports
<1>4. Reports(job, v)
  BY DEF OnceInv, Each, Goes
<1> QED BY <1>3, <1>4

\* A step that sends and records nothing.
LEMMA QuietOnce ==
  ASSUME OnceInv, HealthInv', NEW job \in Jobs, NEW v, NEW w, Goes(job, v, w), UNCHANGED <<jobs, recorded, announced>>,
         Reports(job, w), w.news \subseteq v.news, Single => AheadOf(w)
  PROVE  OnceInv'
<1>1. sweep'[job] = w /\ sweep[job] = v /\ \A j \in Jobs : j # job => sweep'[j] = sweep[j]
  BY OneGoes DEF OnceInv, Goes
<1>2. Each'
  BY EachGoes
<1>3. Single' = Single /\ \A x : AheadOf(x)' = AheadOf(x)
  BY DEF Single, Reporters, AheadOf, Scrolled
<1>4. Ahead'
  <2> SUFFICES ASSUME Single, NEW j \in Jobs PROVE AheadOf(sweep'[j])
    BY <1>3 DEF Ahead, AheadOf, Scrolled
  <2>1. CASE j = job
    BY <1>1, <2>1
  <2>2. CASE j # job
    BY <1>1, <2>2 DEF OnceInv, Ahead
  <2> QED BY <2>1, <2>2
<1>5. Apart'
  BY <1>3 DEF OnceInv, Apart
<1>6. Counted'
  <2> SUFFICES ASSUME NEW k
               PROVE  Told(k)' \in Nat /\ Told(k)' + Cardinality(Holding(k)') <= Cardinality(RecordsOf(k)')
    BY DEF Counted
  <2>1. Told(k)' = Told(k) /\ RecordsOf(k)' = RecordsOf(k)
    BY DEF Told, RecordsOf
  <2>2. Holding(k)' \subseteq Holding(k)
    <3> SUFFICES ASSUME NEW j \in Jobs, Holds(sweep'[j], k) PROVE Holds(sweep[j], k)
      BY DEF Holding, Holds
    <3>1. CASE j = job
      BY <1>1, <3>1 DEF Holds
    <3>2. CASE j # job
      BY <1>1, <3>2
    <3> QED BY <3>1, <3>2
  <2>3. PICK S, T : S = Holding(k) /\ T = Holding(k)' /\ T \in SUBSET S
    BY <2>2
  <2>4. IsFiniteSet(S) /\ Cardinality(S) \in Nat /\ Cardinality(RecordsOf(k)) \in Nat
    BY <2>3, Counts DEF OnceInv, HealthInv, Known
  <2>5. Cardinality(T) \in Nat /\ Cardinality(T) <= Cardinality(S)
    BY <2>3, <2>4, FS_Subset, FS_CardinalityType
  <2>6. Told(k) \in Nat /\ Told(k) + Cardinality(S) <= Cardinality(RecordsOf(k))
    BY <2>3 DEF OnceInv, Counted
  <2> QED BY <2>1, <2>3, <2>4, <2>5, <2>6
<1> QED BY <1>2, <1>4, <1>5, <1>6 DEF OnceInv

LEMMA BeginOnce ==
  ASSUME OnceInv, HealthInv', NEW job \in Jobs, Begin(job)
  PROVE  OnceInv'
<1>1. PICK v, w : v = sweep[job] /\ w = [NoSweep EXCEPT !.step = "probe", !.prev = last, !.began = now]
  OBVIOUS
<1>2. Goes(job, v, w) /\ job \in jobs /\ UNCHANGED <<jobs, recorded, announced>>
  BY <1>1 DEF Begin, Goes
<1>3. w.step = "probe" /\ w.fresh = {} /\ w.news = {}
  BY <1>1 DEF NoSweep
<1>4. Reports(job, w) /\ AheadOf(w)
  BY <1>2, <1>3 DEF Reports, AheadOf
<1> QED BY <1>2, <1>3, <1>4, QuietOnce

\* A sweep that has not got to its report, or is done with it.
LEMMA AsideOnce ==
  ASSUME OnceInv, HealthInv', NEW job \in Jobs, NEW v, NEW w, Goes(job, v, w), UNCHANGED <<jobs, recorded, announced>>,
         v.step # "idle", v.step \notin {"append", "send"} \/ w.news = {},
         w.step \notin {"append", "send"}, w.step = "collect" => "runs" \in job.flags,
         w.fresh \subseteq v.fresh, w.news \subseteq v.news
  PROVE  OnceInv'
<1>1. Reports(job, v)
  BY DEF OnceInv, Each, Goes
<1>2. Reports(job, w)
  BY <1>1 DEF Reports
<1>3. AheadOf(w)
  BY DEF AheadOf
<1> QED BY <1>2, <1>3, QuietOnce

LEMMA ProbingOnce ==
  ASSUME OnceInv, HealthInv', NEW job \in Jobs,
         \/ \E a \in Declared, loaded \in BOOLEAN : ReadStatus(job, a, loaded)
         \/ \E a \in Declared, reach \in {"none", "partial", "all"} : Probe(job, a, reach)
         \/ RecordVerdicts(job)
  PROVE  OnceInv'
<1>1. PICK v : v = sweep[job] /\ SweepIs(v)
  BY DEF OnceInv, HealthInv, Swept, Along
<1>2. ASSUME NEW a \in Declared, NEW loaded \in BOOLEAN, ReadStatus(job, a, loaded) PROVE OnceInv'
  <2>1. PICK x, w : w = [v EXCEPT !.status = x] /\ Goes(job, v, w)
    BY <1>1, <1>2 DEF ReadStatus, Goes
  <2>2. v.step = "probe" /\ UNCHANGED <<jobs, recorded, announced>>
    BY <1>1, <1>2 DEF ReadStatus
  <2>3. w.step = v.step /\ w.fresh = v.fresh /\ w.news = v.news
    BY <1>1, <2>1 DEF SweepIs
  <2> QED BY <2>1, <2>2, <2>3, AsideOnce
<1>3. ASSUME NEW a \in Declared, NEW reach \in {"none", "partial", "all"}, Probe(job, a, reach) PROVE OnceInv'
  <2>1. PICK x, y, z, w : /\ w = [v EXCEPT !.reports = x, !.status = y, !.step = z] /\ Goes(job, v, w)
                          /\ z \in {"probe", "record"}
    BY <1>1, <1>3 DEF Probe, Goes
  <2>2. v.step = "probe" /\ UNCHANGED <<jobs, recorded, announced>>
    BY <1>1, <1>3 DEF Probe
  <2>3. w.step = z /\ w.fresh = v.fresh /\ w.news = v.news
    BY <1>1, <2>1 DEF SweepIs
  <2> QED BY <2>1, <2>2, <2>3, AsideOnce
<1>4. CASE RecordVerdicts(job)
  <2>1. PICK x, y, w : /\ w = [v EXCEPT !.step = IF "runs" \in job.flags THEN "collect" ELSE "tell",
                                          !.reports = x, !.began = y] /\ Goes(job, v, w)
    BY <1>1, <1>4 DEF RecordVerdicts, Goes
  <2>2. v.step = "record" /\ UNCHANGED <<jobs, recorded, announced>>
    BY <1>1, <1>4 DEF RecordVerdicts
  <2>3. /\ w.step \in {"collect", "tell"} /\ (w.step = "collect" => "runs" \in job.flags)
        /\ w.fresh = v.fresh /\ w.news = v.news
    BY <1>1, <2>1 DEF SweepIs
  <2> QED BY <2>1, <2>2, <2>3, AsideOnce
<1> QED BY <1>2, <1>3, <1>4

\* What is collected is not among what is looked back on.
LEMMA CollectedAhead ==
  ASSUME HealthInv, NEW reach, NEW e \in NewRuns(reach), NEW i \in 1..Len(recorded)
  PROVE  Scrolled(i, Key(e))
<1> SUFFICES ASSUME Key(recorded[i]) = Key(e) PROVE Len(recorded) + 1 - i > SeenLimit
  BY DEF Scrolled
<1>1. Key(recorded[i]) \notin Seen
  BY NewRunsNews
<1>2. PICK n \in Nat, m \in Nat \ {0} : n = Len(recorded) /\ m = SeenLimit /\ recorded \in Seq(Event)
  BY WindowAssumption DEF HealthInv, Known
<1>3. PICK t : t = LastN(recorded, m) /\ t \in Seq(Event)
  BY <1>2, LastFew
<1>4. PICK off \in Nat, l \in Nat : n = off + l /\ Len(t) = l /\ \A x \in 1..l : t[x] = recorded[off + x]
  <2>1. \E off \in Nat, l \in Nat : /\ Len(recorded) = off + l /\ Len(LastN(recorded, m)) = l
                                 /\ (Len(recorded) > 0 => l > 0)
                                 /\ \A x \in 1..l : LastN(recorded, m)[x] = recorded[off + x]
    BY <1>2, TailIs
  <2> QED BY <1>2, <1>3, <2>1
<1>5. i <= off
  <2> SUFFICES ASSUME ~(i <= off) PROVE FALSE
    OBVIOUS
  <2>1. i - off \in 1..l /\ off + (i - off) = i
    BY <1>2, <1>4
  <2>2. recorded[i] = t[i - off]
    BY <1>4, <2>1
  <2>3. recorded[i] \in Range(t)
    BY <1>3, <1>4, <2>1, <2>2 DEF Range
  <2> QED BY <1>1, <1>2, <1>3, <2>3 DEF Seen
<1>6. n <= m \/ l = m
  <2>1. CASE n <= m
    BY <2>1
  <2>2. CASE ~(n <= m)
    <3>1. t = SubSeq(recorded, n - m + 1, n)
      BY <1>2, <1>3, <2>2 DEF LastN
    <3>2. Len(SubSeq(recorded, n - m + 1, n)) = m
      BY <1>2, <2>2
    <3> QED BY <1>4, <3>1, <3>2
  <2> QED BY <2>1, <2>2
<1>7. n <= m => off = 0
  <2> SUFFICES ASSUME n <= m PROVE off = 0
    OBVIOUS
  <2>1. t = recorded
    BY <1>2, <1>3 DEF LastN
  <2>2. Len(t) = n
    BY <1>2, <2>1
  <2>3. l = n
    BY <1>4, <2>2
  <2> QED BY <1>4, <2>3
<1> QED BY <1>2, <1>4, <1>5, <1>6, <1>7

LEMMA CollectOnce ==
  ASSUME OnceInv, HealthInv', NEW job \in Jobs, NEW reach, Collect(job, reach)
  PROVE  OnceInv'
<1>1. PICK fresh : fresh = NewRuns(reach)
  OBVIOUS
<1>2. PICK v, first, step, w :
        /\ v = sweep[job] /\ step \in {"tell", "append"}
        /\ w = [v EXCEPT !.fresh = fresh, !.first = first, !.step = step] /\ Goes(job, v, w)
  BY <1>1 DEF Collect, Goes
<1>3. SweepIs(v) /\ v.step = "collect" /\ Reports(job, v) /\ UNCHANGED <<jobs, recorded, announced>>
  BY <1>2, OneGoes DEF Collect, OnceInv, Each
<1>4. w.step = step /\ w.fresh = fresh /\ w.news = v.news /\ w.news = {}
  BY <1>2, <1>3 DEF SweepIs, Reports
<1>5. Reports(job, w)
  <2>1. \A x, y \in fresh : Key(x) = Key(y) => x = y
    BY <1>1, NewRunsNews DEF OnceInv
  <2> QED BY <2>1, <1>2, <1>3, <1>4 DEF Reports
<1>6. AheadOf(w)
  BY <1>1, <1>4, CollectedAhead DEF AheadOf, OnceInv
<1> QED BY <1>2, <1>3, <1>4, <1>5, <1>6, QuietOnce

LEMMA ReportFailsOnce ==
  ASSUME OnceInv, HealthInv', NEW job \in Jobs, ReportFails(job) \/ Tell(job) \/ Cut(job)
  PROVE  OnceInv'
<1>1. PICK v : v = sweep[job] /\ SweepIs(v)
  BY DEF OnceInv, HealthInv, Swept, Along
<1>2. PICK w : /\ w = [v EXCEPT !.step = "tell", !.fresh = {}, !.news = {}] \/ w = NoSweep
               /\ Goes(job, v, w)
  BY <1>1 DEF ReportFails, Tell, Cut, Goes
<1>3. w.step \in {"tell", "idle"} /\ w.fresh = {} /\ w.news = {}
  BY <1>1, <1>2, SweepIdle DEF SweepIs
<1>4. v.step # "idle" /\ UNCHANGED <<jobs, recorded, announced>>
  BY <1>1 DEF ReportFails, Tell, Cut
<1> QED BY <1>2, <1>3, <1>4, AsideOnce

\* Who holds a run, after one sweep has gone on.
LEMMA HoldingGoes ==
  ASSUME HealthInv, NEW job \in Jobs, NEW v, NEW w, Goes(job, v, w), NEW k
  PROVE  /\ (job \in Holding(k) <=> Holds(v, k)) /\ (job \in Holding(k)' <=> Holds(w, k))
         /\ Holding(k)' \subseteq Holding(k) \cup {job}
<1>1. sweep'[job] = w /\ sweep[job] = v /\ \A j \in Jobs : j # job => sweep'[j] = sweep[j]
  BY OneGoes DEF Goes
<1>2. Holding(k)' = {j \in Jobs : Holds(sweep'[j], k)}
  BY DEF Holding, Holds
<1>3. ASSUME NEW j \in Jobs, j # job, Holds(sweep'[j], k) PROVE Holds(sweep[j], k)
  BY <1>1, <1>3
<1> QED BY <1>1, <1>2, <1>3 DEF Holding

LEMMA AppendOnce ==
  ASSUME OnceInv, HealthInv', NEW job \in Jobs, AppendRun(job)
  PROVE  OnceInv'
<1>1. PICK v, w, e : /\ Goes(job, v, w) /\ v.step = "append" /\ e \in v.fresh /\ e \in Event
                     /\ Appends(v, w, e) /\ recorded' = Append(recorded, e)
  BY AppendIs DEF OnceInv
<1>2. UNCHANGED <<jobs, announced>>
  BY DEF AppendRun
<1>3. PICK n \in Nat, rec \in Seq(Event) : n = Len(recorded) /\ rec = recorded
  BY DEF OnceInv, HealthInv, Known
<1>4. Len(recorded') = n + 1 /\ recorded'[n + 1] = e /\ \A i \in 1..n : recorded'[i] = recorded[i]
  BY <1>1, <1>3
<1>5. Reports(job, v) /\ sweep[job] = v /\ sweep'[job] = w
  BY <1>1, OneGoes DEF OnceInv, Each, Goes
<1>6. Reports(job, w)
  <2>1. job \in jobs /\ "runs" \in job.flags
    BY <1>1, <1>5 DEF Reports
  <2>2. w.fresh \cap w.news = {} /\ w.fresh \cup w.news \subseteq v.fresh \cup v.news
    BY <1>1, <1>5 DEF Reports, Appends
  <2>3. \A x, y \in w.fresh \cup w.news : Key(x) = Key(y) => x = y
    BY <1>5, <2>2 DEF Reports
  <2>4. w.step \notin {"append", "send"} => w.news = {}
    BY <1>1 DEF Appends
  <2> QED BY <2>1, <2>2, <2>3, <2>4 DEF Reports
<1>7. Each'
  BY <1>1, <1>2, <1>6, EachGoes
<1>8. Single' = Single
  BY <1>2 DEF Single, Reporters
<1>9. Single => \A x \in v.fresh : \A i \in 1..n : Key(recorded[i]) = Key(x) => n + 1 - i > SeenLimit
  BY <1>1, <1>3, <1>5 DEF OnceInv, Ahead, AheadOf, Scrolled
<1>10. Ahead'
  <2> SUFFICES ASSUME Single, NEW j \in Jobs, sweep'[j].step = "append", NEW x \in sweep'[j].fresh,
                      NEW i \in 1..(n + 1), Key(recorded'[i]) = Key(x)
               PROVE  (n + 1) + 1 - i > SeenLimit
    BY <1>4, <1>8 DEF Ahead, AheadOf, Scrolled
  <2>1. j = job
    <3>1. Reports(j, sweep'[j]) /\ Reports(job, w) /\ w.step # "idle"
      BY <1>2, <1>6, <1>7, <1>1 DEF Each, Reports, Appends
    <3>2. j \in Reporters /\ job \in Reporters
      BY <1>1, <1>5, <3>1 DEF Reports, Reporters
    <3> QED BY <3>2 DEF Single
  <2>2. x \in v.fresh /\ x # e
    BY <1>1, <1>5, <2>1 DEF Appends
  <2>3. CASE i = n + 1
    <3>1. Key(e) = Key(x)
      BY <1>4, <2>3
    <3> QED BY <1>1, <1>5, <2>2, <3>1 DEF Reports
  <2>4. CASE i \in 1..n
    <3>1. n + 1 - i > SeenLimit
      BY <1>4, <1>9, <2>2, <2>4
    <3> QED BY <3>1, WindowAssumption
  <2> QED BY <2>3, <2>4
<1>11. Apart'
  <2> SUFFICES ASSUME Single, NEW i \in 1..(n + 1), NEW j \in 1..(n + 1), i < j, Key(recorded'[i]) = Key(recorded'[j])
               PROVE  j - i > SeenLimit
    BY <1>4, <1>8 DEF Apart
  <2>1. i \in 1..n
    OBVIOUS
  <2>2. CASE j \in 1..n
    BY <1>3, <1>4, <2>1, <2>2 DEF OnceInv, Apart
  <2>3. CASE j = n + 1
    <3>1. Key(recorded[i]) = Key(e)
      BY <1>4, <2>1, <2>3
    <3> QED BY <1>1, <1>9, <2>1, <2>3, <3>1
  <2> QED BY <2>2, <2>3
<1>12. ASSUME NEW k
       PROVE  Told(k)' \in Nat /\ Told(k)' + Cardinality(Holding(k)') <= Cardinality(RecordsOf(k)')
  <2>1. Told(k)' = Told(k)
    BY <1>2 DEF Told
  <2>2. PICK S, R, S1, R1 : S = Holding(k) /\ R = RecordsOf(k) /\ S1 = Holding(k)' /\ R1 = RecordsOf(k)'
    OBVIOUS
  <2>3. IsFiniteSet(S) /\ Cardinality(S) \in Nat /\ IsFiniteSet(R) /\ Cardinality(R) \in Nat
    BY <2>2, Counts DEF OnceInv, HealthInv, Known
  <2>4. Told(k) \in Nat /\ Told(k) + Cardinality(S) <= Cardinality(R)
    BY <2>2 DEF OnceInv, Counted
  <2>5. R = {i \in 1..n : Key(recorded[i]) = k} /\ R1 = {i \in 1..(n + 1) : Key(recorded'[i]) = k}
    BY <1>3, <1>4, <2>2 DEF RecordsOf
  <2>6. /\ (job \in S <=> Holds(v, k)) /\ (job \in S1 <=> Holds(w, k)) /\ S1 \subseteq S \cup {job}
    BY <1>1, <2>2, HoldingGoes DEF OnceInv
  <2>7. CASE k = Key(e)
    <3>1. R1 = R \cup {n + 1} /\ n + 1 \notin R
      BY <1>4, <2>5, <2>7
    <3>2. Cardinality(R1) = Cardinality(R) + 1
      BY <2>3, <3>1, FS_AddElement
    <3>3. PICK U : U = S \cup {job} /\ S1 \in SUBSET U
      BY <2>6
    <3>4. IsFiniteSet(U) /\ Cardinality(U) \in Nat /\ Cardinality(U) <= Cardinality(S) + 1
      <4>1. IsFiniteSet(U) /\ Cardinality(U) = IF job \in S THEN Cardinality(S) ELSE Cardinality(S) + 1
        BY <2>3, <3>3, FS_AddElement
      <4> QED BY <2>3, <4>1
    <3>5. Cardinality(S1) \in Nat /\ Cardinality(S1) <= Cardinality(U)
      BY <3>3, <3>4, FS_Subset, FS_CardinalityType
    <3> QED BY <2>1, <2>2, <2>3, <2>4, <3>2, <3>4, <3>5
  <2>8. CASE k # Key(e)
    <3>1. R1 = R
      BY <1>4, <2>5, <2>8
    <3>2. Holds(w, k) => Holds(v, k)
      BY <1>1, <2>8 DEF Holds, Appends
    <3>3. S1 \in SUBSET S
      BY <2>6, <3>2
    <3>4. Cardinality(S1) \in Nat /\ Cardinality(S1) <= Cardinality(S)
      BY <2>3, <3>3, FS_Subset, FS_CardinalityType
    <3> QED BY <2>1, <2>2, <2>3, <2>4, <3>1, <3>4
  <2> QED BY <2>7, <2>8
<1>13. Counted'
  BY <1>12 DEF Counted
<1> QED BY <1>7, <1>10, <1>11, <1>13 DEF OnceInv

LEMMA SendOnce ==
  ASSUME OnceInv, HealthInv', NEW job \in Jobs, SendRuns(job)
  PROVE  OnceInv'
<1>1. PICK v, w, message : /\ Goes(job, v, w) /\ v.step = "send"
                           /\ Sends(v, w, message) /\ Announces(message)
  BY SendIs DEF OnceInv
<1>2. UNCHANGED <<jobs, recorded>>
  BY DEF SendRuns
<1>3. Reports(job, v) /\ sweep[job] = v /\ sweep'[job] = w /\ \A j \in Jobs : j # job => sweep'[j] = sweep[j]
  BY <1>1, OneGoes DEF OnceInv, Each, Goes
<1>4. Reports(job, w)
  BY <1>1, <1>3 DEF Reports, Sends
<1>5. Each'
  BY <1>1, <1>2, <1>4, EachGoes
<1>6. Single' = Single /\ \A x : AheadOf(x)' = AheadOf(x)
  BY <1>2 DEF Single, Reporters, AheadOf, Scrolled
<1>7. Ahead' /\ Apart'
  <2>1. ASSUME Single, NEW j \in Jobs PROVE AheadOf(sweep'[j])
    <3>1. CASE j = job
      BY <1>1, <1>3, <3>1 DEF AheadOf, Sends
    <3>2. CASE j # job
      BY <1>3, <2>1, <3>2 DEF OnceInv, Ahead
    <3> QED BY <3>1, <3>2
  <2>2. Ahead'
    BY <1>2, <1>6, <2>1 DEF Ahead, AheadOf, Scrolled
  <2> QED BY <1>2, <1>6, <2>2 DEF OnceInv, Apart
<1>8. ASSUME NEW k
      PROVE  Told(k)' \in Nat /\ Told(k)' + Cardinality(Holding(k)') <= Cardinality(RecordsOf(k)')
  <2>1. RecordsOf(k)' = RecordsOf(k)
    BY <1>2 DEF RecordsOf
  <2>2. PICK S, R, S1 : S = Holding(k) /\ R = RecordsOf(k) /\ S1 = Holding(k)'
    OBVIOUS
  <2>3. IsFiniteSet(S) /\ Cardinality(S) \in Nat /\ IsFiniteSet(R) /\ Cardinality(R) \in Nat
    BY <2>2, Counts DEF OnceInv, HealthInv, Known
  <2>4. Told(k) \in Nat /\ Told(k) + Cardinality(S) <= Cardinality(R)
    BY <2>2 DEF OnceInv, Counted
  <2>5. /\ (job \in S <=> Holds(v, k)) /\ (job \in S1 <=> Holds(w, k)) /\ S1 \subseteq S \cup {job}
    BY <1>1, <2>2, HoldingGoes DEF OnceInv
  <2>6. PICK keys : keys = {Key(x) : x \in message}
    OBVIOUS
  <2>7. Told(k)' = Told(k) + IF k \in keys THEN 1 ELSE 0
    <3>1. announced' = [x \in DOMAIN announced \cup keys |->
                          (IF x \in DOMAIN announced THEN announced[x] ELSE 0) + (IF x \in keys THEN 1 ELSE 0)]
      BY <1>1, <2>6 DEF Announces
    <3>2. CASE k \in DOMAIN announced \cup keys
      BY <3>1, <3>2 DEF Told
    <3>3. CASE k \notin DOMAIN announced \cup keys
      BY <3>1, <3>3 DEF Told
    <3> QED BY <3>2, <3>3
  <2>8. CASE k \in keys
    <3>1. PICK x \in message : Key(x) = k
      BY <2>6, <2>8
    <3>2. Holds(v, k) /\ ~Holds(w, k)
      BY <1>1, <1>3, <3>1 DEF Holds, Sends, Reports
    <3>3. PICK U : U = S \ {job} /\ S1 \in SUBSET U /\ job \in S
      BY <2>5, <3>2
    <3>4. IsFiniteSet(U) /\ Cardinality(U) = Cardinality(S) - 1
      BY <2>3, <3>3, FS_RemoveElement
    <3>5. Cardinality(S1) \in Nat /\ Cardinality(S1) <= Cardinality(U)
      BY <3>3, <3>4, FS_Subset, FS_CardinalityType
    <3> QED BY <2>1, <2>2, <2>3, <2>4, <2>7, <2>8, <3>4, <3>5
  <2>9. CASE k \notin keys
    <3>1. Holds(w, k) => Holds(v, k)
      BY <1>1 DEF Holds, Sends
    <3>2. S1 \in SUBSET S
      BY <2>5, <3>1
    <3>3. Cardinality(S1) \in Nat /\ Cardinality(S1) <= Cardinality(S)
      BY <2>3, <3>2, FS_Subset, FS_CardinalityType
    <3> QED BY <2>1, <2>2, <2>3, <2>4, <2>7, <2>9, <3>3
  <2> QED BY <2>8, <2>9
<1>9. Counted'
  BY <1>8 DEF Counted
<1> QED BY <1>5, <1>7, <1>9 DEF OnceInv

LEMMA NextOnce == OnceInv /\ [HealthNext]_healthVars => OnceInv'
<1> SUFFICES ASSUME OnceInv, [HealthNext]_healthVars PROVE OnceInv'
  OBVIOUS
<1>1. HealthInv'
  BY NextHealth DEF OnceInv
<1>2. CASE TimePasses \/ (\E a \in Declared : RunStarts(a) \/ RunEnds(a)) \/ UNCHANGED healthVars
  BY <1>1, <1>2, SameOnce DEF TimePasses, RunStarts, RunEnds, healthVars
<1>3. ASSUME NEW job \in Jobs, Begin(job) PROVE OnceInv'
  BY <1>1, <1>3, BeginOnce
<1>4. ASSUME NEW job \in Jobs, SweepStep(job) PROVE OnceInv'
  <2>1. ASSUME NEW reach \in {"none", "partial", "all"}, Collect(job, reach) PROVE OnceInv'
    BY <1>1, <2>1, CollectOnce
  <2>2. CASE AppendRun(job)
    BY <1>1, <2>2, AppendOnce
  <2>3. CASE SendRuns(job)
    BY <1>1, <2>3, SendOnce
  <2>4. CASE Tell(job)
    BY <1>1, <2>4, ReportFailsOnce
  <2>5. CASE \/ \E a \in Declared, loaded \in BOOLEAN : ReadStatus(job, a, loaded)
             \/ \E a \in Declared, reach \in {"none", "partial", "all"} : Probe(job, a, reach)
             \/ RecordVerdicts(job)
    BY <1>1, <2>5, ProbingOnce
  <2> QED BY <1>4, <2>1, <2>2, <2>3, <2>4, <2>5 DEF SweepStep
<1>5. ASSUME NEW job \in Jobs, ReportFails(job) \/ Cut(job) PROVE OnceInv'
  BY <1>1, <1>5, ReportFailsOnce
<1> QED BY <1>2, <1>3, <1>4, <1>5 DEF HealthNext

\* A run is announced no more often than it is recorded, whatever sweeps overlap
\* and wherever they are cut short; and as long as one job reports the runs, none
\* is recorded again before as many newer ones as a report looks back on
\* (health.go:238, runs.go:23).
THEOREM RunsAreToldOnce == HealthSpec => []AnnouncedOnce
<1>1. OnceInv => AnnouncedOnce
  <2> SUFFICES ASSUME OnceInv PROVE AnnouncedOnce
    OBVIOUS
  <2>1. DOMAIN recorded = 1..Len(recorded)
    BY DEF OnceInv, HealthInv, Known
  <2>2. ASSUME NEW k \in DOMAIN announced
        PROVE  announced[k] <= Cardinality({i \in DOMAIN recorded : Key(recorded[i]) = k})
    <3>1. PICK S, R : S = Holding(k) /\ R = RecordsOf(k)
      OBVIOUS
    <3>2. Cardinality(S) \in Nat /\ Cardinality(R) \in Nat
      BY <3>1, Counts DEF OnceInv, HealthInv, Known
    <3>3. Told(k) \in Nat /\ Told(k) + Cardinality(S) <= Cardinality(R) /\ Told(k) = announced[k]
      BY <2>2, <3>1 DEF OnceInv, Counted, Told
    <3>4. R = {i \in DOMAIN recorded : Key(recorded[i]) = k}
      BY <2>1, <3>1 DEF RecordsOf
    <3>5. announced[k] <= Cardinality(R)
      BY <3>2, <3>3
    <3> QED BY <3>4, <3>5
  <2>3. (\A x, y \in Reporters : x = y) =>
          \A i, j \in DOMAIN recorded : i < j /\ Key(recorded[i]) = Key(recorded[j]) => j - i > SeenLimit
    BY <2>1 DEF OnceInv, Apart, Single
  <2> QED BY <2>2, <2>3 DEF AnnouncedOnce
<1> QED BY <1>1, InitOnce, NextOnce, PTL DEF HealthSpec

=============================================================================
