----------------------------- MODULE CrewProofs -----------------------------
(* The two ways to run a task's roles, for any budgets, costs, offers, sizes  *)
(* and number of requests: nothing is told to read what was never left, the   *)
(* next role is given what the log had of the last one that answered, and the *)
(* cascade asks every provider it should and none twice.                      *)
EXTENDS Crew, SequenceTheorems, TLAPS

-----------------------------------------------------------------------------
(* The inductive invariants.                                                  *)

Running == phase \in {"prompt", "read", "charge"}

\* The results keep up with the sessions, and a session that runs has a role.
Fits ==
  /\ Len(sessions) <= Len(results) + (IF Running THEN 1 ELSE 0)
  /\ Running => RolesLeft /\ Len(sessions) > 0
  /\ phase \in {"triage", "graded"} => results = <<>> /\ sessions = <<>>

\* The session that runs has not answered before its answer is read.
RunningIsBlank ==
  phase \in {"prompt", "read"} => ~sessions[Len(sessions)].answered

Heard(ss, n) == {j \in 1 .. n : ss[j].answered}
Latest(S) == CHOOSE j \in S : \A k \in S : k <= j

\* What was read of the last of the first n sessions that answered.
LastSaid(ss, n) ==
  IF Heard(ss, n) = {} THEN Nothing
  ELSE HandOff(ss[Latest(Heard(ss, n))].role, ss[Latest(Heard(ss, n))].out)

\* What is carried is what the next session is to be told.
CarryIsLast ==
  /\ \A i \in DOMAIN sessions : sessions[i].told = LastSaid(sessions, i - 1)
  /\ \A i \in DOMAIN sessions : sessions[i].out <= sessions[i].text
  /\ carry = LastSaid(sessions, Len(sessions))

AskedTiers == {attempts[i].tier : i \in DOMAIN attempts}
Kept == \E i \in DOMAIN attempts : attempts[i].kept

\* Every tier the cascade has gone past has had its provider asked.
Routed ==
  /\ phase \notin {"triage", "graded"} => attempts = <<>>
  /\ tried = AskedTiers
  /\ \A i, j \in DOMAIN attempts : attempts[i].tier = attempts[j].tier => i = j
  /\ \A i \in DOMAIN attempts :
       attempts[i].kept =>
         /\ i = Len(attempts) /\ phase = "graded"
         /\ attempts[i].word \in Sizes \/ attempts[i].tier = Strong
  /\ phase \in {"triage", "graded"} => start <= want
  /\ phase \in {"triage", "graded"} /\ ~Kept =>
       \A u \in Tiers : start <= u /\ u < want => Best(reg, u) \subseteq tried
  /\ phase = "graded" /\ ~Kept => want > Strong

DoInv == DoTypeOK /\ Fits /\ RunningIsBlank /\ CarryIsLast /\ Routed

\* An opener past its look has a role of the chain, and the input that role
\* reads has been left; a brief names nothing else.
InputSeen ==
  /\ \A r \in Roles : art[r] = "text" => r \in written
  /\ \A r \in Roles : brief[r] \in {None, ""} \cup written
  /\ \A r \in Roles : pane[r] # "none" => brief[r] # None
  /\ \A o \in Openers :
       req[o].at \in {"open", "create", "seed"} => More(o) /\ Sess(o).input \in {""} \cup written
  /\ \A o \in Openers : req[o].at = "create" => brief[Sess(o).role] # None

CrewInv == CrewTypeOK /\ InputSeen /\ InputThere

IInv == DoInv /\ CrewInv

-----------------------------------------------------------------------------
(* What the operators of the model return.                                    *)

LEMMA SmallSetHasEnds ==
  ASSUME NEW S \in SUBSET {0, 1, 2, 3, 4}, S # {}
  PROVE  (\E j \in S : \A k \in S : k <= j) /\ (\E j \in S : \A k \in S : j <= k)
<1>1. \E j \in S : \A k \in S : k <= j
  <2>1. CASE 4 \in S
    BY <2>1
  <2>2. CASE 4 \notin S /\ 3 \in S
    BY <2>2
  <2>3. CASE 4 \notin S /\ 3 \notin S /\ 2 \in S
    BY <2>3
  <2>4. CASE 4 \notin S /\ 3 \notin S /\ 2 \notin S /\ 1 \in S
    BY <2>4
  <2>5. CASE 4 \notin S /\ 3 \notin S /\ 2 \notin S /\ 1 \notin S
    <3>1. S = {0}
      BY <2>5
    <3> QED BY <3>1
  <2> QED BY <2>1, <2>2, <2>3, <2>4, <2>5
<1>2. \E j \in S : \A k \in S : j <= k
  <2>1. CASE 0 \in S
    BY <2>1
  <2>2. CASE 0 \notin S /\ 1 \in S
    BY <2>2
  <2>3. CASE 0 \notin S /\ 1 \notin S /\ 2 \in S
    BY <2>3
  <2>4. CASE 0 \notin S /\ 1 \notin S /\ 2 \notin S /\ 3 \in S
    BY <2>4
  <2>5. CASE 0 \notin S /\ 1 \notin S /\ 2 \notin S /\ 3 \notin S
    <3>1. S = {4}
      BY <2>5
    <3> QED BY <3>1
  <2> QED BY <2>1, <2>2, <2>3, <2>4, <2>5
<1> QED BY <1>1, <1>2

LEMMA OrgType ==
  ASSUME NEW s \in Sizes
  PROVE  /\ Org(s) \in Seq(Roles) /\ DOMAIN Org(s) = 1 .. Len(Org(s))
         /\ Len(Org(s)) \in Nat /\ 1 <= Len(Org(s)) /\ Len(Org(s)) <= 4
         /\ \A i \in 1 .. Len(Org(s)) : Org(s)[i] \in Roles
<1>1. CASE s = SoloSize
  <2>1. Org(s) = <<"executor">>
    BY <1>1 DEF Org, SoloSize, PairSize
  <2> QED BY <2>1 DEF Roles
<1>2. CASE s = PairSize
  BY <1>2 DEF Org, Roles, SoloSize, PairSize
<1>3. CASE s = TeamSize
  BY <1>3 DEF Org, Roles, SoloSize, PairSize, TeamSize
<1> QED BY <1>1, <1>2, <1>3 DEF Sizes

LEMMA SessionOfChain ==
  ASSUME NEW s \in Sizes, NEW i \in 1 .. Len(Org(s))
  PROVE  Attachable(s)[i].role \in Roles /\ Attachable(s)[i].input \in Roles \cup {""}
<1>1. /\ i \in DOMAIN Org(s) /\ Org(s)[i] \in Roles
      /\ i # 1 => Org(s)[i - 1] \in Roles
  <2>1. Len(Org(s)) \in Nat
    BY OrgType
  <2>2. i \in Nat /\ i <= Len(Org(s)) /\ (i # 1 => i - 1 \in 1 .. Len(Org(s)))
    BY <2>1
  <2> QED BY <2>2, OrgType
<1>2. Attachable(s)[i].role = Org(s)[i]
  BY <1>1 DEF Attachable
<1>3. Attachable(s)[i].input = IF i = 1 THEN "" ELSE Org(s)[i - 1]
  BY <1>1 DEF Attachable
<1> QED BY <1>1, <1>2, <1>3

LEMMA ClassifyType == \A p \in Prompts : classify(p) \in Tiers
BY DEF classify, Tiers, Cheap, Mid, Strong

\* At most one provider answers for a tier, a configured one, and for a tier
\* that has one it is that one.
LEMMA BestIsOne ==
  ASSUME NEW r \in SUBSET Tiers, NEW t \in Tiers
  PROVE  /\ Best(r, t) \subseteq r
         /\ \A x, y \in Best(r, t) : x = y
         /\ t \in r => Best(r, t) = {t}
<1> DEFINE stronger == {u \in r : u >= t}
           weaker == {u \in r : u < t}
<1>1. r \subseteq {0, 1, 2} /\ t \in {0, 1, 2} /\ stronger \subseteq r /\ weaker \subseteq r
  BY DEF Tiers, Cheap, Strong
<1>2. stronger # {} => \E u \in stronger : \A v \in stronger : u <= v
  <2>1. stronger \in SUBSET {0, 1, 2, 3, 4}
    BY <1>1
  <2> QED BY <2>1, SmallSetHasEnds
<1>3. weaker # {} => \E u \in weaker : \A v \in weaker : v <= u
  <2>1. weaker \in SUBSET {0, 1, 2, 3, 4}
    BY <1>1
  <2> QED BY <2>1, SmallSetHasEnds
<1>4. t \in r => \A u \in stronger : (\A v \in stronger : u <= v) => u = t
  BY <1>1
<1>5. t \in r => t \in stronger
  BY <1>1
<1> HIDE DEF stronger, weaker
<1>6. Best(r, t) = IF stronger # {} THEN {CHOOSE u \in stronger : \A v \in stronger : u <= v}
                   ELSE IF weaker # {} THEN {CHOOSE u \in weaker : \A v \in weaker : v <= u} ELSE {}
  BY DEF Best, stronger, weaker
<1> QED BY <1>1, <1>2, <1>3, <1>4, <1>5, <1>6

LEMMA LatestIs ==
  ASSUME NEW n \in 0 .. 4, NEW S \in SUBSET (1 .. n), S # {}
  PROVE  Latest(S) \in S /\ \A k \in S : k <= Latest(S)
<1>1. S \in SUBSET {0, 1, 2, 3, 4}
  OBVIOUS
<1>2. \E j \in S : \A k \in S : k <= j
  BY <1>1, SmallSetHasEnds
<1> QED BY <1>2 DEF Latest

LEMMA LastSaidAgrees ==
  ASSUME NEW ss, NEW tt, NEW n \in 0 .. 4,
         \A j \in 1 .. n : ss[j].answered = tt[j].answered /\ ss[j].out = tt[j].out /\ ss[j].role = tt[j].role
  PROVE  LastSaid(ss, n) = LastSaid(tt, n)
<1>1. Heard(ss, n) = Heard(tt, n)
  BY DEF Heard
<1>2. ASSUME Heard(ss, n) # {} PROVE Latest(Heard(ss, n)) \in 1 .. n
  <2>1. Heard(ss, n) \in SUBSET (1 .. n)
    BY DEF Heard
  <2> QED BY <1>2, <2>1, LatestIs
<1> QED BY <1>1, <1>2 DEF LastSaid

\* A session that answered is heard last, and one that did not is passed over.
LEMMA LastSaidNext ==
  ASSUME NEW ss, NEW n \in 1 .. 4
  PROVE  /\ ss[n].answered => LastSaid(ss, n) = HandOff(ss[n].role, ss[n].out)
         /\ ~ss[n].answered => LastSaid(ss, n) = LastSaid(ss, n - 1)
<1>1. Heard(ss, n) \in SUBSET (1 .. n) /\ n \in 0 .. 4
  BY DEF Heard
<1>2. CASE ss[n].answered
  <2>1. n \in Heard(ss, n)
    BY <1>2 DEF Heard
  <2>2. Latest(Heard(ss, n)) \in 1 .. n /\ n <= Latest(Heard(ss, n))
    BY <1>1, <2>1, LatestIs
  <2>3. Latest(Heard(ss, n)) = n
    BY <2>2
  <2> QED BY <1>2, <2>1, <2>3 DEF LastSaid
<1>3. CASE ~ss[n].answered
  <2>1. Heard(ss, n) = Heard(ss, n - 1)
    BY <1>3 DEF Heard
  <2> QED BY <1>3, <2>1 DEF LastSaid
<1> QED BY <1>2, <1>3

-----------------------------------------------------------------------------
(* Role by role.                                                              *)

LEMMA IdleType == Idle \in Requests /\ Idle.at = "idle"
BY DEF Idle, Requests, Sizes

LEMMA AimType ==
  ASSUME CrewTypeOK, NEW o \in Openers, More(o)
  PROVE  /\ req[o].size \in Sizes /\ req[o].i \in 1 .. 4
         /\ Sess(o).role \in Roles /\ Sess(o).input \in Roles \cup {""}
<1>1. req[o].size \in Sizes /\ req[o].i \in 1 .. 5
  BY DEF CrewTypeOK, Requests
<1>2. Len(Org(req[o].size)) \in Nat /\ Len(Org(req[o].size)) <= 4
  BY <1>1, OrgType
<1>3. req[o].i \in 1 .. 4 /\ req[o].i \in 1 .. Len(Org(req[o].size))
  BY <1>1, <1>2 DEF More
<1>4. /\ Attachable(req[o].size)[req[o].i].role \in Roles
      /\ Attachable(req[o].size)[req[o].i].input \in Roles \cup {""}
  BY <1>1, <1>3, SessionOfChain
<1> QED BY <1>1, <1>3, <1>4 DEF Sess

\* Where a request goes on, and what it aims at while it does not look on.
LEMMA Moves ==
  ASSUME CrewTypeOK, NEW o \in Openers
  PROVE  /\ \A where \in {"open", "create", "seed"} :
              At(o, where) /\ More(o) =>
                /\ req' \in [Openers -> Requests] /\ req'[o].at = where
                /\ More(o)' /\ Sess(o)' = Sess(o)
                /\ \A p \in Openers \ {o} : req'[p] = req[p]
         /\ LookOn(o) /\ More(o) =>
                /\ req' \in [Openers -> Requests] /\ req'[o].at = "look"
                /\ \A p \in Openers \ {o} : req'[p] = req[p]
         /\ Drop(o) =>
                /\ req' \in [Openers -> Requests] /\ req'[o].at = "idle"
                /\ \A p \in Openers \ {o} : req'[p] = req[p]
<1>1. req \in [Openers -> Requests] /\ req[o] \in Requests
  BY DEF CrewTypeOK
<1>2. ASSUME NEW where \in {"open", "create", "seed"}, At(o, where), More(o)
      PROVE  /\ req' \in [Openers -> Requests] /\ req'[o].at = where
             /\ More(o)' /\ Sess(o)' = Sess(o)
             /\ \A p \in Openers \ {o} : req'[p] = req[p]
  <2>1. req' = [req EXCEPT ![o] = [req[o] EXCEPT !.at = where]]
    BY <1>2 DEF At
  <2>2. [req[o] EXCEPT !.at = where] \in Requests
    BY <1>1 DEF Requests
  <2>3. req'[o].size = req[o].size /\ req'[o].i = req[o].i /\ req'[o].at = where
    BY <1>1, <2>1 DEF Requests
  <2> QED BY <1>1, <1>2, <2>1, <2>2, <2>3 DEF More, Sess
<1>3. ASSUME LookOn(o), More(o)
      PROVE  /\ req' \in [Openers -> Requests] /\ req'[o].at = "look"
             /\ \A p \in Openers \ {o} : req'[p] = req[p]
  <2>1. req' = [req EXCEPT ![o] = [req[o] EXCEPT !.at = "look", !.i = req[o].i + 1]]
    BY <1>3 DEF LookOn
  <2>2. req[o].i \in 1 .. 4
    BY <1>3, AimType
  <2>3. [req[o] EXCEPT !.at = "look", !.i = req[o].i + 1] \in Requests
    <3>1. req[o].i + 1 \in 1 .. 5
      BY <2>2
    <3> QED BY <1>1, <3>1 DEF Requests
  <2> QED BY <1>1, <2>1, <2>3 DEF Requests
<1>4. ASSUME Drop(o)
      PROVE  /\ req' \in [Openers -> Requests] /\ req'[o].at = "idle"
             /\ \A p \in Openers \ {o} : req'[p] = req[p]
  <2> QED BY <1>1, <1>4, IdleType DEF Drop
<1> QED BY <1>2, <1>3, <1>4

LEMMA CrewInitially == CrewInit => CrewInv
<1> SUFFICES ASSUME CrewInit PROVE CrewInv
  OBVIOUS
<1>1. Idle \in Requests /\ Idle.at = "idle"
  BY IdleType
<1>2. CrewTypeOK
  BY <1>1, OpensAreBounded DEF CrewInit, CrewTypeOK, Inputs, Roles
<1>3. InputSeen
  BY <1>1 DEF CrewInit, InputSeen
<1>4. InputThere
  BY DEF CrewInit, InputThere
<1> QED BY <1>2, <1>3, <1>4 DEF CrewInv

LEMMA RequestIs ==
  ASSUME NEW o \in Openers, NEW s \in Sizes, NEW m \in {"first", "next", "all"}, NEW r \in Roles \cup {""},
         Request(o, s, m, r)
  PROVE  \E new \in Requests :
           /\ new.at = "look" /\ req' = [req EXCEPT ![o] = new]
           /\ opens' = opens + 1 /\ opens < MaxOpens
           /\ UNCHANGED <<pane, art, written, brief, told>>
<1> DEFINE new == [Idle EXCEPT !.at = "look", !.size = s, !.mode = m, !.role = r]
<1>1. new \in Requests /\ new.at = "look"
  BY IdleType DEF Requests
<1> QED BY <1>1 DEF Request

LEMMA RequestKeeps ==
  ASSUME CrewInv, NEW o \in Openers, NEW new \in Requests, new.at = "look",
         req' = [req EXCEPT ![o] = new], opens' = opens + 1, opens < MaxOpens,
         UNCHANGED <<pane, art, written, brief, told>>
  PROVE  CrewInv'
<1>1. CrewTypeOK
  BY DEF CrewInv
<1>2. opens' \in 0 .. MaxOpens
  BY <1>1, OpensAreBounded DEF CrewTypeOK
<1>3. CrewTypeOK'
  BY <1>1, <1>2 DEF CrewTypeOK
<1>4. req'[o].at = "look" /\ \A p \in Openers \ {o} : req'[p] = req[p]
  BY <1>1 DEF CrewTypeOK
<1>5. InputSeen'
  BY <1>4 DEF CrewInv, InputSeen, More, Sess
<1>6. InputThere'
  BY DEF CrewInv, InputThere
<1> QED BY <1>3, <1>5, <1>6 DEF CrewInv

LEMMA AskKeeps == ASSUME CrewInv, AskCli \/ AskBoard \/ AskFix PROVE CrewInv'
<1>1. \A s \in CrewSizes : s \in Sizes /\ Range(Org(s)) \subseteq Roles
  <2> SUFFICES ASSUME NEW s \in CrewSizes PROVE s \in Sizes /\ Range(Org(s)) \subseteq Roles
    OBVIOUS
  <2>1. s \in Sizes
    BY OpensAreBounded
  <2> QED BY <2>1, OrgType DEF Range
<1>2. PICK o \in Openers, s \in Sizes, m \in {"first", "next", "all"}, r \in Roles \cup {""} : Request(o, s, m, r)
  BY <1>1 DEF AskCli, AskBoard, AskFix, Openers
<1>3. PICK new \in Requests :
        /\ new.at = "look" /\ req' = [req EXCEPT ![o] = new]
        /\ opens' = opens + 1 /\ opens < MaxOpens
        /\ UNCHANGED <<pane, art, written, brief, told>>
  BY <1>2, RequestIs
<1> QED BY <1>3, RequestKeeps

\* An opener moves, and the world stays as it is.
LEMMA MoveKeeps ==
  ASSUME CrewInv, NEW o \in Openers, UNCHANGED <<pane, art, written, brief, told, opens>>,
         \/ LookOn(o) /\ More(o)
         \/ Drop(o)
         \/ At(o, "open") /\ More(o) /\ Sess(o).input \in {""} \cup written
         \/ At(o, "seed") /\ More(o) /\ Sess(o).input \in {""} \cup written
  PROVE  CrewInv'
<1>1. CrewTypeOK
  BY DEF CrewInv
<1>2. /\ req' \in [Openers -> Requests] /\ \A p \in Openers \ {o} : req'[p] = req[p]
      /\ \/ req'[o].at \in {"look", "idle"}
         \/ /\ req'[o].at \in {"open", "seed"}
            /\ More(o)' /\ Sess(o)' = Sess(o) /\ Sess(o).input \in {""} \cup written
  BY <1>1, Moves
<1>3. CrewTypeOK'
  BY <1>1, <1>2 DEF CrewTypeOK
<1>4. /\ \A p \in Openers : req'[p].at \in {"open", "create", "seed"} =>
             More(p)' /\ Sess(p)'.input \in {""} \cup written
      /\ \A p \in Openers : req'[p].at = "create" => p # o
  BY <1>2 DEF CrewInv, InputSeen, More, Sess
<1>5. \A p \in Openers : req'[p].at = "create" => brief'[Sess(p)'.role] # None
  BY <1>2, <1>4 DEF CrewInv, InputSeen, Sess
<1>6. InputSeen'
  BY <1>4, <1>5 DEF CrewInv, InputSeen
<1>7. InputThere'
  BY DEF CrewInv, InputThere
<1> QED BY <1>3, <1>6, <1>7 DEF CrewInv

\* A role is opened only when what it reads has been left: the board sees it
\* ready, the terminal looks at the file.
LEMMA LooksKeep == ASSUME CrewInv, BoardLooks \/ CliLooks PROVE CrewInv'
<1>1. CrewTypeOK /\ \A r \in Roles : HasArtifact(r) => r \in written
  BY DEF CrewInv, InputSeen, HasArtifact
<1>2. CASE BoardLooks
  <2> DEFINE o == "board"
  <2>1. o \in Openers /\ UNCHANGED <<pane, art, written, brief, told, opens>>
    BY <1>2 DEF BoardLooks, Openers
  <2>2. CASE At(o, "open") /\ More(o) /\ Status(Sess(o)) = "ready"
    <3>1. Sess(o).role \in Roles /\ Sess(o).input \in Roles \cup {""}
      BY <1>1, <2>1, <2>2, AimType
    <3>2. Sess(o).input # "" => HasArtifact(Sess(o).input)
      BY <2>2 DEF Status
    <3>3. Sess(o).input \in {""} \cup written
      BY <1>1, <3>1, <3>2
    <3> QED BY <2>1, <2>2, <3>3, MoveKeeps
  <2>3. CASE Drop(o) \/ (LookOn(o) /\ More(o))
    BY <2>1, <2>3, MoveKeeps
  <2> QED BY <1>2, <2>2, <2>3 DEF BoardLooks
<1>3. CASE CliLooks
  <2> DEFINE o == "cli"
  <2>1. o \in Openers /\ UNCHANGED <<pane, art, written, brief, told, opens>>
    BY <1>3 DEF CliLooks, Openers
  <2>2. CASE At(o, "open") /\ More(o) /\ (Sess(o).input = "" \/ HasArtifact(Sess(o).input))
    <3>1. Sess(o).input \in Roles \cup {""}
      BY <1>1, <2>1, <2>2, AimType
    <3>2. Sess(o).input \in {""} \cup written
      BY <1>1, <2>2, <3>1
    <3> QED BY <2>1, <2>2, <3>2, MoveKeeps
  <2>3. CASE Drop(o) \/ (LookOn(o) /\ More(o))
    BY <2>1, <2>3, MoveKeeps
  <2> QED BY <1>3, <2>2, <2>3 DEF CliLooks
<1> QED BY <1>2, <1>3

LEMMA WriteBriefKeeps == ASSUME CrewInv, NEW o \in Openers, WriteBrief(o) PROVE CrewInv'
<1>1. /\ CrewTypeOK /\ InputSeen /\ More(o) /\ Sess(o).input \in {""} \cup written
      /\ UNCHANGED <<pane, art, written, told, opens>>
  BY DEF CrewInv, InputSeen, WriteBrief
<1>2. Sess(o).role \in Roles /\ Sess(o).input \in Roles \cup {""}
  BY <1>1, AimType
<1>3. CASE Drop(o) /\ UNCHANGED brief
  BY <1>1, <1>3, MoveKeeps
<1>4. CASE At(o, "create") /\ brief' = [brief EXCEPT ![Sess(o).role] = Sess(o).input]
  <2>1. /\ req' \in [Openers -> Requests] /\ req'[o].at = "create" /\ More(o)' /\ Sess(o)' = Sess(o)
        /\ \A p \in Openers \ {o} : req'[p] = req[p]
    BY <1>1, <1>4, Moves
  <2>2. /\ brief' \in [Roles -> Inputs] /\ brief'[Sess(o).role] = Sess(o).input
        /\ \A r \in Roles : r # Sess(o).role => brief'[r] = brief[r]
    BY <1>1, <1>2, <1>4 DEF CrewTypeOK, Inputs
  <2>3. Sess(o).input # None
    BY <1>2 DEF Roles, None
  <2>4. CrewTypeOK'
    BY <1>1, <2>1, <2>2 DEF CrewTypeOK
  <2>5. /\ \A r \in Roles : brief'[r] \in {None, ""} \cup written
        /\ \A r \in Roles : pane[r] # "none" => brief'[r] # None
        /\ \A r \in Roles : brief[r] # None => brief'[r] # None
    BY <1>1, <2>2, <2>3 DEF InputSeen
  <2>6. \A p \in Openers : req'[p].at \in {"open", "create", "seed"} =>
             More(p)' /\ Sess(p)'.input \in {""} \cup written
    BY <1>1, <2>1 DEF InputSeen, More, Sess
  <2>7. ASSUME NEW p \in Openers, req'[p].at = "create" PROVE brief'[Sess(p)'.role] # None
    <3>1. CASE p = o
      BY <2>1, <2>2, <2>3, <3>1
    <3>2. CASE p # o
      <4>1. req[p].at = "create" /\ Sess(p)' = Sess(p)
        BY <2>1, <2>7, <3>2 DEF Sess
      <4>2. More(p) /\ brief[Sess(p).role] # None
        BY <1>1, <4>1 DEF InputSeen
      <4>3. Sess(p).role \in Roles
        BY <1>1, <4>2, AimType
      <4> QED BY <2>5, <4>1, <4>2, <4>3
    <3> QED BY <3>1, <3>2
  <2>8. InputSeen'
    BY <1>1, <2>5, <2>6, <2>7 DEF InputSeen
  <2>9. InputThere'
    BY <1>1 DEF CrewInv, InputThere
  <2> QED BY <2>4, <2>8, <2>9 DEF CrewInv
<1> QED BY <1>3, <1>4 DEF WriteBrief

LEMMA CreateSessionKeeps == ASSUME CrewInv, NEW o \in Openers, CreateSession(o) PROVE CrewInv'
<1>1. /\ CrewTypeOK /\ InputSeen /\ More(o) /\ Sess(o).input \in {""} \cup written
      /\ brief[Sess(o).role] # None
      /\ UNCHANGED <<brief, art, written, told, opens>>
  BY DEF CrewInv, InputSeen, CreateSession
<1>2. Sess(o).role \in Roles
  BY <1>1, AimType
<1>3. CASE Drop(o) /\ UNCHANGED pane
  BY <1>1, <1>3, MoveKeeps
<1>4. CASE At(o, "seed") /\ pane' = [pane EXCEPT ![Sess(o).role] = "bare"]
  <2>1. /\ req' \in [Openers -> Requests] /\ req'[o].at = "seed" /\ More(o)' /\ Sess(o)' = Sess(o)
        /\ \A p \in Openers \ {o} : req'[p] = req[p]
    BY <1>1, <1>4, Moves
  <2>2. /\ pane' \in [Roles -> {"none", "bare", "typed", "live"}] /\ pane'[Sess(o).role] = "bare"
        /\ \A r \in Roles : r # Sess(o).role => pane'[r] = pane[r]
    BY <1>1, <1>2, <1>4 DEF CrewTypeOK
  <2>3. CrewTypeOK'
    BY <1>1, <2>1, <2>2 DEF CrewTypeOK
  <2>4. \A r \in Roles : pane'[r] # "none" => brief[r] # None
    BY <1>1, <2>2 DEF InputSeen
  <2>5. \A p \in Openers :
          /\ req'[p].at \in {"open", "create", "seed"} => More(p)' /\ Sess(p)'.input \in {""} \cup written
          /\ req'[p].at = "create" => brief[Sess(p)'.role] # None
    BY <1>1, <2>1 DEF InputSeen, More, Sess
  <2>6. InputSeen'
    BY <1>1, <2>4, <2>5 DEF InputSeen
  <2>7. InputThere'
    BY <1>1, <2>2 DEF CrewInv, InputThere
  <2> QED BY <2>3, <2>6, <2>7 DEF CrewInv
<1> QED BY <1>3, <1>4 DEF CreateSession

\* Panes change, and openers stand still or are done with a role.
LEMMA PaneKeeps ==
  ASSUME CrewInv, UNCHANGED <<art, written, brief, opens>>,
         req' \in [Openers -> Requests],
         \A p \in Openers : req'[p].at \in {"look", "idle"} \/ req'[p] = req[p],
         pane' \in [Roles -> {"none", "bare", "typed", "live"}], told' \in [Roles -> Inputs],
         \A r \in Roles : pane'[r] # "none" => pane[r] # "none",
         \A r \in Roles : pane'[r] = "live" =>
            \/ pane[r] = "live" /\ told'[r] = told[r]
            \/ pane[r] # "none" /\ told'[r] = brief[r]
  PROVE  CrewInv'
<1>1. CrewTypeOK /\ InputSeen /\ InputThere
  BY DEF CrewInv
<1>2. CrewTypeOK'
  BY <1>1 DEF CrewTypeOK
<1>3. \A p \in Openers :
        /\ req'[p].at \in {"open", "create", "seed"} => More(p)' /\ Sess(p)'.input \in {""} \cup written
        /\ req'[p].at = "create" => brief[Sess(p)'.role] # None
  BY <1>1 DEF InputSeen, More, Sess
<1>4. InputSeen'
  BY <1>1, <1>3 DEF InputSeen
<1>5. InputThere'
  BY <1>1 DEF InputSeen, InputThere
<1> QED BY <1>2, <1>4, <1>5 DEF CrewInv

LEMMA SeedKeeps == ASSUME CrewInv, NEW o \in Openers, Seed(o) PROVE CrewInv'
<1>1. /\ CrewTypeOK /\ More(o) /\ UNCHANGED <<art, written, brief, told, opens>>
  BY DEF CrewInv, InputSeen, Seed
<1>2. Sess(o).role \in Roles
  BY <1>1, AimType
<1>3. CASE Drop(o) /\ UNCHANGED pane
  BY <1>1, <1>3, MoveKeeps
<1>4. CASE Exists(Sess(o).role) /\ pane' = [pane EXCEPT ![Sess(o).role] = "typed"] /\ (LookOn(o) \/ Drop(o))
  <2>1. /\ req' \in [Openers -> Requests]
        /\ \A p \in Openers : req'[p].at \in {"look", "idle"} \/ req'[p] = req[p]
    BY <1>1, <1>4, Moves
  <2>2. /\ pane' \in [Roles -> {"none", "bare", "typed", "live"}] /\ pane'[Sess(o).role] = "typed"
        /\ \A r \in Roles : r # Sess(o).role => pane'[r] = pane[r]
    BY <1>1, <1>2, <1>4 DEF CrewTypeOK
  <2>3. /\ \A r \in Roles : pane'[r] # "none" => pane[r] # "none"
        /\ \A r \in Roles : pane'[r] = "live" => pane[r] = "live" /\ told'[r] = told[r]
        /\ told' \in [Roles -> Inputs]
    BY <1>1, <1>4, <2>2 DEF Exists, CrewTypeOK
  <2> QED BY <1>1, <2>1, <2>2, <2>3, PaneKeeps
<1> QED BY <1>3, <1>4 DEF Seed

LEMMA SessionsKeep ==
  ASSUME CrewInv,
         \/ \E r \in Roles : AgentStarts(r) \/ CloseSession(r)
         \/ Reboot
  PROVE  CrewInv'
<1>1. CrewTypeOK
  BY DEF CrewInv
<1>2. \A r \in Roles : brief[r] \in Inputs
  BY <1>1 DEF CrewTypeOK
<1>3. ASSUME NEW r \in Roles, AgentStarts(r) PROVE CrewInv'
  <2>1. /\ pane' \in [Roles -> {"none", "bare", "typed", "live"}] /\ told' \in [Roles -> Inputs]
        /\ req' \in [Openers -> Requests]
        /\ pane[r] # "none" /\ pane'[r] = "live" /\ told'[r] = brief[r]
        /\ \A q \in Roles : q # r => pane'[q] = pane[q] /\ told'[q] = told[q]
        /\ UNCHANGED <<art, written, brief, opens>> /\ req' = req
    BY <1>1, <1>2, <1>3 DEF AgentStarts, CrewTypeOK
  <2> QED BY <2>1, PaneKeeps
<1>4. ASSUME NEW r \in Roles, CloseSession(r) PROVE CrewInv'
  <2>1. /\ pane' \in [Roles -> {"none", "bare", "typed", "live"}] /\ told' \in [Roles -> Inputs]
        /\ req' \in [Openers -> Requests]
        /\ pane'[r] = "none"
        /\ \A q \in Roles : q # r => pane'[q] = pane[q] /\ told'[q] = told[q]
        /\ UNCHANGED <<art, written, brief, opens>> /\ req' = req
    BY <1>1, <1>4 DEF CloseSession, CrewTypeOK, Inputs
  <2> QED BY <2>1, PaneKeeps
<1>5. CASE Reboot
  <2>1. /\ pane' \in [Roles -> {"none", "bare", "typed", "live"}] /\ told' \in [Roles -> Inputs]
        /\ req' \in [Openers -> Requests] /\ \A p \in Openers : req'[p].at = "idle"
        /\ \A q \in Roles : pane'[q] = "none"
        /\ UNCHANGED <<art, written, brief, opens>>
    BY <1>5, IdleType DEF Reboot, Inputs
  <2> QED BY <2>1, PaneKeeps
<1> QED BY <1>3, <1>4, <1>5

\* A file that is emptied again has been written all the same.
LEMMA WritesKeep == ASSUME CrewInv, NEW r \in Roles, AgentWrites(r) PROVE CrewInv'
<1>1. CrewTypeOK /\ InputSeen /\ InputThere
  BY DEF CrewInv
<1>2. /\ UNCHANGED <<pane, brief, told, req, opens>>
      /\ art' \in [Roles -> {"none", "empty", "text"}]
      /\ written \subseteq written' /\ written' \subseteq Roles
      /\ \A q \in Roles : art'[q] = "text" => q \in written'
  <2>1. art' \in [Roles -> {"none", "empty", "text"}]
    BY <1>1 DEF AgentWrites, CrewTypeOK
  <2> QED BY <1>1, <2>1 DEF AgentWrites, CrewTypeOK
<1>3. CrewTypeOK'
  BY <1>1, <1>2 DEF CrewTypeOK
<1>4. InputSeen'
  BY <1>1, <1>2 DEF InputSeen, More, Sess
<1>5. InputThere'
  BY <1>1, <1>2 DEF InputThere
<1> QED BY <1>3, <1>4, <1>5 DEF CrewInv

LEMMA CrewKeeps == ASSUME CrewInv, CrewNext PROVE CrewInv'
BY AskKeeps, LooksKeep, WriteBriefKeeps, CreateSessionKeeps, SeedKeeps, SessionsKeep, WritesKeep DEF CrewNext

-----------------------------------------------------------------------------
(* Headless.                                                                  *)

LEMMA NothingYet ==
  /\ LastSaid(<<>>, 0) = Nothing
  /\ Len(<<>>) = 0 /\ DOMAIN <<>> = {}
<1>1. DOMAIN <<>> = {} /\ Len(<<>>) = 0 /\ 1 .. 0 = {}
  OBVIOUS
<1> QED BY <1>1 DEF LastSaid, Heard

LEMMA FirstOnes == FirstTiers \subseteq Tiers /\ Registries \subseteq SUBSET Tiers
<1>1. \A a, b \in BOOLEAN, own \in SUBSET Tiers : FromEnv(a, b, own) \subseteq Tiers
  BY DEF FromEnv, Tiers, Cheap, Strong
<1>2. Registries \subseteq SUBSET Tiers
  BY <1>1 DEF Registries
<1> QED BY <1>2, ClassifyType DEF FirstTiers

\* What the two ways to begin have in common.
LEMMA Beginning ==
  ASSUME DoIdle \/ DoInit
  PROVE  /\ phase \in {"idle", "triage", "role"} /\ reg \subseteq Tiers /\ want \in Tiers /\ start = want
         /\ tried = {} /\ attempts = <<>> /\ approve \in {"auto", "deny"}
         /\ size \in Sizes /\ budget \in Budgets
         /\ spent = 0 /\ carry = Nothing /\ results = <<>> /\ sessions = <<>>
         /\ parked = {} /\ asks = 0 /\ updates = 0 /\ stopped = FALSE
<1>1. CASE DoIdle
  <2>1. Cheap \in Tiers /\ PairSize \in Sizes /\ (CHOOSE b \in Budgets : TRUE) \in Budgets
    BY BudgetsAreUnits DEF Tiers, Cheap, Strong, Sizes
  <2> QED BY <1>1, <2>1 DEF DoIdle
<1>2. CASE DoInit
  <2>1. reg \subseteq Tiers /\ want \in Tiers
    BY <1>2, FirstOnes DEF DoInit
  <2> QED BY <1>2, <2>1 DEF DoInit
<1> QED BY <1>1, <1>2

LEMMA DoInitially == DoIdle \/ DoInit => DoInv
<1> SUFFICES ASSUME DoIdle \/ DoInit PROVE DoInv
  OBVIOUS
<1>1. /\ phase \in {"idle", "triage", "role"} /\ tried = {} /\ attempts = <<>>
      /\ spent = 0 /\ carry = Nothing /\ results = <<>> /\ sessions = <<>> /\ stopped = FALSE
  BY Beginning
<1>2. want \in Tiers /\ start = want /\ want \in Cheap .. Strong + 1 /\ want <= want
  <2>1. want \in Tiers /\ start = want
    BY Beginning
  <2> QED BY <2>1 DEF Tiers, Cheap, Strong
<1>3. DoTypeOK
  <2>1. size \in Sizes
    BY Beginning
  <2>2. Len(Org(size)) \in Nat
    BY <2>1, OrgType
  <2>3. Len(results) <= Len(Org(size)) /\ Len(sessions) <= Len(Org(size))
    <3>1. Len(results) = 0 /\ Len(sessions) = 0
      BY <1>1
    <3> QED BY <2>2, <3>1
  <2>4. 0 \in 0 .. MaxAsks /\ 0 \in 0 .. MaxUpdates /\ Nothing \in Handoffs
    BY AsksAreBounded DEF Handoffs, Nothing
  <2>5. results \in Seq(Results) /\ sessions \in Seq(Sessions) /\ attempts \in Seq(Attempts)
    <3>1. <<>> \in Seq(Results) /\ <<>> \in Seq(Sessions) /\ <<>> \in Seq(Attempts)
      BY EmptySeq
    <3> QED BY <1>1, <3>1
  <2> QED BY <1>1, <1>2, <2>3, <2>4, <2>5, Beginning DEF DoTypeOK
<1>4. Fits /\ RunningIsBlank /\ CarryIsLast
  <2>1. ~Running /\ Len(sessions) = 0 /\ Len(results) = 0
    BY <1>1 DEF Running
  <2>2. RunningIsBlank
    BY <2>1 DEF RunningIsBlank, Running
  <2>3. Fits
    <3>1. Len(sessions) <= Len(results) + (IF Running THEN 1 ELSE 0)
      BY <2>1
    <3> QED BY <1>1, <2>1, <3>1 DEF Fits
  <2>4. CarryIsLast
    BY <1>1, NothingYet DEF CarryIsLast
  <2> QED BY <2>2, <2>3, <2>4
<1>5. Routed
  <2>1. AskedTiers = {} /\ DOMAIN attempts = {}
    BY <1>1, NothingYet DEF AskedTiers
  <2>2. \A u \in Tiers : ~(start <= u /\ u < want)
    BY <1>2 DEF Tiers, Cheap, Strong
  <2> QED BY <1>1, <1>2, <2>1, <2>2 DEF Routed
<1> QED BY <1>3, <1>4, <1>5 DEF DoInv

-----------------------------------------------------------------------------
(* The cascade.                                                               *)

LEMMA TriageFrame ==
  ASSUME DoInv, UnlessRouting, phase \in {"triage", "graded"}, phase' \in {"triage", "graded"}, size' = size
  PROVE  Fits' /\ RunningIsBlank' /\ CarryIsLast'
<1>1. UNCHANGED <<roleVars, stopped, results, sessions, carry, spent, budget>>
  BY DEF UnlessRouting, roleVars
<1> QED BY <1>1 DEF DoInv, Fits, Running, RunningIsBlank, CarryIsLast

LEMMA PassOverKeeps == ASSUME DoInv, PassOver PROVE DoInv'
<1>1. /\ DoTypeOK /\ Routed /\ phase = "triage" /\ phase' = phase /\ size' = size
      /\ want <= Strong /\ want' = want + 1 /\ UNCHANGED <<tried, attempts, reg, start>>
      /\ Best(reg, want) \subseteq tried
  BY DEF DoInv, PassOver, UnlessRouting
<1>2. want \in Tiers /\ want' \in Cheap .. Strong + 1 /\ start \in Tiers
  BY <1>1 DEF DoTypeOK, Tiers, Cheap, Strong
<1>3. DoTypeOK'
  BY <1>1, <1>2 DEF DoTypeOK, PassOver, UnlessRouting, roleVars
<1>4. ASSUME NEW u \in Tiers, start <= u, u < want', ~Kept
      PROVE  Best(reg, u) \subseteq tried
  <2>1. u = want \/ u < want
    BY <1>1, <1>2, <1>4 DEF Tiers, Cheap, Strong
  <2> QED BY <1>1, <1>4, <2>1 DEF Routed
<1>5. start <= want'
  BY <1>1, <1>2 DEF Routed, Tiers, Cheap, Strong
<1>6. Routed'
  BY <1>1, <1>4, <1>5 DEF Routed, AskedTiers, Kept
<1> QED BY <1>1, <1>3, <1>6, TriageFrame DEF DoInv, PassOver

LEMMA GiveUpKeeps == ASSUME DoInv, GiveUp PROVE DoInv'
<1>1. /\ DoTypeOK /\ Routed /\ phase = "triage" /\ phase' = "graded" /\ want > Strong
      /\ UNCHANGED <<want, tried, attempts, size, reg, start>>
  BY DEF DoInv, GiveUp, UnlessRouting
<1>2. DoTypeOK'
  BY <1>1 DEF DoTypeOK, GiveUp, UnlessRouting, roleVars
<1>3. Routed'
  BY <1>1 DEF Routed, AskedTiers, Kept
<1> QED BY <1>1, <1>2, <1>3, TriageFrame DEF DoInv, GiveUp

LEMMA CompleteType ==
  ASSUME NEW host, NEW reply \in Replies
  PROVE  Complete(host, reply) \in Words \cup {"error"}
<1>1. reply.text \in Words /\ "" \in Words
  BY DEF Replies, Words
<1> QED BY <1>1 DEF Complete

\* One more provider: not one that was asked, and the next tier's is settled.
LEMMA ConsultKeeps == ASSUME DoInv, Consult PROVE DoInv'
<1>1. /\ DoTypeOK /\ Routed /\ phase = "triage" /\ want <= Strong /\ want' = want + 1
      /\ UNCHANGED <<size, reg, start>> /\ UnlessRouting
  BY DEF DoInv, Consult, UnlessRouting
<1>2. PICK tier \in Best(reg, want) \ tried, word \in Words \cup {"error"} :
        /\ tried' = tried \cup {tier}
        /\ attempts' = Append(attempts, [tier |-> tier, word |-> word, kept |-> Keeps(tier, word)])
        /\ phase' = IF Keeps(tier, word) THEN "graded" ELSE phase
  BY CompleteType DEF Consult, RanMark
<1>3. want \in Tiers /\ want' \in Cheap .. Strong + 1 /\ start \in Tiers /\ reg \subseteq Tiers
  BY <1>1 DEF DoTypeOK, Tiers, Cheap, Strong
<1>4. tier \in Tiers /\ \A x \in Best(reg, want) : x = tier
  BY <1>2, <1>3, BestIsOne
<1> DEFINE e == [tier |-> tier, word |-> word, kept |-> Keeps(tier, word)]
           n == Len(attempts)
<1>5. e \in Attempts /\ e.tier = tier /\ e.word = word /\ e.kept = Keeps(tier, word)
  BY <1>4 DEF Attempts, Keeps
<1>6. attempts \in Seq(Attempts) /\ n \in Nat
  BY <1>1 DEF DoTypeOK
<1> HIDE DEF e
<1>7. /\ attempts' \in Seq(Attempts) /\ Len(attempts') = n + 1
      /\ DOMAIN attempts = 1 .. n /\ DOMAIN attempts' = 1 .. n + 1
      /\ \A i \in 1 .. n : attempts'[i] = attempts[i]
      /\ attempts'[n + 1] = e
  BY <1>2, <1>5, <1>6, AppendProperties DEF e
<1> HIDE DEF n
<1>8. phase' \in {"triage", "graded"}
  BY <1>1, <1>2
<1>9. DoTypeOK'
  BY <1>1, <1>2, <1>3, <1>4, <1>7, <1>8 DEF DoTypeOK, UnlessRouting, roleVars
<1>10. tried' = AskedTiers'
  <2>1. AskedTiers = {attempts[i].tier : i \in 1 .. n} /\ tried = AskedTiers
    BY <1>1, <1>7 DEF AskedTiers, Routed
  <2>2. AskedTiers' = {attempts'[i].tier : i \in 1 .. n + 1}
    BY <1>7 DEF AskedTiers
  <2>3. {attempts'[i].tier : i \in 1 .. n + 1} = {attempts'[i].tier : i \in 1 .. n} \cup {attempts'[n + 1].tier}
    BY <1>6 DEF n
  <2>4. {attempts'[i].tier : i \in 1 .. n} = {attempts[i].tier : i \in 1 .. n}
    BY <1>7
  <2> QED BY <1>2, <1>5, <1>7, <2>1, <2>2, <2>3, <2>4
<1>11. ASSUME NEW i \in DOMAIN attempts', NEW j \in DOMAIN attempts', attempts'[i].tier = attempts'[j].tier
       PROVE  i = j
  <2>1. \A k \in 1 .. n : attempts'[k].tier \in tried /\ attempts'[n + 1].tier \notin tried
    BY <1>1, <1>2, <1>5, <1>7 DEF Routed, AskedTiers
  <2>2. n \in Nat /\ i \in 1 .. n + 1 /\ j \in 1 .. n + 1
    BY <1>6, <1>7 DEF n
  <2>3. (i = n + 1 \/ i \in 1 .. n) /\ (j = n + 1 \/ j \in 1 .. n)
    BY <2>2
  <2>4. i \in 1 .. n /\ j \in 1 .. n => i = j
    BY <1>1, <1>7, <1>11 DEF Routed
  <2> QED BY <1>11, <2>1, <2>3, <2>4
<1>12. \A i \in 1 .. n : ~attempts[i].kept
  BY <1>1, <1>7 DEF Routed
<1>13. ASSUME NEW i \in DOMAIN attempts', attempts'[i].kept
       PROVE  /\ i = n + 1 /\ phase' = "graded"
              /\ attempts'[i].word \in Sizes \/ attempts'[i].tier = Strong
  <2>1. n \in Nat /\ i \in 1 .. n + 1
    BY <1>6, <1>7 DEF n
  <2>2. i = n + 1
    <3>1. i \in 1 .. n => FALSE
      BY <1>7, <1>12, <1>13
    <3> QED BY <2>1, <3>1
  <2>3. Keeps(tier, word)
    BY <1>5, <1>7, <1>13, <2>2
  <2> QED BY <1>2, <1>5, <1>7, <2>2, <2>3 DEF Keeps
<1>14. Keeps(tier, word) => Kept'
  <2>1. n + 1 \in 1 .. n + 1
    BY <1>6 DEF n
  <2> QED BY <1>5, <1>7, <2>1 DEF Kept
<1>15. ASSUME NEW u \in Tiers, start <= u, u < want', ~Kept'
       PROVE  Best(reg, u) \subseteq tried'
  <2>1. ~Kept
    BY <1>7, <1>12 DEF Kept
  <2>2. u = want \/ u < want
    BY <1>1, <1>3, <1>15 DEF Tiers, Cheap, Strong
  <2>3. u < want => Best(reg, u) \subseteq tried
    BY <1>1, <1>15, <2>1 DEF Routed
  <2> QED BY <1>2, <1>4, <2>2, <2>3
<1>16. start <= want'
  BY <1>1, <1>3 DEF Routed, Tiers, Cheap, Strong
<1>17. phase' = "graded" => Kept'
  BY <1>1, <1>2, <1>14
<1>18. Routed'
  BY <1>1, <1>7, <1>8, <1>10, <1>11, <1>13, <1>15, <1>16, <1>17 DEF Routed
<1> QED BY <1>1, <1>8, <1>9, <1>18, TriageFrame DEF DoInv

\* The registry is not asked again, and the run's roles have yet to start.
LEMMA TriagedKeeps == ASSUME DoInv, Triaged PROVE DoInv'
<1>1. /\ DoTypeOK /\ phase = "graded" /\ phase' = "role"
      /\ reg' = {} /\ want' = Cheap /\ start' = Cheap /\ tried' = {} /\ attempts' = <<>>
      /\ UNCHANGED <<approve, budget, spent, carry, results, sessions, parked, asks, updates, stopped>>
      /\ results = <<>> /\ sessions = <<>>
  BY DEF DoInv, Fits, Triaged, roleVars
<1>2. size' \in Sizes
  BY DEF Triaged
<1>3. DoTypeOK'
  <2>1. Len(Org(size')) \in Nat
    BY <1>2, OrgType
  <2>2. Len(results') <= Len(Org(size')) /\ Len(sessions') <= Len(Org(size'))
    <3>1. Len(results') = 0 /\ Len(sessions') = 0
      BY <1>1
    <3> QED BY <2>1, <3>1
  <2>3. <<>> \in Seq(Attempts)
    BY EmptySeq
  <2>4. Cheap \in Tiers /\ Cheap \in Cheap .. Strong + 1
    BY DEF Tiers, Cheap, Strong
  <2> QED BY <1>1, <1>2, <2>2, <2>3, <2>4 DEF DoTypeOK
<1>4. Fits' /\ RunningIsBlank'
  BY <1>1 DEF DoInv, Fits, Running, RunningIsBlank
<1>5. CarryIsLast'
  BY <1>1 DEF DoInv, CarryIsLast
<1>6. Routed'
  <2>1. AskedTiers' = {} /\ DOMAIN attempts' = {}
    BY <1>1, NothingYet DEF AskedTiers
  <2> QED BY <1>1, <2>1 DEF Routed
<1> QED BY <1>3, <1>4, <1>5, <1>6 DEF DoInv

-----------------------------------------------------------------------------
(* The roles.                                                                 *)

LEMMA RoutedFrame ==
  ASSUME DoInv, phase \notin {"triage", "graded"}, phase' \notin {"triage", "graded"}, UNCHANGED routeVars
  PROVE  Routed'
BY DEF DoInv, Routed, routeVars, AskedTiers, Kept

\* The chain has four roles at the most, and so the run four sessions.
LEMMA FourSessions ==
  ASSUME DoInv
  PROVE  /\ sessions \in Seq(Sessions) /\ Len(sessions) \in Nat /\ Len(sessions) <= 4
         /\ DOMAIN sessions = 1 .. Len(sessions)
         /\ results \in Seq(Results) /\ Len(results) \in Nat
         /\ Len(Org(size)) \in Nat /\ Len(Org(size)) <= 4
<1>1. /\ sessions \in Seq(Sessions) /\ results \in Seq(Results) /\ size \in Sizes
      /\ Len(sessions) <= Len(Org(size))
  BY DEF DoInv, DoTypeOK
<1>2. Len(Org(size)) \in Nat /\ Len(Org(size)) <= 4
  BY <1>1, OrgType
<1> QED BY <1>1, <1>2, LenProperties

LEMMA OneMore ==
  ASSUME NEW m \in Nat, NEW n \in Nat
  PROVE  /\ m < n => m + 1 <= n /\ m + 1 \in 1 .. n
         /\ n <= m + 0 => n <= m + 1
         /\ n <= m + 0 => n + 1 <= m + 1
OBVIOUS

LEMMA RoleType == ASSUME DoInv, RolesLeft PROVE Role \in Roles
<1>1. size \in Sizes
  BY DEF DoInv, DoTypeOK
<1>2. Len(results) + 1 \in 1 .. Len(Org(size))
  BY FourSessions, OneMore DEF RolesLeft
<1> QED BY <1>1, <1>2, OrgType DEF Role

LEMMA SkipType ==
  ASSUME DoInv, RolesLeft, NEW why \in {None, "budget", "start failed", "prompt failed"}, Skip(why)
  PROVE  /\ results' \in Seq(Results) /\ Len(results') = Len(results) + 1
         /\ Len(results') <= Len(Org(size))
<1>1. results \in Seq(Results) /\ Len(results) \in Nat /\ Len(Org(size)) \in Nat
  BY FourSessions
<1>2. Role \in Roles
  BY RoleType
<1>3. [role |-> Role, skipped |-> why] \in Results
  BY <1>2 DEF Results
<1>4. results' \in Seq(Results) /\ Len(results') = Len(results) + 1
  BY <1>1, <1>3, AppendProperties DEF Skip
<1>5. Len(results) + 1 <= Len(Org(size))
  BY <1>1, OneMore DEF RolesLeft
<1> QED BY <1>4, <1>5

LEMMA SkipsKeep == ASSUME DoInv, BudgetSkip \/ StartFails PROVE DoInv'
<1>1. /\ phase = "role" /\ phase' = "role" /\ RolesLeft
      /\ UNCHANGED <<routeVars, approve, size, budget, spent, carry, sessions, parked, asks, updates, stopped>>
      /\ \E why \in {None, "budget", "start failed", "prompt failed"} : Skip(why)
  BY DEF BudgetSkip, StartFails
<1>2. /\ results' \in Seq(Results) /\ Len(results') = Len(results) + 1
      /\ Len(results') <= Len(Org(size))
  BY <1>1, SkipType
<1>3. DoTypeOK'
  BY <1>1, <1>2 DEF DoInv, DoTypeOK, routeVars
<1>4. Fits'
  <2>1. Len(sessions) <= Len(results) + 0
    BY <1>1 DEF DoInv, Fits, Running
  <2>2. Len(results) \in Nat /\ Len(sessions) \in Nat
    BY FourSessions
  <2>3. Len(sessions) <= Len(results) + 1
    BY <2>1, <2>2, OneMore
  <2>4. Len(sessions) <= Len(results') + 0
    BY <1>2, <2>2, <2>3
  <2> QED BY <1>1, <2>4 DEF Fits, Running
<1>5. RunningIsBlank' /\ CarryIsLast'
  BY <1>1 DEF DoInv, RunningIsBlank, CarryIsLast
<1> QED BY <1>1, <1>3, <1>4, <1>5, RoutedFrame DEF DoInv

\* Neither a request, nor an end, nor a signal changes a session or a result.
LEMMA StandStillKeeps ==
  ASSUME DoInv, AskPermission \/ TurnEnds \/ TurnFails \/ Report \/ Interrupt
  PROVE  DoInv'
<1>1. /\ phase \in {"role", "prompt", "read", "charge"} /\ phase' \in {"role", "prompt", "read", "charge", "done"}
      /\ phase' \in {"prompt", "read"} => phase \in {"prompt", "read"}
      /\ Running' <=> Running
      /\ UNCHANGED <<routeVars, approve, size, roleVars, budget, spent, carry, results, sessions, updates>>
      /\ parked' \subseteq Offers /\ asks' \in 0 .. MaxAsks /\ stopped' \in BOOLEAN
  <2>1. parked \subseteq Offers /\ asks \in 0 .. MaxAsks /\ stopped \in BOOLEAN
    BY DEF DoInv, DoTypeOK
  <2>2. CASE AskPermission
    <3>1. asks' \in 0 .. MaxAsks
      BY <2>1, <2>2, AsksAreBounded DEF AskPermission
    <3> QED BY <2>1, <2>2, <3>1 DEF AskPermission, Running, roleVars
  <2>3. CASE TurnEnds \/ TurnFails
    BY <2>1, <2>3 DEF TurnEnds, TurnFails, Running, roleVars
  <2>4. CASE Report \/ Interrupt
    BY <2>1, <2>4 DEF Report, Interrupt, Running, roleVars
  <2> QED BY <2>2, <2>3, <2>4
<1>2. DoTypeOK'
  BY <1>1 DEF DoInv, DoTypeOK, routeVars
<1>3. Fits' /\ RunningIsBlank' /\ CarryIsLast'
  BY <1>1 DEF DoInv, Fits, RolesLeft, RunningIsBlank, CarryIsLast
<1> QED BY <1>1, <1>2, <1>3, RoutedFrame DEF DoInv

\* The next session is told what is carried.
LEMMA StartRoleKeeps == ASSUME DoInv, StartRole PROVE DoInv'
<1> DEFINE n == Len(sessions)
           e == [role |-> Role, told |-> carry, answered |-> FALSE, out |-> 0,
                 stream |-> <<>>, text |-> 0, cost |-> 0]
<1>1. /\ DoTypeOK /\ phase = "role" /\ phase' = "prompt" /\ RolesLeft
      /\ sessions' = Append(sessions, e) /\ asks' = 0
      /\ UNCHANGED <<routeVars, approve, size, budget, spent, carry, results, parked, updates, stopped>>
  BY DEF DoInv, StartRole
<1>2. sessions \in Seq(Sessions) /\ n \in Nat /\ n <= Len(results) + 0 /\ Len(results) \in Nat
  BY <1>1, FourSessions DEF DoInv, Fits, Running
<1>3. Role \in Roles
  BY <1>1, RoleType
<1>4. e \in Sessions /\ e.told = carry /\ e.answered = FALSE /\ e.out <= e.text
  <2>1. <<>> \in Seq(Updates)
    BY EmptySeq
  <2> QED BY <1>1, <1>3, <2>1 DEF Sessions, DoTypeOK
<1> HIDE DEF e
<1>5. /\ sessions' \in Seq(Sessions) /\ Len(sessions') = n + 1 /\ sessions'[n + 1] = e
      /\ DOMAIN sessions' = 1 .. n + 1 /\ DOMAIN sessions = 1 .. n
      /\ \A i \in 1 .. n : sessions'[i] = sessions[i]
  BY <1>1, <1>2, <1>4, AppendProperties
<1>6. n \in 0 .. 3 /\ n + 1 <= Len(Org(size))
  <2>1. PICK m \in Nat, k \in Nat : m = Len(results) /\ k = Len(Org(size))
    BY FourSessions
  <2>2. m < k /\ k <= 4 /\ n <= m
    BY <1>1, <1>2, <2>1, FourSessions DEF RolesLeft
  <2> HIDE DEF n
  <2>3. n \in 0 .. 3 /\ n + 1 <= k
    BY <1>2, <2>2
  <2> QED BY <2>1, <2>3
<1>7. DoTypeOK'
  <2>1. asks' \in 0 .. MaxAsks
    BY <1>1, AsksAreBounded
  <2> QED BY <1>1, <1>5, <1>6, <2>1 DEF DoTypeOK, routeVars
<1>8. Fits' /\ RunningIsBlank'
  <2>1. n + 1 <= Len(results) + 1 /\ n + 1 > 0
    BY <1>2, OneMore
  <2> QED BY <1>1, <1>4, <1>5, <2>1 DEF Fits, Running, RolesLeft, RunningIsBlank
<1> HIDE DEF n
<1>9. CarryIsLast'
  <2>1. n + 1 \in 1 .. 4 /\ ~sessions'[n + 1].answered /\ n \in 0 .. 4
    BY <1>4, <1>5, <1>6
  <2>2. ASSUME NEW k \in 0 .. n PROVE LastSaid(sessions', k) = LastSaid(sessions, k)
    <3>1. k \in 0 .. 4 /\ \A j \in 1 .. k : sessions'[j] = sessions[j]
      BY <1>5, <1>6
    <3> QED BY <3>1, LastSaidAgrees
  <2>3. /\ carry = LastSaid(sessions, n)
        /\ \A i \in 1 .. n : sessions[i].told = LastSaid(sessions, i - 1) /\ sessions[i].out <= sessions[i].text
    BY <1>5 DEF DoInv, CarryIsLast, n
  <2>4. LastSaid(sessions', n + 1) = LastSaid(sessions', n)
    <3>1. (n + 1) - 1 = n
      BY <1>6
    <3> QED BY <2>1, <3>1, LastSaidNext
  <2>5. n \in 0 .. n /\ \A i \in 1 .. n + 1 : (i = n + 1 /\ i - 1 = n) \/ (i \in 1 .. n /\ i - 1 \in 0 .. n)
    BY <1>6
  <2>6. \A i \in 1 .. n + 1 :
          sessions'[i].told = LastSaid(sessions', i - 1) /\ sessions'[i].out <= sessions'[i].text
    BY <1>4, <1>5, <2>2, <2>3, <2>5
  <2> QED BY <1>1, <1>5, <2>2, <2>3, <2>4, <2>5, <2>6 DEF CarryIsLast
<1> QED BY <1>1, <1>7, <1>8, <1>9, RoutedFrame DEF DoInv

\* One session changes.
LEMMA OneChanges ==
  ASSUME NEW ss \in Seq(Sessions), NEW i \in DOMAIN ss, NEW e \in Sessions
  PROVE  /\ [ss EXCEPT ![i] = e] \in Seq(Sessions) /\ Len([ss EXCEPT ![i] = e]) = Len(ss)
         /\ DOMAIN [ss EXCEPT ![i] = e] = DOMAIN ss
         /\ \A j \in DOMAIN ss : j # i => [ss EXCEPT ![i] = e][j] = ss[j]
         /\ [ss EXCEPT ![i] = e][i] = e
<1>1. i \in 1 .. Len(ss) /\ DOMAIN ss = 1 .. Len(ss)
  OBVIOUS
<1>2. [ss EXCEPT ![i] = e] \in Seq(Sessions) /\ Len([ss EXCEPT ![i] = e]) = Len(ss)
  BY <1>1, ExceptSeq
<1>3. DOMAIN [ss EXCEPT ![i] = e] = DOMAIN ss
  BY <1>1, <1>2, LenProperties
<1> QED BY <1>2, <1>3

\* What the log gains of a session, or what is queued for it, changes nothing
\* that was read of it.
LEMMA LogGrows ==
  ASSUME DoInv, NEW i \in DOMAIN sessions, NEW e \in Sessions,
         e.role = sessions[i].role, e.told = sessions[i].told, e.answered = sessions[i].answered,
         e.out = sessions[i].out, sessions[i].text <= e.text,
         sessions' = [sessions EXCEPT ![i] = e], phase \notin {"triage", "graded"},
         UNCHANGED <<phase, routeVars, approve, size, budget, spent, carry, results, parked, asks, stopped>>,
         updates' \in 0 .. MaxUpdates
  PROVE  DoInv'
<1>1. sessions \in Seq(Sessions) /\ DOMAIN sessions = 1 .. Len(sessions) /\ Len(sessions) \in Nat /\ Len(sessions) <= 4
  BY FourSessions
<1>2. /\ sessions' \in Seq(Sessions) /\ Len(sessions') = Len(sessions) /\ DOMAIN sessions' = DOMAIN sessions
      /\ \A j \in DOMAIN sessions : j # i => sessions'[j] = sessions[j]
      /\ sessions'[i] = e
  BY <1>1, OneChanges
<1>3. \A j \in DOMAIN sessions :
        /\ sessions'[j].role = sessions[j].role /\ sessions'[j].told = sessions[j].told
        /\ sessions'[j].answered = sessions[j].answered /\ sessions'[j].out = sessions[j].out
  BY <1>2
<1>4. DoTypeOK'
  BY <1>2 DEF DoInv, DoTypeOK, routeVars
<1>5. Fits'
  BY <1>2 DEF DoInv, Fits, Running, RolesLeft
<1>6. RunningIsBlank'
  <2>1. CASE Running
    <3>1. Len(sessions) \in DOMAIN sessions
      <4>1. Len(sessions) > 0
        BY <2>1 DEF DoInv, Fits
      <4> QED BY <1>1, <4>1
    <3> QED BY <1>2, <1>3, <3>1 DEF DoInv, RunningIsBlank
  <2>2. CASE ~Running
    BY <2>2 DEF RunningIsBlank, Running
  <2> QED BY <2>1, <2>2
<1>7. ASSUME NEW k \in 0 .. Len(sessions) PROVE LastSaid(sessions', k) = LastSaid(sessions, k)
  <2>1. k \in 0 .. 4 /\ \A j \in 1 .. k : j \in DOMAIN sessions
    BY <1>1
  <2>2. \A j \in 1 .. k :
          /\ sessions'[j].answered = sessions[j].answered /\ sessions'[j].out = sessions[j].out
          /\ sessions'[j].role = sessions[j].role
    BY <1>3, <2>1
  <2>3. PICK tt : tt = sessions'
    OBVIOUS
  <2>4. \A j \in 1 .. k :
          tt[j].answered = sessions[j].answered /\ tt[j].out = sessions[j].out /\ tt[j].role = sessions[j].role
    BY <2>2, <2>3
  <2>5. LastSaid(tt, k) = LastSaid(sessions, k)
    BY <2>1, <2>4, LastSaidAgrees
  <2> QED BY <2>3, <2>5
<1>8. ASSUME NEW j \in DOMAIN sessions PROVE sessions'[j].out <= sessions'[j].text
  <2>1. sessions[j] \in Sessions /\ sessions[j].out <= sessions[j].text
    BY <1>1 DEF DoInv, CarryIsLast
  <2>2. sessions[j].out \in Nat /\ sessions[j].text \in Nat /\ e.text \in Nat
    BY <2>1 DEF Sessions
  <2> QED BY <1>2, <2>1, <2>2
<1>9. CarryIsLast'
  <2>1. \A j \in DOMAIN sessions : j - 1 \in 0 .. Len(sessions)
    BY <1>1
  <2>2. Len(sessions) \in 0 .. Len(sessions)
    BY <1>1
  <2>3. \A j \in DOMAIN sessions : sessions'[j].told = LastSaid(sessions', j - 1)
    BY <1>3, <1>7, <2>1 DEF DoInv, CarryIsLast
  <2>4. carry' = LastSaid(sessions', Len(sessions'))
    BY <1>2, <1>7, <2>2 DEF DoInv, CarryIsLast
  <2> QED BY <1>2, <1>8, <2>3, <2>4 DEF CarryIsLast
<1> QED BY <1>4, <1>5, <1>6, <1>9, RoutedFrame DEF DoInv

\* The session that runs is one of them.
LEMMA LastIs ==
  ASSUME DoInv, Running
  PROVE  /\ Len(sessions) \in DOMAIN sessions /\ sessions[Len(sessions)] \in Sessions
         /\ Len(sessions) \in 1 .. 4 /\ sessions \in Seq(Sessions)
<1>1. /\ sessions \in Seq(Sessions) /\ DOMAIN sessions = 1 .. Len(sessions)
      /\ Len(sessions) \in Nat /\ Len(sessions) <= 4
  BY FourSessions
<1>2. Len(sessions) > 0
  BY DEF DoInv, Fits
<1>3. Len(sessions) \in DOMAIN sessions /\ Len(sessions) \in 1 .. 4
  BY <1>1, <1>2
<1> QED BY <1>1, <1>3

LEMMA AgentUpdatesKeeps == ASSUME DoInv, AgentUpdates PROVE DoInv'
<1> DEFINE n == Len(sessions)
<1>1. /\ Running /\ phase \notin {"triage", "graded"} /\ updates < MaxUpdates /\ updates' = updates + 1
      /\ UNCHANGED <<phase, routeVars, approve, size, budget, spent, carry, results, parked, asks, stopped>>
  BY DEF AgentUpdates, Running
<1>2. n \in DOMAIN sessions /\ sessions[n] \in Sessions
  BY <1>1, LastIs
<1>3. PICK u \in {Text} \union {Usage(c) : c \in Costs} :
        sessions' = [sessions EXCEPT ![n].stream = Append(@, u)]
  BY DEF AgentUpdates
<1>4. u \in Updates
  BY DEF Updates, Text, Usage
<1> DEFINE e == [sessions[n] EXCEPT !.stream = Append(sessions[n].stream, u)]
<1>5. sessions' = [sessions EXCEPT ![n] = e]
  BY <1>2, <1>3
<1>6. sessions[n].stream \in Seq(Updates) /\ Append(sessions[n].stream, u) \in Seq(Updates) /\ sessions[n].text \in Nat
  BY <1>2, <1>4, AppendProperties DEF Sessions
<1>7. /\ e \in Sessions /\ e.role = sessions[n].role /\ e.told = sessions[n].told
      /\ e.answered = sessions[n].answered /\ e.out = sessions[n].out /\ e.text = sessions[n].text
  BY <1>2, <1>6 DEF Sessions
<1>8. sessions[n].text <= e.text
  BY <1>6, <1>7
<1>9. updates' \in 0 .. MaxUpdates
  <2>1. updates \in 0 .. MaxUpdates
    BY DEF DoInv, DoTypeOK
  <2> QED BY <1>1, <2>1, AsksAreBounded
<1> HIDE DEF e, n
<1> QED BY <1>1, <1>2, <1>5, <1>7, <1>8, <1>9, LogGrows

LEMMA ConsumeKeeps == ASSUME DoInv, NEW i \in DOMAIN sessions, Consume(i) PROVE DoInv'
<1> DEFINE s == sessions[i]
           u == Head(s.stream)
<1>1. /\ s.stream # <<>>
      /\ UNCHANGED <<phase, routeVars, approve, size, budget, spent, carry, results, parked, asks, updates, stopped>>
  BY DEF Consume
<1>2. PICK logged \in BOOLEAN :
        sessions' = [sessions EXCEPT ![i] =
            [s EXCEPT !.stream = Tail(@),
                      !.text = IF logged THEN @ + u.text ELSE @,
                      !.cost = IF logged /\ u.cost > @ THEN u.cost ELSE @]]
  BY DEF Consume
<1> DEFINE text == IF logged THEN s.text + u.text ELSE s.text
           cost == IF logged /\ u.cost > s.cost THEN u.cost ELSE s.cost
           e == [s EXCEPT !.stream = Tail(s.stream), !.text = text, !.cost = cost]
<1>3. s \in Sessions
  <2>1. sessions \in Seq(Sessions)
    BY FourSessions
  <2> QED BY <2>1
<1>4. s.stream \in Seq(Updates) /\ s.text \in Nat /\ s.cost \in Nat
  BY <1>3 DEF Sessions
<1>5. u \in Updates /\ Tail(s.stream) \in Seq(Updates)
  BY <1>1, <1>4, HeadTailProperties
<1>6. u.text \in Nat /\ u.cost \in Nat
  <2>1. \A x \in Updates : x.text \in {0, 1} /\ x.cost \in Costs \cup {0}
    BY DEF Updates
  <2>2. u.text \in {0, 1} /\ u.cost \in Costs \cup {0}
    BY <1>5, <2>1
  <2> HIDE DEF u
  <2>3. \A x : x \in Costs \cup {0} => x \in Nat
    BY BudgetsAreUnits
  <2> QED BY <2>2, <2>3
<1>7. sessions' = [sessions EXCEPT ![i] = e]
  BY <1>2, <1>3 DEF Sessions
<1>8. text \in Nat /\ cost \in Nat /\ s.text <= text
  BY <1>4, <1>6
<1> HIDE DEF text, cost
<1>9. /\ e \in Sessions /\ e.role = s.role /\ e.told = s.told
      /\ e.answered = s.answered /\ e.out = s.out /\ e.text = text
  BY <1>3, <1>5, <1>8 DEF Sessions
<1>10. phase \notin {"triage", "graded"}
  BY NothingYet DEF DoInv, Fits
<1>11. updates' \in 0 .. MaxUpdates
  BY <1>1 DEF DoInv, DoTypeOK
<1> HIDE DEF e
<1> QED BY <1>1, <1>7, <1>8, <1>9, <1>10, <1>11, LogGrows

\* The answer that is read is the last one.
LEMMA ReadAnswerKeeps == ASSUME DoInv, ReadAnswer PROVE DoInv'
<1> DEFINE n == Len(sessions)
           s == sessions[n]
           k == IF stopped THEN 0 ELSE s.text
           e == [s EXCEPT !.answered = TRUE, !.out = k]
<1>1. /\ DoTypeOK /\ Running /\ phase = "read" /\ phase' = "charge"
      /\ carry' = HandOff(s.role, k)
      /\ UNCHANGED <<routeVars, approve, size, budget, spent, results, parked, asks, updates, stopped>>
  BY DEF DoInv, ReadAnswer, Carried, Running
<1>2. n \in DOMAIN sessions /\ s \in Sessions /\ n \in 1 .. 4 /\ sessions \in Seq(Sessions) /\ DOMAIN sessions = 1 .. n
  BY <1>1, LastIs
<1>3. sessions' = [sessions EXCEPT ![n] = e]
  BY <1>2 DEF ReadAnswer
<1>4. k \in Nat /\ k <= s.text /\ s.role \in Roles
  BY <1>2 DEF Sessions
<1> HIDE DEF k
<1>5. /\ e \in Sessions /\ e.told = s.told /\ e.answered /\ e.out = k /\ e.text = s.text /\ e.role = s.role
  BY <1>2, <1>4 DEF Sessions
<1> HIDE DEF e
<1>6. /\ sessions' \in Seq(Sessions) /\ Len(sessions') = n /\ DOMAIN sessions' = 1 .. n
      /\ \A j \in 1 .. n : j # n => sessions'[j] = sessions[j]
      /\ sessions'[n] = e
  BY <1>2, <1>3, <1>5, OneChanges
<1>7. DoTypeOK'
  <2>1. carry' \in Handoffs
    BY <1>1, <1>4 DEF HandOff, Handoffs, Nothing
  <2>2. Len(sessions') <= Len(Org(size))
    BY <1>1, <1>6 DEF DoTypeOK
  <2> QED BY <1>1, <1>6, <2>1, <2>2 DEF DoTypeOK, routeVars
<1>8. Fits' /\ RunningIsBlank'
  BY <1>1, <1>6 DEF DoInv, Fits, Running, RolesLeft, RunningIsBlank
<1> HIDE DEF n
<1>9. n - 1 \in 0 .. 3 /\ \A i \in 1 .. n : i - 1 \in 0 .. (n - 1)
  BY <1>2
<1>10. CarryIsLast'
  <2>1. ASSUME NEW m \in 0 .. (n - 1) PROVE LastSaid(sessions', m) = LastSaid(sessions, m)
    <3>1. m \in 0 .. 4 /\ \A j \in 1 .. m : sessions'[j] = sessions[j]
      BY <1>6, <1>9
    <3> QED BY <3>1, LastSaidAgrees
  <2>2. \A i \in 1 .. n : sessions[i].told = LastSaid(sessions, i - 1) /\ sessions[i].out <= sessions[i].text
    BY <1>2 DEF DoInv, CarryIsLast
  <2>3. LastSaid(sessions', n) = HandOff(s.role, k)
    BY <1>2, <1>5, <1>6, LastSaidNext
  <2>4. \A i \in 1 .. n : sessions'[i].told = sessions[i].told /\ sessions'[i].out <= sessions'[i].text
    BY <1>4, <1>5, <1>6, <2>2
  <2>5. \A i \in 1 .. n : sessions'[i].told = LastSaid(sessions', i - 1)
    BY <1>9, <2>1, <2>2, <2>4
  <2> QED BY <1>1, <1>6, <2>3, <2>4, <2>5 DEF CarryIsLast
<1> QED BY <1>1, <1>7, <1>8, <1>10, RoutedFrame DEF DoInv

\* The charge ends the role, and leaves the sessions alone.
LEMMA ChargeKeeps == ASSUME DoInv, Charge PROVE DoInv'
<1>1. /\ DoTypeOK /\ Running /\ phase = "charge" /\ phase' = "role" /\ RolesLeft
      /\ UNCHANGED <<routeVars, approve, size, budget, carry, sessions, parked, asks, updates, stopped>>
      /\ spent' = spent + (IF stopped THEN 0 ELSE sessions[Len(sessions)].cost)
      /\ \E why \in {None, "budget", "start failed", "prompt failed"} : Skip(why)
  BY DEF DoInv, Fits, Charge, Running
<1>2. /\ results' \in Seq(Results) /\ Len(results') = Len(results) + 1 /\ Len(results') <= Len(Org(size))
  BY <1>1, SkipType
<1>3. spent' \in Nat
  <2>1. PICK c \in Nat, m \in Nat : c = sessions[Len(sessions)].cost /\ m = spent
    BY <1>1, LastIs DEF Sessions, DoTypeOK
  <2>2. spent' = m + (IF stopped THEN 0 ELSE c)
    BY <1>1, <2>1
  <2>3. CASE stopped
    BY <2>2, <2>3
  <2>4. CASE ~stopped
    BY <2>2, <2>4
  <2> QED BY <2>3, <2>4
<1>4. DoTypeOK'
  BY <1>1, <1>2, <1>3 DEF DoTypeOK, routeVars
<1>5. Fits' /\ RunningIsBlank' /\ CarryIsLast'
  <2>1. Len(sessions) <= Len(results) + 1
    BY <1>1 DEF DoInv, Fits
  <2>2. Len(sessions) <= Len(results') + 0
    <3>1. Len(results) \in Nat /\ Len(sessions) \in Nat
      BY FourSessions
    <3> QED BY <1>2, <2>1, <3>1
  <2> QED BY <1>1, <2>2 DEF DoInv, Fits, Running, RunningIsBlank, CarryIsLast
<1> QED BY <1>1, <1>4, <1>5, RoutedFrame DEF DoInv

LEMMA DoKeeps == ASSUME DoInv, DoNext PROVE DoInv'
BY PassOverKeeps, ConsultKeeps, GiveUpKeeps, TriagedKeeps, SkipsKeep, StartRoleKeeps, StandStillKeeps,
   AgentUpdatesKeeps, ConsumeKeeps, ReadAnswerKeeps, ChargeKeeps DEF DoNext

-----------------------------------------------------------------------------
(* The two together.                                                          *)

LEMMA InvInitially == Init => IInv
BY CrewInitially, DoInitially DEF Init, IInv

LEMMA InvKept == IInv /\ [Next]_vars => IInv'
<1> SUFFICES ASSUME IInv, [Next]_vars PROVE IInv'
  OBVIOUS
<1>1. ASSUME UNCHANGED crewVars PROVE CrewInv'
  BY <1>1 DEF IInv, CrewInv, CrewTypeOK, InputSeen, InputThere, More, Sess, crewVars
<1>2. ASSUME UNCHANGED doVars PROVE DoInv'
  <2>1. UNCHANGED <<phase, reg, want, start, tried, attempts, approve, size,
                    budget, spent, carry, results, sessions, parked, asks, updates, stopped>>
    BY <1>2 DEF doVars, routeVars, roleVars
  <2>2. DoTypeOK' /\ Fits'
    BY <2>1 DEF IInv, DoInv, DoTypeOK, Fits, Running, RolesLeft
  <2>3. RunningIsBlank' /\ CarryIsLast'
    BY <2>1 DEF IInv, DoInv, RunningIsBlank, CarryIsLast
  <2>4. Routed'
    BY <2>1 DEF IInv, DoInv, Routed, AskedTiers, Kept
  <2> QED BY <2>2, <2>3, <2>4 DEF DoInv
<1>3. CASE DoNext /\ UNCHANGED crewVars
  BY <1>1, <1>3, DoKeeps DEF IInv
<1>4. CASE CrewNext /\ UNCHANGED doVars
  BY <1>2, <1>4, CrewKeeps DEF IInv
<1>5. CASE UNCHANGED vars
  BY <1>1, <1>2, <1>5 DEF IInv, vars
<1> QED BY <1>3, <1>4, <1>5 DEF Next

LEMMA Invariance == Spec => []IInv
BY InvInitially, InvKept, PTL DEF Spec

-----------------------------------------------------------------------------
(* What follows.                                                              *)

\* Every variable keeps its type, in either way of running a task.
THEOREM TypeCorrect == Spec => []TypeOK
<1>1. IInv => TypeOK
  BY DEF IInv, DoInv, CrewInv, TypeOK
<1> QED BY <1>1, Invariance, PTL

\* For any sizes asked for, in any order and by both openers at once: an agent
\* is told to read the previous role's file only after that role has put
\* something in it (crew.go:116, daemon/crew.go:120, cmd/amac/crew.go:82).
THEOREM NothingReadUnwritten == Spec => []InputThere
<1>1. IInv => InputThere
  BY DEF IInv, CrewInv
<1> QED BY <1>1, Invariance, PTL

\* For any costs, updates and permissions asked, and wherever the writer of the
\* log is when an answer is read: each role is told what was read of the nearest
\* one before it that answered, through skips and failures, and the log keeps at
\* least that much of it (orchestrator.go:254-317, supervisor.go:146-179).
THEOREM CarryIsHandedOn == Spec => []CarryHolds
<1>1. ASSUME IInv PROVE CarryHolds
  <2>1. \A i \in DOMAIN sessions :
          sessions[i].told = LastSaid(sessions, i - 1) /\ sessions[i].out <= sessions[i].text
    BY <1>1 DEF IInv, DoInv, CarryIsLast
  <2> QED BY <2>1 DEF CarryHolds, LastSaid, Heard, Latest
<1> QED BY <1>1, Invariance, PTL

\* For any configured tiers and whatever the providers reply: no provider twice,
\* nothing unverified kept below the strongest tier, and no giving up while one
\* at or above the prompt's tier is unasked (router.go:104-145).
THEOREM CascadeIsSound == Spec => []RouteSound
<1>1. ASSUME IInv PROVE RouteSound
  <2>1. Routed /\ reg \subseteq Tiers
    BY <1>1 DEF IInv, DoInv, DoTypeOK
  <2>2. ASSUME phase = "graded", ~Kept, NEW t \in reg, t >= start
        PROVE  t \in AskedTiers
    <3>1. t \in Tiers /\ Best(reg, t) = {t}
      BY <2>1, <2>2, BestIsOne
    <3>2. want \in Cheap .. Strong + 1 /\ start \in Tiers /\ want > Strong
      BY <1>1, <2>1, <2>2 DEF IInv, DoInv, DoTypeOK, Routed
    <3>3. start <= t /\ t < want
      BY <2>2, <3>1, <3>2 DEF Tiers, Cheap, Strong
    <3>4. Best(reg, t) \subseteq tried
      BY <2>1, <2>2, <3>1, <3>3 DEF Routed
    <3> QED BY <2>1, <3>1, <3>4 DEF Routed
  <2>3. phase = "graded" /\ ~Kept => {t \in reg : t >= start} \subseteq AskedTiers
    BY <2>2
  <2> QED BY <2>1, <2>3 DEF RouteSound, Routed, AskedTiers, Kept
<1> QED BY <1>1, Invariance, PTL

=============================================================================
