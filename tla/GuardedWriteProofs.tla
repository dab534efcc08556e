-------------------------- MODULE GuardedWriteProofs --------------------------
(* GuardedWrite for any number of requests, handlers, paths and grants: an    *)
(* operation reaches the file system at most once, with its intent in the log *)
(* and a receipt that tells the truth, and never under a revoked grant.       *)
EXTENDS GuardedWrite, TLAPS

Written(r) == \E i \in 1..Len(writes) : writes[i].req = r

\* What a handler in the critical section knows of its operation.
Progress(d) ==
  h[d].step \in Critical =>
    /\ scope # None /\ scope.auth = h[d].rec.auth /\ scope.path = h[d].rec.path
    /\ effect[h[d].rec.req] = None
    /\ h[d].step = "admitted" => intent[h[d].rec.req] = None
    /\ h[d].step # "admitted" => intent[h[d].rec.req] = h[d].rec
    /\ h[d].step # "wrote" => ~Written(h[d].rec.req)
    /\ h[d].step = "wrote" => Written(h[d].rec.req)

\* The log: receipts follow intents and tell what happened; an operation with
\* no intent has not been written.
LogTrue ==
  /\ \A r \in Requests : intent[r] # None => intent[r].req = r
  /\ \A r \in Requests : intent[r] = None => effect[r] = None
  /\ \A r \in Requests : effect[r] # None =>
       effect[r].rec = intent[r] /\ (effect[r].ok <=> Written(r))

GrantLive == scope # None => scope.auth \notin revoked

IInv ==
  /\ TypeOK /\ AtMostOnce /\ Audited /\ LogTrue /\ GrantLive
  /\ \A d \in Deliveries : Progress(d)

-----------------------------------------------------------------------------
LEMMA RecordFields ==
  ASSUME NEW x \in Record
  PROVE  /\ x.req \in Requests /\ x.path \in Paths /\ x.content \in Contents
         /\ x.auth \in Auths /\ x.acp \in 1..MaxAcp
         /\ x # None
BY NoneAssumption DEF Record

\* A handler of the right shape stays so when it moves on.
LEMMA Moved ==
  ASSUME NEW x \in Handlers, NEW s \in Critical \cup {"idle", "waiting", "answered"}
  PROVE  /\ [x EXCEPT !.step = s] \in Handlers
         /\ [x EXCEPT !.step = s].step = s
         /\ [x EXCEPT !.step = s].rec = x.rec
         /\ [x EXCEPT !.step = s].in = x.in
BY DEF Handlers

LEMMA Answering ==
  ASSUME NEW x \in Handlers, NEW b \in BOOLEAN
  PROVE  /\ [x EXCEPT !.step = "answered", !.ok = b] \in Handlers
         /\ [x EXCEPT !.step = "answered", !.ok = b].step = "answered"
         /\ [x EXCEPT !.step = "answered", !.ok = b].ok = b
         /\ [x EXCEPT !.step = "answered", !.ok = b].in = x.in
BY DEF Handlers

LEMMA Entering ==
  ASSUME NEW x \in Handlers, NEW r \in Record
  PROVE  /\ [x EXCEPT !.step = "admitted", !.rec = r] \in Handlers
         /\ [x EXCEPT !.step = "admitted", !.rec = r].step = "admitted"
         /\ [x EXCEPT !.step = "admitted", !.rec = r].rec = r
         /\ [x EXCEPT !.step = "admitted", !.rec = r].in = x.in
BY DEF Handlers, Critical

LEMMA IdleHandler == Idle \in Handlers /\ Idle.step = "idle"
BY DEF Idle, Handlers

\* What a request would record is a record of that request.
LEMMA PlannedRecord ==
  ASSUME TypeOK, NEW in \in Inputs, scope # None
  PROVE  /\ Planned(in) \in Record
         /\ Planned(in).req = in.req /\ Planned(in).path = in.path
         /\ Planned(in).auth = scope.auth
BY DEF TypeOK, Inputs, Scopes, Planned, Record

\* With the lock free nobody is in the critical section; with it, one is.
LEMMA Alone ==
  ASSUME TypeOK
  PROVE  /\ lock = None => \A d \in Deliveries : h[d].step \notin Critical
         /\ \A d, e \in Deliveries :
              h[d].step \in Critical /\ h[e].step \in Critical => d = e
         /\ \A d \in Deliveries : h[d].step \in Critical => lock = d
BY NoneAssumption DEF TypeOK

LEMMA InitInv == Init => IInv
<1> SUFFICES ASSUME Init PROVE IInv
  OBVIOUS
<1>1. \A d \in Deliveries : h[d] \in Handlers /\ h[d].step = "idle"
  BY IdleHandler DEF Init
<1>2. TypeOK
  BY <1>1, AcpAssumption, NoneAssumption DEF Init, TypeOK, Critical
<1>3. \A d \in Deliveries : Progress(d)
  BY <1>1 DEF Progress, Critical
<1>4. AtMostOnce /\ Audited /\ LogTrue /\ GrantLive
  BY DEF Init, AtMostOnce, Audited, LogTrue, GrantLive
<1> QED BY <1>2, <1>3, <1>4 DEF IInv

\* Handlers that move outside the critical section disturb nothing.
LEMMA Quiet ==
  ASSUME IInv, TypeOK', UNCHANGED <<intent, effect, writes, revoked>>, GrantLive',
         \A d \in Deliveries : h'[d].step \in Critical => UNCHANGED scope /\ h'[d] = h[d]
  PROVE  IInv'
<1>1. AtMostOnce' /\ Audited' /\ LogTrue'
  BY DEF IInv, AtMostOnce, Audited, LogTrue, Written
<1>2. ASSUME NEW d \in Deliveries PROVE Progress(d)'
  <2>1. CASE h'[d].step \in Critical
    <3>1. h'[d] = h[d] /\ scope' = scope /\ Progress(d)
      BY <2>1 DEF IInv
    <3> QED BY <3>1 DEF Progress, Written
  <2>2. CASE h'[d].step \notin Critical
    BY <2>2 DEF Progress
  <2> QED BY <2>1, <2>2
<1> QED BY <1>1, <1>2 DEF IInv

-----------------------------------------------------------------------------
\* Answering from outside the critical section, with the lock free.
LEMMA AnswerInv ==
  ASSUME IInv, NEW d \in Deliveries, NEW b \in BOOLEAN, lock = None,
         h[d].step = "waiting", Finish(d, b),
         UNCHANGED <<scope, alive, acp, intent, effect, writes, revoked>>
  PROVE  IInv'
<1> DEFINE x == [h[d] EXCEPT !.step = "answered", !.ok = b]
<1>1. h' = [h EXCEPT ![d] = x] /\ lock' = None
  BY DEF Finish
<1>2. TypeOK
  BY DEF IInv
<1>3. h[d] \in Handlers /\ h[d].in # None
  BY <1>2 DEF TypeOK
<1>4. x \in Handlers /\ x.step = "answered" /\ x.ok = b /\ x.in = h[d].in
  BY <1>3, Answering
<1> HIDE DEF x
<1>5. "answered" \notin Critical /\ b # None
  BY NoneAssumption DEF Critical
<1>6. \A e \in Deliveries : h'[e] = IF e = d THEN x ELSE h[e]
  BY <1>1, <1>2 DEF TypeOK
<1>7. \A e \in Deliveries : h[e].step \notin Critical
  BY <1>2, Alone
<1>8. \A e \in Deliveries : h'[e].step \notin Critical
  BY <1>4, <1>5, <1>6, <1>7
<1>9. TypeOK'
  <2>1. h' \in [Deliveries -> Handlers]
    BY <1>1, <1>2, <1>4 DEF TypeOK
  <2>2. \A e \in Deliveries :
          /\ h'[e].step # "idle" => h'[e].in # None
          /\ h'[e].step = "answered" => h'[e].ok # None
    BY <1>2, <1>3, <1>4, <1>5, <1>6 DEF TypeOK
  <2>3. lock' # d /\ \A e \in Deliveries : lock' # e
    BY <1>1, NoneAssumption
  <2> QED BY <1>1, <1>2, <1>8, <2>1, <2>2, <2>3 DEF TypeOK
<1>10. GrantLive'
  BY DEF IInv, GrantLive
<1> QED BY <1>8, <1>9, <1>10, Quiet

\* Answering from the critical section: the lock is let go.
LEMMA LeaveInv ==
  ASSUME IInv, NEW d \in Deliveries, NEW b \in BOOLEAN,
         h[d].step \in Critical, Finish(d, b),
         UNCHANGED <<scope, alive, acp, writes, revoked>>,
         intent' \in [Requests -> Record \cup {None}],
         effect' \in [Requests -> Receipts \cup {None}],
         Audited', LogTrue'
  PROVE  IInv'
<1> DEFINE x == [h[d] EXCEPT !.step = "answered", !.ok = b]
<1>1. h' = [h EXCEPT ![d] = x] /\ lock' = None
  BY DEF Finish
<1>2. TypeOK
  BY DEF IInv
<1>3. h[d] \in Handlers /\ h[d].in # None
  BY <1>2 DEF TypeOK, Critical
<1>4. x \in Handlers /\ x.step = "answered" /\ x.ok = b /\ x.in = h[d].in
  BY <1>3, Answering
<1> HIDE DEF x
<1>5. "answered" \notin Critical /\ b # None
  BY NoneAssumption DEF Critical
<1>6. \A e \in Deliveries : h'[e] = IF e = d THEN x ELSE h[e]
  BY <1>1, <1>2 DEF TypeOK
<1>7. \A e \in Deliveries : e # d => h[e].step \notin Critical
  BY <1>2, Alone
<1>8. \A e \in Deliveries : h'[e].step \notin Critical
  BY <1>4, <1>5, <1>6, <1>7
<1>9. TypeOK'
  <2>1. h' \in [Deliveries -> Handlers]
    BY <1>1, <1>2, <1>4 DEF TypeOK
  <2>2. \A e \in Deliveries :
          /\ h'[e].step # "idle" => h'[e].in # None
          /\ h'[e].step = "answered" => h'[e].ok # None
    BY <1>2, <1>3, <1>4, <1>5, <1>6 DEF TypeOK
  <2>3. \A e \in Deliveries : lock' # e
    BY <1>1, NoneAssumption
  <2> QED BY <1>1, <1>2, <1>8, <2>1, <2>2, <2>3 DEF TypeOK
<1>10. AtMostOnce' /\ GrantLive'
  BY DEF IInv, AtMostOnce, GrantLive
<1>11. \A e \in Deliveries : Progress(e)'
  BY <1>8 DEF Progress
<1> QED BY <1>9, <1>10, <1>11 DEF IInv

\* A step inside the critical section: the types.
LEMMA StayTypes ==
  ASSUME TypeOK, NEW d \in Deliveries, NEW s \in Critical,
         h[d].step \in Critical,
         h' = [h EXCEPT ![d].step = s], lock' = lock,
         UNCHANGED <<scope, alive, acp, revoked>>,
         intent' \in [Requests -> Record \cup {None}],
         effect' = effect, writes' \in Seq(Record)
  PROVE  /\ TypeOK'
         /\ h'[d].step = s /\ h'[d].rec = h[d].rec
         /\ \A e \in Deliveries : e # d => h'[e] = h[e] /\ h'[e].step \notin Critical
<1> DEFINE x == [h[d] EXCEPT !.step = s]
<1>1. h' = [h EXCEPT ![d] = x]
  OBVIOUS
<1>2. h[d] \in Handlers /\ h[d].in # None /\ h[d].rec # None
  BY DEF TypeOK, Critical
<1>3. x \in Handlers /\ x.step = s /\ x.rec = h[d].rec /\ x.in = h[d].in
  BY <1>2, Moved
<1> HIDE DEF x
<1>4. \A e \in Deliveries : h'[e] = IF e = d THEN x ELSE h[e]
  BY <1>1 DEF TypeOK
<1>5. \A e \in Deliveries : e # d => h[e].step \notin Critical
  BY Alone
<1>6. s # "idle" /\ s # "answered"
  BY DEF Critical
<1>7. h' \in [Deliveries -> Handlers]
  BY <1>1, <1>3 DEF TypeOK
<1>8. \A e \in Deliveries :
          /\ h'[e].step # "idle" => h'[e].in # None
          /\ h'[e].step \in Critical => h'[e].rec # None
          /\ h'[e].step = "answered" => h'[e].ok # None
          /\ h'[e].step \in Critical <=> lock' = e
  BY <1>2, <1>3, <1>4, <1>5, <1>6 DEF TypeOK
<1>9. TypeOK'
  BY <1>7, <1>8 DEF TypeOK
<1> QED BY <1>3, <1>4, <1>5, <1>9

-----------------------------------------------------------------------------
\* The record a handler in the critical section carries.
LEMMA Carried ==
  ASSUME IInv, NEW d \in Deliveries, h[d].step \in Critical
  PROVE  /\ h[d].rec \in Record /\ h[d].rec # None
         /\ h[d].rec.req \in Requests /\ h[d].rec.auth \in Auths
         /\ Progress(d)
<1>1. h[d] \in Handlers /\ h[d].rec # None
  BY DEF IInv, TypeOK
<1>2. h[d].rec \in Record
  BY <1>1 DEF Handlers
<1> QED BY <1>1, <1>2, RecordFields DEF IInv

LEMMA AdmitInv ==
  ASSUME IInv, NEW d \in Deliveries, Admit(d)
  PROVE  IInv'
<1>1. CASE Verdict(h[d].in) = "perform" /\ lock' = d
           /\ h' = [h EXCEPT ![d].step = "admitted", ![d].rec = Planned(h[d].in)]
  <2> DEFINE new == Planned(h[d].in)
             x == [h[d] EXCEPT !.step = "admitted", !.rec = new]
  <2>1. TypeOK /\ scope # None /\ lock = None
    BY DEF IInv, Admit, Allows
  <2>2. h[d] \in Handlers /\ h[d].in \in Inputs /\ h[d].in # None
    BY <2>1 DEF TypeOK, Handlers, Admit
  <2>3. /\ new \in Record /\ new # None
        /\ new.req = h[d].in.req /\ new.path = h[d].in.path /\ new.auth = scope.auth
    BY <2>1, <2>2, PlannedRecord, RecordFields
  <2>4. h' = [h EXCEPT ![d] = x]
    BY <1>1
  <2>5. x \in Handlers /\ x.step = "admitted" /\ x.rec = new /\ x.in = h[d].in
    <3> HIDE DEF new
    <3> QED BY <2>2, <2>3, Entering
  <2>6. scope.path = new.path
    BY <2>3 DEF Admit, Allows
  <2>7. effect[new.req] = None /\ intent[new.req] = None
    BY <1>1, <2>3 DEF Verdict
  <2> HIDE DEF new, x
  <2>8. "admitted" \in Critical /\ "admitted" # "wrote"
    BY DEF Critical
  <2>9. \A e \in Deliveries : h'[e] = IF e = d THEN x ELSE h[e]
    BY <2>1, <2>4 DEF TypeOK
  <2>10. \A e \in Deliveries : h[e].step \notin Critical
    BY <2>1, Alone
  <2>11. TypeOK'
    <3>1. h' \in [Deliveries -> Handlers]
      BY <2>1, <2>4, <2>5 DEF TypeOK
    <3>2. \A e \in Deliveries :
            /\ h'[e].step # "idle" => h'[e].in # None
            /\ h'[e].step \in Critical => h'[e].rec # None
            /\ h'[e].step = "answered" => h'[e].ok # None
      BY <2>1, <2>2, <2>3, <2>5, <2>9 DEF TypeOK
    <3>3. \A e \in Deliveries : h'[e].step \in Critical <=> lock' = e
      BY <1>1, <2>5, <2>8, <2>9, <2>10
    <3> QED BY <1>1, <2>1, <3>1, <3>2, <3>3 DEF TypeOK, Admit
  <2>12. ~Written(new.req)
    <3> SUFFICES ASSUME NEW i \in 1..Len(writes), writes[i].req = new.req PROVE FALSE
      BY DEF Written
    <3>1. intent[new.req] = writes[i] /\ writes[i] \in Record
      BY <2>1 DEF IInv, Audited, TypeOK
    <3> QED BY <2>7, <3>1, NoneAssumption
  <2>13. \A e \in Deliveries : Progress(e)'
    <3> SUFFICES ASSUME NEW e \in Deliveries, h'[e].step \in Critical PROVE Progress(e)'
      BY DEF Progress
    <3>1. e = d
      BY <2>9, <2>10
    <3>2. h'[e] = x
      BY <2>9, <3>1
    <3> QED BY <2>1, <2>3, <2>5, <2>6, <2>7, <2>8, <2>12, <3>2 DEF Progress, Written, Admit
  <2>14. AtMostOnce' /\ Audited' /\ LogTrue' /\ GrantLive'
    BY DEF IInv, AtMostOnce, Audited, LogTrue, GrantLive, Written, Admit
  <2> QED BY <2>11, <2>13, <2>14 DEF IInv
<1>2. ASSUME NEW b \in BOOLEAN, Finish(d, b) PROVE IInv'
  BY <1>2, AnswerInv DEF Admit
<1> QED BY <1>1, <1>2 DEF Admit

LEMMA RecordIntentInv ==
  ASSUME IInv, NEW d \in Deliveries, RecordIntent(d)
  PROVE  IInv'
<1> DEFINE rec == h[d].rec
<1>1. h[d].step = "admitted" /\ "admitted" \in Critical /\ "intended" \in Critical
  BY DEF RecordIntent, Critical
<1>2. rec \in Record /\ rec # None /\ rec.req \in Requests /\ Progress(d)
  BY <1>1, Carried
<1>3. TypeOK
  BY DEF IInv
<1>4. CASE intent' = [intent EXCEPT ![rec.req] = rec]
           /\ h' = [h EXCEPT ![d].step = "intended"] /\ lock' = lock
  <2>1. intent' \in [Requests -> Record \cup {None}]
    BY <1>2, <1>3, <1>4 DEF TypeOK
  <2>2. writes' \in Seq(Record) /\ UNCHANGED <<scope, alive, acp, revoked, effect, writes>>
    BY <1>3 DEF TypeOK, RecordIntent
  <2>3. /\ TypeOK'
        /\ h'[d].step = "intended" /\ h'[d].rec = rec
        /\ \A e \in Deliveries : e # d => h'[e] = h[e] /\ h'[e].step \notin Critical
    BY <1>1, <1>3, <1>4, <2>1, <2>2, StayTypes
  <2>4. ~Written(rec.req) /\ effect[rec.req] = None
    BY <1>1, <1>2 DEF Progress
  <2>5. \A r \in Requests : intent'[r] = IF r = rec.req THEN rec ELSE intent[r]
    BY <1>3, <1>4 DEF TypeOK
  <2>6. Audited'
    <3> SUFFICES ASSUME NEW i \in 1..Len(writes) PROVE intent'[writes[i].req] = writes[i]
      BY <2>2 DEF Audited
    <3>1. writes[i] \in Record /\ writes[i].req \in Requests /\ writes[i].req # rec.req
      BY <1>3, <2>4, RecordFields DEF TypeOK, Written
    <3> QED BY <2>5, <3>1 DEF IInv, Audited
  <2>7. LogTrue'
    BY <1>2, <2>2, <2>4, <2>5 DEF IInv, LogTrue, Written
  <2>8. AtMostOnce' /\ GrantLive'
    BY <2>2 DEF IInv, AtMostOnce, GrantLive
  <2>9. Progress(d)'
    BY <1>1, <1>2, <2>2, <2>3, <2>4, <2>5 DEF Progress, Written
  <2>10. \A e \in Deliveries : Progress(e)'
    BY <2>3, <2>9 DEF Progress
  <2> QED BY <2>3, <2>6, <2>7, <2>8, <2>10 DEF IInv
<1>5. CASE Finish(d, FALSE) /\ intent' = intent
  <2>1. UNCHANGED <<scope, alive, acp, writes, revoked, effect, intent>>
    BY <1>5 DEF RecordIntent
  <2>2. Audited' /\ LogTrue'
    BY <2>1 DEF IInv, Audited, LogTrue, Written
  <2> QED BY <1>1, <1>3, <1>5, <2>1, <2>2, LeaveInv DEF TypeOK
<1> QED BY <1>4, <1>5 DEF RecordIntent

LEMMA CheckOwnerInv ==
  ASSUME IInv, NEW d \in Deliveries, CheckOwner(d)
  PROVE  IInv'
<1> DEFINE s == IF alive THEN "writing" ELSE "failed"
<1>1. h[d].step = "intended" /\ h[d].step \in Critical /\ s \in Critical
      /\ s # "wrote" /\ s # "admitted"
  BY DEF CheckOwner, Critical
<1>2. UNCHANGED <<scope, alive, acp, lock, intent, effect, writes, revoked>>
  BY DEF CheckOwner
<1>3. Progress(d) /\ TypeOK
  BY DEF IInv
<1>4. h' = [h EXCEPT ![d].step = s]
  BY DEF CheckOwner
<1> HIDE DEF s
<1>5. /\ TypeOK'
      /\ h'[d].step = s /\ h'[d].rec = h[d].rec
      /\ \A e \in Deliveries : e # d => h'[e] = h[e] /\ h'[e].step \notin Critical
  BY <1>1, <1>2, <1>3, <1>4, StayTypes DEF TypeOK
<1>6. Progress(d)'
  BY <1>1, <1>2, <1>3, <1>5 DEF Progress, Written
<1>7. \A e \in Deliveries : Progress(e)'
  BY <1>5, <1>6 DEF Progress
<1>8. AtMostOnce' /\ Audited' /\ LogTrue' /\ GrantLive'
  BY <1>2 DEF IInv, AtMostOnce, Audited, LogTrue, GrantLive, Written
<1> QED BY <1>5, <1>7, <1>8 DEF IInv

LEMMA WriteInv ==
  ASSUME IInv, NEW d \in Deliveries, Write(d)
  PROVE  IInv'
<1> DEFINE rec == h[d].rec
<1>1. /\ h[d].step = "writing" /\ h[d].step \in Critical
      /\ "wrote" \in Critical /\ "failed" \in Critical
  BY DEF Write, Critical
<1>2. rec \in Record /\ rec # None /\ rec.req \in Requests /\ Progress(d)
  BY <1>1, Carried
<1>3. UNCHANGED <<scope, alive, acp, lock, intent, effect, revoked>> /\ TypeOK
  BY DEF Write, IInv
<1>4. ~Written(rec.req) /\ effect[rec.req] = None /\ intent[rec.req] = rec
  BY <1>1, <1>2 DEF Progress
<1>5. CASE writes' = Append(writes, rec) /\ h' = [h EXCEPT ![d].step = "wrote"]
  <2>1. /\ writes' \in Seq(Record) /\ Len(writes') = Len(writes) + 1
        /\ writes'[Len(writes) + 1] = rec
        /\ \A i \in 1..Len(writes) : writes'[i] = writes[i]
        /\ Len(writes) \in Nat
    <3> HIDE DEF rec
    <3> QED BY <1>2, <1>3, <1>5 DEF TypeOK
  <2>2. /\ TypeOK'
        /\ h'[d].step = "wrote" /\ h'[d].rec = rec
        /\ \A e \in Deliveries : e # d => h'[e] = h[e] /\ h'[e].step \notin Critical
    BY <1>1, <1>3, <1>5, <2>1, StayTypes DEF TypeOK
  <2> HIDE DEF rec
  <2>3. \A i \in 1..Len(writes') : (i \in 1..Len(writes) /\ writes'[i] = writes[i])
                                   \/ (i = Len(writes) + 1 /\ writes'[i] = rec)
    BY <2>1
  <2>4. \A r \in Requests : Written(r)' <=> Written(r) \/ r = rec.req
    <3> TAKE r \in Requests
    <3>1. Written(r) => Written(r)'
      BY <2>1 DEF Written
    <3>2. r = rec.req => Written(r)'
      BY <2>1 DEF Written
    <3>3. Written(r)' => Written(r) \/ r = rec.req
      BY <2>3 DEF Written
    <3> QED BY <3>1, <3>2, <3>3
  <2>5. AtMostOnce'
    <3> SUFFICES ASSUME NEW i \in 1..Len(writes'), NEW j \in 1..Len(writes'),
                        writes'[i].req = writes'[j].req
                 PROVE  i = j
      BY DEF AtMostOnce
    <3>1. CASE i \in 1..Len(writes) /\ j \in 1..Len(writes)
      BY <3>1, <2>1 DEF IInv, AtMostOnce
    <3>2. \A k \in 1..Len(writes) : writes[k].req # rec.req
      BY <1>4 DEF Written
    <3> QED BY <2>1, <2>3, <3>1, <3>2
  <2>6. Audited'
    BY <1>3, <1>4, <2>3 DEF IInv, Audited
  <2>7. LogTrue'
    BY <1>3, <1>4, <2>4 DEF IInv, LogTrue
  <2>8. Progress(d)'
    <3>1. \E i \in 1..Len(writes') : writes'[i].req = rec.req
      BY <2>1
    <3> QED BY <1>1, <1>2, <1>3, <1>4, <2>2, <3>1 DEF Progress, Written, rec
  <2>9. \A e \in Deliveries : Progress(e)'
    BY <2>2, <2>8 DEF Progress
  <2>10. GrantLive'
    BY <1>3 DEF IInv, GrantLive
  <2> QED BY <2>2, <2>5, <2>6, <2>7, <2>9, <2>10 DEF IInv
<1>6. CASE writes' = writes /\ h' = [h EXCEPT ![d].step = "failed"]
  <2>1. /\ TypeOK'
        /\ h'[d].step = "failed" /\ h'[d].rec = rec
        /\ \A e \in Deliveries : e # d => h'[e] = h[e] /\ h'[e].step \notin Critical
    BY <1>1, <1>3, <1>6, StayTypes DEF TypeOK
  <2>2. Progress(d)'
    BY <1>1, <1>2, <1>3, <1>6, <2>1 DEF Progress, Written
  <2>3. \A e \in Deliveries : Progress(e)'
    BY <2>1, <2>2 DEF Progress
  <2>4. AtMostOnce' /\ Audited' /\ LogTrue' /\ GrantLive'
    BY <1>3, <1>6 DEF IInv, AtMostOnce, Audited, LogTrue, GrantLive, Written
  <2> QED BY <2>1, <2>3, <2>4 DEF IInv
<1> QED BY <1>5, <1>6 DEF Write

LEMMA RecordEffectInv ==
  ASSUME IInv, NEW d \in Deliveries, RecordEffect(d)
  PROVE  IInv'
<1> DEFINE rec == h[d].rec
           ok == (h[d].step = "wrote")
<1>1. h[d].step \in Critical /\ h[d].step # "admitted"
  BY DEF RecordEffect, Critical
<1>2. rec \in Record /\ rec # None /\ rec.req \in Requests /\ Progress(d)
  BY <1>1, Carried
<1>3. UNCHANGED <<scope, alive, acp, intent, writes, revoked>> /\ TypeOK
  BY DEF RecordEffect, IInv
<1>4. intent[rec.req] = rec /\ (ok <=> Written(rec.req))
  BY <1>1, <1>2 DEF Progress
<1>5. ok \in BOOLEAN
  OBVIOUS
<1>6. intent' \in [Requests -> Record \cup {None}] /\ Audited'
  BY <1>3 DEF TypeOK, IInv, Audited
<1>7. CASE effect' = [effect EXCEPT ![rec.req] = [rec |-> rec, ok |-> ok]] /\ Finish(d, ok)
  <2> DEFINE receipt == [rec |-> rec, ok |-> ok]
  <2>1. receipt \in Receipts /\ receipt.rec = rec /\ receipt.ok = ok
    BY <1>2, <1>5 DEF Receipts
  <2>2. /\ effect' \in [Requests -> Receipts \cup {None}]
        /\ \A r \in Requests : effect'[r] = IF r = rec.req THEN receipt ELSE effect[r]
    <3> HIDE DEF receipt
    <3>1. effect' = [effect EXCEPT ![rec.req] = receipt]
      BY <1>7 DEF receipt
    <3> QED BY <1>2, <1>3, <2>1, <3>1 DEF TypeOK
  <2>3. LogTrue'
    <3> HIDE DEF receipt, ok, rec
    <3> QED BY <1>2, <1>3, <1>4, <2>1, <2>2 DEF IInv, LogTrue, Written
  <2> HIDE DEF ok, rec, receipt
  <2> QED BY <1>1, <1>3, <1>5, <1>6, <1>7, <2>2, <2>3, LeaveInv
<1>8. CASE effect' = effect /\ Finish(d, FALSE)
  <2>1. LogTrue' /\ effect' \in [Requests -> Receipts \cup {None}]
    BY <1>3, <1>8 DEF IInv, LogTrue, Written, TypeOK
  <2> QED BY <1>1, <1>3, <1>6, <1>8, <2>1, LeaveInv
<1> QED BY <1>7, <1>8 DEF RecordEffect

\* A handler moves between idle, waiting and answered.
LEMMA OutsideInv ==
  ASSUME IInv, NEW d \in Deliveries, NEW x \in Handlers, h' = [h EXCEPT ![d] = x],
         h[d].step \notin Critical, x.step \in {"idle", "waiting"},
         x.step = "waiting" => x.in # None,
         UNCHANGED <<scope, alive, acp, lock, intent, effect, writes, revoked>>
  PROVE  IInv'
<1>1. TypeOK
  BY DEF IInv
<1>2. \A e \in Deliveries : h'[e] = IF e = d THEN x ELSE h[e]
  BY <1>1 DEF TypeOK
<1>3. x.step \notin Critical /\ x.step # "answered"
  BY DEF Critical
<1>4. h' \in [Deliveries -> Handlers]
  BY <1>1 DEF TypeOK
<1>5. TypeOK'
  BY <1>1, <1>2, <1>3, <1>4 DEF TypeOK
<1>6. \A e \in Deliveries : h'[e].step \in Critical => UNCHANGED scope /\ h'[e] = h[e]
  BY <1>2, <1>3
<1>7. GrantLive'
  BY DEF IInv, GrantLive
<1> QED BY <1>5, <1>6, <1>7, Quiet

LEMMA DeliverInv ==
  ASSUME IInv, NEW d \in Deliveries, NEW r \in Requests, NEW p \in Paths,
         NEW c \in Contents, Deliver(d, r, p, c)
  PROVE  IInv'
<1> DEFINE in == [req |-> r, path |-> p, content |-> c]
           x == [Idle EXCEPT !.step = "waiting", !.in = in]
<1>1. in \in Inputs /\ in # None
  BY NoneAssumption DEF Inputs
<1>2. x \in Handlers /\ x.step = "waiting" /\ x.in = in
  <2> HIDE DEF in
  <2> QED BY <1>1 DEF Idle, Handlers
<1>3. h' = [h EXCEPT ![d] = x] /\ h[d].step \notin Critical
  BY DEF Deliver, Critical
<1> HIDE DEF in, x
<1> QED BY <1>1, <1>2, <1>3, OutsideInv DEF Deliver

LEMMA ReturnInv ==
  ASSUME IInv, NEW d \in Deliveries, Return(d)
  PROVE  IInv'
<1>1. h[d].step \notin Critical /\ h' = [h EXCEPT ![d] = Idle]
  BY DEF Return, Critical
<1> QED BY <1>1, IdleHandler, OutsideInv DEF Return

LEMMA GrantInv ==
  ASSUME IInv,
         (\E a \in Auths, p \in Paths : AuthorizeWrite(a, p)) \/ RevokeWrite
  PROVE  IInv'
<1>1. UNCHANGED <<alive, acp, lock, h, intent, effect, writes>> /\ lock = None /\ TypeOK
  BY DEF AuthorizeWrite, RevokeWrite, IInv
<1>2. \A e \in Deliveries : h[e].step \notin Critical
  BY <1>1, Alone
<1>3. CASE \E a \in Auths, p \in Paths : AuthorizeWrite(a, p)
  <2>1. PICK a \in Auths, p \in Paths : AuthorizeWrite(a, p)
    BY <1>3
  <2>2. scope' \in Scopes /\ scope'.auth \notin revoked' /\ revoked' = revoked
    BY <2>1 DEF AuthorizeWrite, Scopes
  <2>3. TypeOK' /\ GrantLive'
    BY <1>1, <2>2 DEF TypeOK, GrantLive
  <2> QED BY <1>1, <1>2, <2>2, <2>3, Quiet
<1>4. CASE RevokeWrite
  <2>1. scope' = None /\ revoked' \subseteq Auths
    BY <1>1, <1>4 DEF RevokeWrite, TypeOK, Scopes
  <2>2. TypeOK' /\ GrantLive'
    BY <1>1, <2>1 DEF TypeOK, GrantLive
  <2>3. AtMostOnce' /\ Audited' /\ LogTrue'
    BY <1>1 DEF IInv, AtMostOnce, Audited, LogTrue, Written
  <2>4. \A e \in Deliveries : Progress(e)'
    BY <1>1, <1>2 DEF Progress
  <2> QED BY <2>2, <2>3, <2>4 DEF IInv
<1> QED BY <1>3, <1>4

LEMMA ExpireInv ==
  ASSUME IInv, Expire
  PROVE  IInv'
<1>1. UNCHANGED <<alive, acp, lock, h, intent, effect, writes, revoked>> /\ TypeOK
  BY DEF Expire, IInv
<1>2. /\ scope \in Scopes /\ scope # None
      /\ scope' \in Scopes /\ scope'.auth = scope.auth /\ scope'.path = scope.path
  BY <1>1 DEF Expire, TypeOK, Scopes
<1>3. scope' # None
  BY <1>2, NoneAssumption
<1>4. TypeOK'
  BY <1>1, <1>2 DEF TypeOK
<1>5. AtMostOnce' /\ Audited' /\ LogTrue' /\ GrantLive'
  BY <1>1, <1>2 DEF IInv, AtMostOnce, Audited, LogTrue, GrantLive, Written
<1>6. \A e \in Deliveries : Progress(e)'
  BY <1>1, <1>2, <1>3 DEF IInv, Progress, Written
<1> QED BY <1>4, <1>5, <1>6 DEF IInv

LEMMA RestartInv ==
  ASSUME IInv, Restart
  PROVE  IInv'
<1>1. /\ scope' = None /\ alive' = TRUE /\ acp' \in 1..MaxAcp /\ lock' = None
      /\ \A e \in Deliveries : h'[e] = Idle
      /\ h' \in [Deliveries -> Handlers]
      /\ UNCHANGED <<intent, effect, writes, revoked>>
  BY IdleHandler, AcpAssumption DEF Restart, IInv, TypeOK
<1>2. \A e \in Deliveries : h'[e].step = "idle" /\ h'[e].step \notin Critical
  BY <1>1, IdleHandler DEF Critical
<1>3. TypeOK'
  BY <1>1, <1>2, NoneAssumption DEF IInv, TypeOK
<1>4. AtMostOnce' /\ Audited' /\ LogTrue' /\ GrantLive'
  BY <1>1 DEF IInv, AtMostOnce, Audited, LogTrue, GrantLive, Written
<1>5. \A e \in Deliveries : Progress(e)'
  BY <1>2 DEF Progress
<1> QED BY <1>3, <1>4, <1>5 DEF IInv

LEMMA OwnerExitsInv ==
  ASSUME IInv, OwnerExits
  PROVE  IInv'
<1>1. TypeOK'
  BY DEF IInv, TypeOK, OwnerExits
<1>2. AtMostOnce' /\ Audited' /\ LogTrue' /\ GrantLive'
  BY DEF IInv, AtMostOnce, Audited, LogTrue, GrantLive, Written, OwnerExits
<1>3. \A e \in Deliveries : Progress(e)'
  BY DEF IInv, Progress, Written, OwnerExits
<1> QED BY <1>1, <1>2, <1>3 DEF IInv

LEMMA DenyInv ==
  ASSUME IInv, NEW d \in Deliveries, Deny(d)
  PROVE  IInv'
BY AnswerInv DEF Deny

LEMMA StepInv == IInv /\ [Next]_vars => IInv'
<1> SUFFICES ASSUME IInv, [Next]_vars PROVE IInv'
  OBVIOUS
<1>1. ASSUME NEW d \in Deliveries, Handle(d) PROVE IInv'
  BY <1>1, AdmitInv, DenyInv, RecordIntentInv, CheckOwnerInv, WriteInv, RecordEffectInv, ReturnInv
  DEF Handle
<1>2. ASSUME NEW d \in Deliveries, NEW r \in Requests, NEW p \in Paths, NEW c \in Contents,
             Deliver(d, r, p, c)
      PROVE  IInv'
  BY <1>2, DeliverInv
<1>3. ASSUME (\E a \in Auths, p \in Paths : AuthorizeWrite(a, p)) \/ RevokeWrite PROVE IInv'
  BY <1>3, GrantInv
<1>4. CASE Expire BY <1>4, ExpireInv
<1>5. CASE OwnerExits BY <1>5, OwnerExitsInv
<1>6. CASE Restart BY <1>6, RestartInv
<1>7. CASE UNCHANGED vars
  <2>1. TypeOK' /\ AtMostOnce' /\ Audited' /\ LogTrue' /\ GrantLive'
    BY <1>7 DEF vars, IInv, TypeOK, AtMostOnce, Audited, LogTrue, GrantLive, Written
  <2>2. \A e \in Deliveries : Progress(e)'
    BY <1>7 DEF vars, IInv, Progress, Written
  <2> QED BY <2>1, <2>2 DEF IInv
<1> QED BY <1>1, <1>2, <1>3, <1>4, <1>5, <1>6, <1>7 DEF Next

LEMMA Inductive == Spec => []IInv
<1>1. Init => IInv BY InitInv
<1>2. IInv /\ [Next]_vars => IInv' BY StepInv
<1> QED BY <1>1, <1>2, PTL DEF Spec

-----------------------------------------------------------------------------
\* The state keeps its types, and operationMu is held exactly by the handler
\* that is between admission and answer.
THEOREM TypeCorrect == Spec => []TypeOK
<1>1. IInv => TypeOK BY DEF IInv
<1> QED BY <1>1, Inductive, PTL

\* No operation reaches the file system twice.
THEOREM DeliveredOnce == Spec => []AtMostOnce
<1>1. IInv => AtMostOnce BY DEF IInv
<1> QED BY <1>1, Inductive, PTL

\* Every write has its intent in the log.
THEOREM AlwaysAudited == Spec => []Audited
<1>1. IInv => Audited BY DEF IInv
<1> QED BY <1>1, Inductive, PTL

\* Receipts tell what happened.
THEOREM ReceiptsTrue == Spec => []ReceiptTrue
<1>1. IInv => ReceiptTrue
  <2> SUFFICES ASSUME IInv, NEW r \in Requests, effect[r] # None
               PROVE  /\ effect[r].rec = intent[r]
                      /\ effect[r].ok <=> \E i \in 1..Len(writes) : writes[i] = effect[r].rec
    BY DEF ReceiptTrue
  <2>1. effect[r].rec = intent[r] /\ (effect[r].ok <=> Written(r))
    BY DEF IInv, LogTrue
  <2>2. intent[r] # None /\ intent[r].req = r
    BY DEF IInv, LogTrue
  <2>3. Written(r) <=> \E i \in 1..Len(writes) : writes[i] = intent[r]
    BY <2>2 DEF IInv, Audited, Written
  <2> QED BY <2>1, <2>3
<1> QED BY <1>1, Inductive, PTL

\* Nothing is written under a revoked grant, or outside the installed one.
THEOREM RevocationHolds == Spec => RevokedIsRevoked
<1> DEFINE A == writes' # writes =>
       LET w == writes'[Len(writes')]
       IN  /\ w.auth \notin revoked
           /\ scope # None /\ scope.auth = w.auth /\ scope.path = w.path
<1>1. IInv /\ [Next]_vars => [A]_vars
  <2> SUFFICES ASSUME IInv, Next, writes' # writes PROVE A
    OBVIOUS
  <2>1. PICK d \in Deliveries : Write(d)
    BY DEF Next, Handle, AuthorizeWrite, RevokeWrite, Expire, Deliver, Admit, Deny, RecordIntent,
           CheckOwner, RecordEffect, Return, OwnerExits, Restart
  <2>2. writes' = Append(writes, h[d].rec) /\ h[d].step \in Critical
    BY <2>1 DEF Write, Critical
  <2>3. h[d].rec \in Record /\ Progress(d) /\ writes \in Seq(Record)
    BY <2>2, Carried DEF IInv, TypeOK
  <2>4. writes'[Len(writes')] = h[d].rec
    BY <2>2, <2>3
  <2> QED BY <2>2, <2>3, <2>4 DEF IInv, Progress, GrantLive
<1> QED BY <1>1, Inductive, PTL DEF Spec, RevokedIsRevoked

-----------------------------------------------------------------------------
\* The operation a request asks for, as a record tells of it.
Asked(rec) == [req |-> rec.req, path |-> rec.path, content |-> rec.content]

\* A write of this life of the session is what the request of d asked for.
Performed(d) ==
  \E i \in 1..Len(writes) : writes[i].acp = acp /\ Asked(writes[i]) = h[d].in

\* What makes an answer true: the record a handler carries is of its own request
\* and of the session that runs, and it answers yes only after the write.
Honest(d) ==
  /\ h[d].step \in Critical => Asked(h[d].rec) = h[d].in /\ h[d].rec.acp = acp
  /\ h[d].step = "answered" /\ h[d].ok => Performed(d)

AllHonest == \A d \in Deliveries : Honest(d)

\* A handler that keeps its place keeps its word, as long as writes are only added.
LEMMA StaysHonest ==
  ASSUME TypeOK, NEW d \in Deliveries, Honest(d), h'[d] = h[d], acp' = acp,
         \A i \in 1..Len(writes) : i \in 1..Len(writes') /\ writes'[i] = writes[i]
  PROVE  Honest(d)'
BY DEF Honest, Performed, Asked

\* An operation that was written was written by the record its intent tells of.
LEMMA WrittenAs ==
  ASSUME IInv, NEW rec \in Record, intent[rec.req] = rec, Written(rec.req)
  PROVE  \E i \in 1..Len(writes) : writes[i] = rec
BY DEF IInv, Audited, Written

\* A performed verdict: the same operation, of this session, was written.
LEMMA PerformedVerdict ==
  ASSUME IInv, NEW in \in Inputs, scope # None, Verdict(in) = "performed"
  PROVE  \E i \in 1..Len(writes) : writes[i].acp = acp /\ Asked(writes[i]) = in
<1> DEFINE rec == Planned(in)
<1>1. rec \in Record /\ rec.req = in.req /\ rec.acp = acp /\ Asked(rec) = in
  BY PlannedRecord DEF IInv, Planned, Asked, Inputs
<1>2. effect[in.req] # None /\ effect[in.req].rec = rec /\ effect[in.req].ok
  BY DEF Verdict, Matches
<1>3. in.req \in Requests
  BY DEF Inputs
<1>4. intent[in.req] = rec /\ Written(in.req)
  BY <1>2, <1>3 DEF IInv, LogTrue
<1> HIDE DEF rec
<1> QED BY <1>1, <1>4, WrittenAs

LEMMA InitHonest == Init => AllHonest
BY IdleHandler DEF Init, AllHonest, Honest, Critical

\* One handler moves, the rest and the writes stay: only it has to be looked at.
LEMMA OneMoves ==
  ASSUME IInv, AllHonest, NEW d \in Deliveries, NEW x, h' = [h EXCEPT ![d] = x], acp' = acp,
         \A i \in 1..Len(writes) : i \in 1..Len(writes') /\ writes'[i] = writes[i],
         Honest(d)'
  PROVE  AllHonest'
<1>1. TypeOK /\ \A e \in Deliveries : e # d => h'[e] = h[e]
  BY DEF IInv, TypeOK
<1>2. \A e \in Deliveries : e # d => Honest(e)'
  BY <1>1, StaysHonest DEF AllHonest
<1> QED BY <1>2 DEF AllHonest

LEMMA AnswerHonest ==
  ASSUME IInv, AllHonest, NEW d \in Deliveries, NEW b \in BOOLEAN, Finish(d, b),
         UNCHANGED <<acp, writes>>, b => Performed(d)
  PROVE  AllHonest'
<1> DEFINE x == [h[d] EXCEPT !.step = "answered", !.ok = b]
<1>1. h' = [h EXCEPT ![d] = x] /\ h[d] \in Handlers
  BY DEF Finish, IInv, TypeOK
<1>2. x.step = "answered" /\ x.ok = b /\ x.in = h[d].in
  BY <1>1, Answering
<1> HIDE DEF x
<1>3. h'[d] = x
  BY <1>1 DEF IInv, TypeOK
<1>4. Honest(d)'
  BY <1>2, <1>3 DEF Honest, Performed, Asked, Critical
<1> QED BY <1>1, <1>4, OneMoves

LEMMA MoveHonest ==
  ASSUME IInv, AllHonest, NEW d \in Deliveries, NEW s \in Critical,
         h[d].step \in Critical, h' = [h EXCEPT ![d].step = s], acp' = acp,
         \A i \in 1..Len(writes) : i \in 1..Len(writes') /\ writes'[i] = writes[i]
  PROVE  AllHonest'
<1> DEFINE x == [h[d] EXCEPT !.step = s]
<1>1. h' = [h EXCEPT ![d] = x] /\ h[d] \in Handlers
  BY DEF IInv, TypeOK
<1>2. x.step = s /\ x.rec = h[d].rec /\ x.in = h[d].in
  BY <1>1, Moved
<1> HIDE DEF x
<1>3. h'[d] = x
  BY <1>1 DEF IInv, TypeOK
<1>4. Honest(d)'
  BY <1>2, <1>3 DEF AllHonest, Honest, Asked, Critical
<1> QED BY <1>1, <1>4, OneMoves

LEMMA AdmitHonest ==
  ASSUME IInv, AllHonest, NEW d \in Deliveries, Admit(d)
  PROVE  AllHonest'
<1>1. UNCHANGED <<scope, alive, acp, intent, effect, writes, revoked>> /\ h[d].step = "waiting"
  BY DEF Admit
<1>2. /\ h[d] \in Handlers /\ h[d].in \in Inputs
      /\ scope # None /\ TypeOK
  BY <1>1 DEF Admit, Allows, IInv, TypeOK, Handlers
<1>3. CASE h' = [h EXCEPT ![d].step = "admitted", ![d].rec = Planned(h[d].in)]
  <2> DEFINE rec == Planned(h[d].in)
             x == [h[d] EXCEPT !.step = "admitted", !.rec = rec]
  <2>1. rec \in Record /\ rec.acp = acp /\ Asked(rec) = h[d].in
    BY <1>2, PlannedRecord DEF Planned, Asked, Inputs
  <2>2. h' = [h EXCEPT ![d] = x]
    BY <1>3
  <2> HIDE DEF rec
  <2>3. x.step = "admitted" /\ x.rec = rec /\ x.in = h[d].in
    BY <1>2, <2>1, Entering
  <2> HIDE DEF x
  <2>4. h'[d] = x
    BY <1>2, <2>2 DEF TypeOK
  <2>5. Honest(d)'
    BY <1>1, <2>1, <2>3, <2>4 DEF Honest, Asked
  <2> QED BY <1>1, <2>2, <2>5, OneMoves
<1>4. CASE Verdict(h[d].in) = "performed" /\ Finish(d, TRUE)
  BY <1>1, <1>2, <1>4, PerformedVerdict, AnswerHonest DEF Performed
<1>5. CASE Finish(d, FALSE)
  BY <1>1, <1>5, AnswerHonest
<1> QED BY <1>3, <1>4, <1>5 DEF Admit

LEMMA RecordEffectHonest ==
  ASSUME IInv, AllHonest, NEW d \in Deliveries, RecordEffect(d)
  PROVE  AllHonest'
<1> DEFINE rec == h[d].rec
<1>1. h[d].step \in Critical /\ h[d].step # "admitted" /\ UNCHANGED <<acp, writes>>
  BY DEF RecordEffect, Critical
<1>2. rec \in Record /\ Progress(d) /\ Honest(d)
  BY <1>1, Carried DEF AllHonest
<1>3. ASSUME h[d].step = "wrote" PROVE Performed(d)
  <2>1. intent[rec.req] = rec /\ Written(rec.req)
    BY <1>1, <1>2, <1>3 DEF Progress
  <2>2. PICK i \in 1..Len(writes) : writes[i] = rec
    BY <1>2, <2>1, WrittenAs
  <2> QED BY <1>1, <1>2, <2>2 DEF Honest, Performed
<1>4. CASE Finish(d, h[d].step = "wrote")
  BY <1>1, <1>3, <1>4, AnswerHonest
<1>5. CASE Finish(d, FALSE)
  BY <1>1, <1>5, AnswerHonest
<1> QED BY <1>4, <1>5 DEF RecordEffect

LEMMA WriteHonest ==
  ASSUME IInv, AllHonest, NEW d \in Deliveries, Write(d)
  PROVE  AllHonest'
<1>1. h[d].step \in Critical /\ "wrote" \in Critical /\ "failed" \in Critical /\ acp' = acp
  BY DEF Write, Critical
<1>2. h[d].rec \in Record /\ writes \in Seq(Record)
  BY <1>1, Carried DEF IInv, TypeOK
<1>3. CASE writes' = Append(writes, h[d].rec) /\ h' = [h EXCEPT ![d].step = "wrote"]
  <2>1. \A i \in 1..Len(writes) : i \in 1..Len(writes') /\ writes'[i] = writes[i]
    BY <1>2, <1>3
  <2> QED BY <1>1, <1>3, <2>1, MoveHonest
<1>4. CASE writes' = writes /\ h' = [h EXCEPT ![d].step = "failed"]
  BY <1>1, <1>4, MoveHonest
<1> QED BY <1>3, <1>4 DEF Write

LEMMA HandleHonest ==
  ASSUME IInv, AllHonest, NEW d \in Deliveries, Handle(d)
  PROVE  AllHonest'
<1>1. CASE Admit(d)
  BY <1>1, AdmitHonest
<1>2. CASE Deny(d)
  BY <1>2, AnswerHonest DEF Deny
<1>3. CASE RecordIntent(d)
  <2>1. h[d].step \in Critical /\ "intended" \in Critical /\ UNCHANGED <<acp, writes>>
    BY <1>3 DEF RecordIntent, Critical
  <2> QED BY <1>3, <2>1, MoveHonest, AnswerHonest DEF RecordIntent
<1>4. CASE CheckOwner(d)
  <2> DEFINE s == IF alive THEN "writing" ELSE "failed"
  <2>1. h[d].step \in Critical /\ s \in Critical /\ UNCHANGED <<acp, writes>>
        /\ h' = [h EXCEPT ![d].step = s]
    BY <1>4 DEF CheckOwner, Critical
  <2> HIDE DEF s
  <2> QED BY <2>1, MoveHonest
<1>5. CASE Write(d)
  BY <1>5, WriteHonest
<1>6. CASE RecordEffect(d)
  BY <1>6, RecordEffectHonest
<1>7. CASE Return(d)
  <2>1. h' = [h EXCEPT ![d] = Idle] /\ UNCHANGED <<acp, writes>>
    BY <1>7 DEF Return
  <2>2. h'[d] = Idle
    BY <2>1 DEF IInv, TypeOK
  <2>3. Honest(d)'
    BY <2>2, IdleHandler DEF Honest, Critical
  <2> QED BY <2>1, <2>3, OneMoves
<1> QED BY <1>1, <1>2, <1>3, <1>4, <1>5, <1>6, <1>7 DEF Handle

LEMMA DeliverHonest ==
  ASSUME IInv, AllHonest, NEW d \in Deliveries, NEW r \in Requests, NEW p \in Paths,
         NEW c \in Contents, Deliver(d, r, p, c)
  PROVE  AllHonest'
<1> DEFINE x == [Idle EXCEPT !.step = "waiting", !.in = [req |-> r, path |-> p, content |-> c]]
<1>1. h' = [h EXCEPT ![d] = x] /\ UNCHANGED <<acp, writes>> /\ x.step = "waiting"
  BY DEF Deliver, Idle
<1> HIDE DEF x
<1>2. h'[d] = x
  BY <1>1 DEF IInv, TypeOK
<1>3. Honest(d)'
  BY <1>1, <1>2 DEF Honest, Critical
<1> QED BY <1>1, <1>3, OneMoves

LEMMA StepHonest == IInv /\ AllHonest /\ [Next]_vars => AllHonest'
<1> SUFFICES ASSUME IInv, AllHonest, [Next]_vars PROVE AllHonest'
  OBVIOUS
<1>1. ASSUME UNCHANGED <<acp, h, writes>> PROVE AllHonest'
  BY <1>1 DEF AllHonest, Honest, Performed, Asked
<1>2. CASE (\E a \in Auths, p \in Paths : AuthorizeWrite(a, p)) \/ RevokeWrite \/ Expire \/ OwnerExits
  BY <1>1, <1>2 DEF AuthorizeWrite, RevokeWrite, Expire, OwnerExits
<1>3. CASE Restart
  <2>1. \A e \in Deliveries : h'[e] = Idle
    BY <1>3 DEF Restart
  <2> QED BY <2>1, IdleHandler DEF AllHonest, Honest, Critical
<1>4. CASE UNCHANGED vars
  BY <1>1, <1>4 DEF vars
<1>5. CASE \E d \in Deliveries : \/ \E r \in Requests, p \in Paths, c \in Contents : Deliver(d, r, p, c)
                                 \/ Handle(d)
  BY <1>5, DeliverHonest, HandleHonest
<1> QED BY <1>2, <1>3, <1>4, <1>5 DEF Next

\* An agent that is told its write was made has that content at that path, by
\* the session it belongs to, whether this delivery made it or an earlier one.
THEOREM AnswersEarned == Spec => []OkIsEarned
<1>1. Init => AllHonest
  BY InitHonest
<1>2. IInv /\ AllHonest /\ [Next]_vars => AllHonest'
  BY StepHonest
<1>3. AllHonest => OkIsEarned
  BY DEF AllHonest, Honest, Performed, Asked, OkIsEarned
<1> QED BY <1>1, <1>2, <1>3, Inductive, PTL DEF Spec

=============================================================================
