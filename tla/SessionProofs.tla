----------------------------- MODULE SessionProofs -----------------------------
(* Session for any questions, clients, modes and any way of dying: a question *)
(* that waits is on the board, is decided once and by the mode in force, and  *)
(* blocked is never shown for nothing.                                        *)
EXTENDS Session, TLAPS

Question == [step : Steps, reply : Choices \cup {None}, told : Choices \cup {None}]

\* The agent has been told of the questions that are over, and of no other.
ToldAtTheEnd == \A x \in Questions : q[x].told # None <=> q[x].step = "over"

\* A call that holds a mode for a question decides it.
ApplyingDecides == \A a \in applying : Policy(a[2], a[1]) # None

\* An agent that asks one question at a time has one open, and it is shown.
OneOpen ==
  ~Parallel =>
    /\ \A x, y \in Questions :
         q[x].step \notin {"unasked", "over"} /\ q[y].step \notin {"unasked", "over"} => x = y
    /\ \A x \in Questions : q[x].step \in Open => pending = x

\* What the modes leave to decide, if questions come one at a time.
ModesApply == ~Parallel => ModeReaches

\* TypeOK in two halves: what the handlers share, and the rest.
Shape ==
  /\ q \in [Questions -> Question]
  /\ pending \in Questions \cup {None}
  /\ pending # None => q[pending].step \in Open
  /\ applying \subseteq Questions \X Modes

Rest ==
  /\ phase \in {"starting", "registered", "running", "failed"}
  /\ state \in States /\ mode \in Modes
  /\ turn \in {"idle", "called"} /\ drained \in BOOLEAN
  /\ proc \in {"running", "exited"} /\ done \in BOOLEAN /\ listed \in BOOLEAN
  /\ watch \in {"none", "watching", "ended", "gone"}
  /\ stop \in {"no", "marked"} /\ shut \in {"no", "marked", "waiting", "returned"}

\* One decision a question.
Once ==
  \A x \in Questions :
    /\ q[x].reply # None => q'[x].reply = q[x].reply
    /\ q'[x].told # q[x].told =>
         q[x].told = None /\ (q'[x].told = q[x].reply \/ (done /\ q'[x].told = "cancel"))

\* What every kind of step is shown to keep.
Board == Shape /\ ToldAtTheEnd /\ ApplyingDecides /\ OneOpen /\ ModesApply /\ BlockedIsReal

IInv == TypeOK /\ ToldAtTheEnd /\ ApplyingDecides /\ OneOpen /\ ModesApply /\ BlockedIsReal

-----------------------------------------------------------------------------
LEMMA NoneIsNoChoice == None \notin Choices /\ None \notin Questions
BY QuestionsAssumption DEF Choices

LEMMA PolicyType ==
  ASSUME NEW m, NEW x
  PROVE  Policy(m, x) \in Choices \cup {None}
BY DEF Policy, Choices

\* A question whose handler takes a step.
LEMMA Stepped ==
  ASSUME q \in [Questions -> Question], NEW x \in Questions, NEW s \in Steps,
         q' = [q EXCEPT ![x].step = s]
  PROVE  /\ q' \in [Questions -> Question]
         /\ q'[x].step = s /\ q'[x].reply = q[x].reply /\ q'[x].told = q[x].told
         /\ \A y \in Questions : y # x => q'[y] = q[y]
BY DEF Question

\* A question that somebody decides.
LEMMA Deciding ==
  ASSUME q \in [Questions -> Question], NEW x \in Questions, NEW choice \in Choices,
         q' = Decided(x, choice)
  PROVE  /\ q' \in [Questions -> Question]
         /\ q'[x].step = q[x].step /\ q'[x].told = q[x].told
         /\ q'[x].reply = IF q[x].reply = None THEN choice ELSE q[x].reply
         /\ q'[x].reply # None
         /\ \A y \in Questions : y # x => q'[y] = q[y]
BY NoneIsNoChoice DEF Question, Decided

\* A question whose handler consults the mode.
LEMMA Consulting ==
  ASSUME q \in [Questions -> Question], NEW x \in Questions, Consult(x)
  PROVE  /\ q' \in [Questions -> Question]
         /\ q'[x].step = "parked" /\ q'[x].told = q[x].told
         /\ q[x].reply # None => q'[x].reply = q[x].reply
         /\ q'[x].reply = None => Policy(mode, x) = None
         /\ \A y \in Questions : y # x => q'[y] = q[y]
<1>1. CASE Policy(mode, x) = None
  BY <1>1 DEF Consult, Question, Steps
<1>2. CASE Policy(mode, x) # None
  <2>1. Policy(mode, x) \in Choices
    BY <1>2, PolicyType
  <2>2. CASE q[x].reply = None
    BY <1>2, <2>1, <2>2, NoneIsNoChoice DEF Consult, Decided, Question, Steps
  <2>3. CASE q[x].reply # None
    BY <1>2, <2>3 DEF Consult, Decided, Question, Steps
  <2> QED BY <2>2, <2>3
<1> QED BY <1>1, <1>2

\* A question whose handler answers the agent.
LEMMA Responding ==
  ASSUME q \in [Questions -> Question], NEW x \in Questions, Respond(x)
  PROVE  /\ q' \in [Questions -> Question]
         /\ q'[x].step = "over" /\ q'[x].reply = q[x].reply /\ q'[x].told # None
         /\ q'[x].told = q[x].reply \/ (done /\ q'[x].told = "cancel")
         /\ \A y \in Questions : y # x => q'[y] = q[y]
<1>1. PICK outcome \in {q[x].reply} \cup (IF done THEN {"cancel"} ELSE {}) :
        outcome # None /\ q' = [q EXCEPT ![x].step = "over", ![x].told = outcome]
  BY DEF Respond
<1>2. outcome \in Choices
  BY <1>1 DEF Question, Choices
<1> QED BY <1>1, <1>2 DEF Question, Steps

-----------------------------------------------------------------------------
\* The steps that leave the questions, the mode and what is applied alone, and
\* show anything but blocked.
Elsewhere ==
  /\ UNCHANGED <<q, pending, mode, applying>>
  /\ state' = state \/ state' # "blocked"

LEMMA KindsOfStep ==
  ASSUME TypeOK, [Next]_vars
  PROVE  \/ Elsewhere
         \/ \E x \in Questions : Asks(x)
         \/ \E x \in Questions : Post(x)
         \/ \E x \in Questions : Block(x)
         \/ \E x \in Questions : Consult(x)
         \/ \E x \in Questions : Settle(x)
         \/ \E x \in Questions : Clear(x)
         \/ \E x \in Questions : Respond(x)
         \/ \E x \in Questions, m \in Modes : Apply(x, m)
         \/ \E choice \in Choices : Answer(choice)
         \/ \E m \in Modes : SetMode(m)
<1>1. Register \/ StartFails \/ Exits \/ LoopEnds \/ Drain \/ Unlist \/ StopKill
        \/ ShutKill \/ ShutReturn \/ UNCHANGED vars => Elsewhere
  BY DEF Elsewhere, Register, StartFails, Exits, LoopEnds, Drain, Unlist, StopKill,
         ShutKill, ShutReturn, vars, board
<1>2. Ready \/ Prompt \/ TurnEnds \/ Consume \/ WatchExit \/ StopMark \/ ShutMark => Elsewhere
  BY DEF Elsewhere, Ready, Prompt, TurnEnds, Consume, WatchExit, StopMark, ShutMark, board
<1> QED BY <1>1, <1>2 DEF Next, Running, Handle

-----------------------------------------------------------------------------
(* One lemma for each kind of step.                                          *)

LEMMA AsksKeeps ==
  ASSUME Board, NEW x \in Questions, Asks(x)
  PROVE  Board' /\ Once
<1>0. /\ Shape /\ ToldAtTheEnd /\ ApplyingDecides /\ OneOpen /\ ModesApply /\ BlockedIsReal
  BY DEF Board
<1>1. /\ q' \in [Questions -> Question]
      /\ q'[x].step = "read" /\ q'[x].reply = q[x].reply /\ q'[x].told = q[x].told
      /\ \A y \in Questions : y # x => q'[y] = q[y]
  BY <1>0, Stepped DEF Asks, Shape, Steps
<1>2. Shape'
  BY <1>0, <1>1, NoneIsNoChoice DEF Shape, Asks, board, Open
<1>3. ToldAtTheEnd'
  BY <1>0, <1>1 DEF ToldAtTheEnd, Asks
<1>4. ApplyingDecides'
  BY <1>0 DEF ApplyingDecides, Asks, board, Policy
<1>5. OneOpen'
  BY <1>0, <1>1, NoneIsNoChoice DEF OneOpen, ToldAtTheEnd, Shape, Asks, Open
<1>6. ModesApply'
  BY <1>0, <1>1 DEF ModesApply, ModeReaches, Asks, board, Policy
<1>7. BlockedIsReal'
  BY <1>0, <1>1 DEF BlockedIsReal, Asks
<1>8. Once
  BY <1>0, <1>1 DEF Once
<1> QED BY <1>2, <1>3, <1>4, <1>5, <1>6, <1>7, <1>8 DEF Board

LEMMA PostKeeps ==
  ASSUME Board, NEW x \in Questions, Post(x)
  PROVE  Board' /\ Once
<1>0. /\ Shape /\ ToldAtTheEnd /\ ApplyingDecides /\ OneOpen /\ ModesApply /\ BlockedIsReal
  BY DEF Board
<1>1. /\ q' \in [Questions -> Question]
      /\ q'[x].step = "posted" /\ q'[x].reply = q[x].reply /\ q'[x].told = q[x].told
      /\ \A y \in Questions : y # x => q'[y] = q[y]
  BY <1>0, Stepped DEF Post, Shape, Steps
<1>2. Shape'
  BY <1>0, <1>1, NoneIsNoChoice DEF Shape, Post, board, Open
<1>3. ToldAtTheEnd'
  BY <1>0, <1>1 DEF ToldAtTheEnd, Post
<1>4. ApplyingDecides'
  BY <1>0 DEF ApplyingDecides, Post, board, Policy
<1>5. OneOpen'
  BY <1>0, <1>1, NoneIsNoChoice DEF OneOpen, ToldAtTheEnd, Shape, Post, Open
<1>6. ModesApply'
  BY <1>0, <1>1 DEF ModesApply, ModeReaches, Post, board, Policy
<1>7. BlockedIsReal'
  BY <1>0, <1>1 DEF BlockedIsReal, Post
<1>8. Once
  BY <1>0, <1>1 DEF Once
<1> QED BY <1>2, <1>3, <1>4, <1>5, <1>6, <1>7, <1>8 DEF Board

LEMMA BlockKeeps ==
  ASSUME Board, NEW x \in Questions, Block(x)
  PROVE  Board' /\ Once
<1>0. /\ Shape /\ ToldAtTheEnd /\ ApplyingDecides /\ OneOpen /\ ModesApply /\ BlockedIsReal
  BY DEF Board
<1>1. /\ q' \in [Questions -> Question]
      /\ q'[x].step = "asked" /\ q'[x].reply = q[x].reply /\ q'[x].told = q[x].told
      /\ \A y \in Questions : y # x => q'[y] = q[y]
  BY <1>0, Stepped DEF Block, Shape, Steps
<1>2. Shape'
  BY <1>0, <1>1, NoneIsNoChoice DEF Shape, Block, board, Open
<1>3. ToldAtTheEnd'
  BY <1>0, <1>1 DEF ToldAtTheEnd, Block
<1>4. ApplyingDecides'
  BY <1>0 DEF ApplyingDecides, Block, board, Policy
<1>5. OneOpen'
  BY <1>0, <1>1, NoneIsNoChoice DEF OneOpen, ToldAtTheEnd, Shape, Block, Open
<1>6. ModesApply'
  BY <1>0, <1>1 DEF ModesApply, ModeReaches, Block, board, Policy
<1>7. BlockedIsReal'
  BY <1>0, <1>1 DEF BlockedIsReal, Block
<1>8. Once
  BY <1>0, <1>1 DEF Once
<1> QED BY <1>2, <1>3, <1>4, <1>5, <1>6, <1>7, <1>8 DEF Board

LEMMA SettleKeeps ==
  ASSUME Board, NEW x \in Questions, Settle(x)
  PROVE  Board' /\ Once
<1>0. /\ Shape /\ ToldAtTheEnd /\ ApplyingDecides /\ OneOpen /\ ModesApply /\ BlockedIsReal
  BY DEF Board
<1>1. /\ q' \in [Questions -> Question]
      /\ q'[x].step = "settled" /\ q'[x].reply = q[x].reply /\ q'[x].told = q[x].told
      /\ \A y \in Questions : y # x => q'[y] = q[y]
  BY <1>0, Stepped DEF Settle, Shape, Steps
<1>2. Shape'
  BY <1>0, <1>1, NoneIsNoChoice DEF Shape, Settle, board, Open
<1>3. ToldAtTheEnd'
  BY <1>0, <1>1 DEF ToldAtTheEnd, Settle
<1>4. ApplyingDecides'
  BY <1>0 DEF ApplyingDecides, Settle, board, Policy
<1>5. OneOpen'
  BY <1>0, <1>1, NoneIsNoChoice DEF OneOpen, ToldAtTheEnd, Shape, Settle, Open
<1>6. ModesApply'
  BY <1>0, <1>1 DEF ModesApply, ModeReaches, Settle, board, Policy
<1>7. BlockedIsReal'
  BY <1>0, <1>1 DEF BlockedIsReal, Settle
<1>8. Once
  BY <1>0, <1>1 DEF Once
<1> QED BY <1>2, <1>3, <1>4, <1>5, <1>6, <1>7, <1>8 DEF Board

LEMMA ClearKeeps ==
  ASSUME Board, NEW x \in Questions, Clear(x)
  PROVE  Board' /\ Once
<1>0. /\ Shape /\ ToldAtTheEnd /\ ApplyingDecides /\ OneOpen /\ ModesApply /\ BlockedIsReal
  BY DEF Board
<1>1. /\ q' \in [Questions -> Question]
      /\ q'[x].step = "cleared" /\ q'[x].reply = q[x].reply /\ q'[x].told = q[x].told
      /\ \A y \in Questions : y # x => q'[y] = q[y]
  BY <1>0, Stepped DEF Clear, Shape, Steps
<1>2. Shape'
  BY <1>0, <1>1, NoneIsNoChoice DEF Shape, Clear, board, Open
<1>3. ToldAtTheEnd'
  BY <1>0, <1>1 DEF ToldAtTheEnd, Clear
<1>4. ApplyingDecides'
  BY <1>0 DEF ApplyingDecides, Clear, board, Policy
<1>5. OneOpen'
  BY <1>0, <1>1, NoneIsNoChoice DEF OneOpen, ToldAtTheEnd, Shape, Clear, Open
<1>6. ModesApply'
  BY <1>0, <1>1 DEF ModesApply, ModeReaches, Clear, board, Policy
<1>7. BlockedIsReal'
  BY <1>0, <1>1 DEF BlockedIsReal, Clear
<1>8. Once
  BY <1>0, <1>1 DEF Once
<1> QED BY <1>2, <1>3, <1>4, <1>5, <1>6, <1>7, <1>8 DEF Board

LEMMA ConsultKeeps ==
  ASSUME Board, NEW x \in Questions, Consult(x)
  PROVE  Board' /\ Once
<1>0. /\ Shape /\ ToldAtTheEnd /\ ApplyingDecides /\ OneOpen /\ ModesApply /\ BlockedIsReal
  BY DEF Board
<1>1. /\ q' \in [Questions -> Question]
      /\ q'[x].step = "parked" /\ q'[x].told = q[x].told
      /\ q[x].reply # None => q'[x].reply = q[x].reply
      /\ q'[x].reply = None => Policy(mode, x) = None
      /\ \A y \in Questions : y # x => q'[y] = q[y]
  BY <1>0, Consulting DEF Shape
<1>u. q[x].step = "asked" /\ UNCHANGED <<state, pending, mode, applying>>
  BY DEF Consult, board
<1>2. Shape'
  BY <1>0, <1>1, <1>u DEF Shape, Open
<1>3. ToldAtTheEnd'
  BY <1>0, <1>1, <1>u DEF ToldAtTheEnd
<1>4. ApplyingDecides'
  BY <1>0, <1>u DEF ApplyingDecides, Policy
<1>5. OneOpen'
  BY <1>0, <1>1, <1>u DEF OneOpen, Open
<1>p. Policy(mode, x)' = Policy(mode, x) /\ \A y \in Questions : Policy(mode, y)' = Policy(mode, y)
  BY <1>u DEF Policy
<1>6. ModesApply'
  BY <1>0, <1>1, <1>u, <1>p DEF ModesApply, ModeReaches
<1>7. BlockedIsReal'
  BY <1>0, <1>1, <1>u DEF BlockedIsReal
<1>8. Once
  BY <1>0, <1>1 DEF Once
<1> QED BY <1>2, <1>3, <1>4, <1>5, <1>6, <1>7, <1>8 DEF Board

LEMMA RespondKeeps ==
  ASSUME Board, NEW x \in Questions, Respond(x)
  PROVE  Board' /\ Once
<1>0. /\ Shape /\ ToldAtTheEnd /\ ApplyingDecides /\ OneOpen /\ ModesApply /\ BlockedIsReal
  BY DEF Board
<1>1. /\ q' \in [Questions -> Question]
      /\ q'[x].step = "over" /\ q'[x].reply = q[x].reply /\ q'[x].told # None
      /\ q'[x].told = q[x].reply \/ (done /\ q'[x].told = "cancel")
      /\ \A y \in Questions : y # x => q'[y] = q[y]
  BY <1>0, Responding DEF Shape
<1>u. q[x].step = "cleared" /\ state' = "working" /\ UNCHANGED <<pending, mode, applying>>
  BY DEF Respond, board
<1>2. Shape'
  BY <1>0, <1>1, <1>u DEF Shape, Open
<1>3. ToldAtTheEnd'
  BY <1>0, <1>1, <1>u DEF ToldAtTheEnd
<1>4. ApplyingDecides'
  BY <1>0, <1>u DEF ApplyingDecides, Policy
<1>5. OneOpen'
  BY <1>0, <1>1, <1>u DEF OneOpen, Open
<1>p. \A y \in Questions : Policy(mode, y)' = Policy(mode, y)
  BY <1>u DEF Policy
<1>6. ModesApply'
  BY <1>0, <1>1, <1>u, <1>p DEF ModesApply, ModeReaches
<1>7. BlockedIsReal'
  BY <1>u DEF BlockedIsReal
<1>8. Once
  BY <1>0, <1>1, <1>u DEF Once, ToldAtTheEnd
<1> QED BY <1>2, <1>3, <1>4, <1>5, <1>6, <1>7, <1>8 DEF Board

\* A decision, from the board or from a mode that was set.
LEMMA DecisionKeeps ==
  ASSUME Board, NEW x \in Questions, NEW choice \in Choices, q' = Decided(x, choice),
         UNCHANGED <<state, pending, mode>>,
         applying' \subseteq applying,
         \A a \in applying : a[1] # x => a \in applying'
  PROVE  Board' /\ Once
<1>0. /\ Shape /\ ToldAtTheEnd /\ ApplyingDecides /\ OneOpen /\ ModesApply /\ BlockedIsReal
  BY DEF Board
<1>1. /\ q' \in [Questions -> Question]
      /\ q'[x].step = q[x].step /\ q'[x].told = q[x].told
      /\ q'[x].reply = IF q[x].reply = None THEN choice ELSE q[x].reply
      /\ q'[x].reply # None
      /\ \A y \in Questions : y # x => q'[y] = q[y]
  BY <1>0, Deciding DEF Shape
<1>s. \A y \in Questions : q'[y].step = q[y].step /\ q'[y].told = q[y].told
  BY <1>1
<1>2. Shape'
  BY <1>0, <1>1, <1>s DEF Shape
<1>3. ToldAtTheEnd'
  BY <1>0, <1>s DEF ToldAtTheEnd
<1>4. ApplyingDecides'
  BY <1>0 DEF ApplyingDecides, Policy
<1>5. OneOpen'
  BY <1>0, <1>s DEF OneOpen
<1>p. \A y \in Questions : Policy(mode, y)' = Policy(mode, y)
  BY DEF Policy
<1>6. ModesApply'
  <2>1. \A y \in Questions : y # x => (<<y, mode>> \in applying => <<y, mode>> \in applying')
    OBVIOUS
  <2> QED BY <1>0, <1>1, <1>p, <2>1 DEF ModesApply, ModeReaches
<1>7. BlockedIsReal'
  BY <1>0, <1>s DEF BlockedIsReal
<1>8. Once
  BY <1>1 DEF Once
<1> QED BY <1>2, <1>3, <1>4, <1>5, <1>6, <1>7, <1>8 DEF Board

LEMMA ApplyKeeps ==
  ASSUME Board, NEW x \in Questions, NEW m \in Modes, Apply(x, m)
  PROVE  Board' /\ Once
<1>1. Policy(m, x) # None
  BY DEF Apply, Board, ApplyingDecides
<1>2. Policy(m, x) \in Choices
  BY <1>1, PolicyType
<1>3. q' = Decided(x, Policy(m, x)) /\ applying' = applying \ {<<x, m>>}
        /\ UNCHANGED <<state, pending, mode>>
  BY DEF Apply
<1> QED BY <1>2, <1>3, DecisionKeeps

LEMMA AnswerKeeps ==
  ASSUME Board, NEW choice \in Choices, Answer(choice)
  PROVE  Board' /\ Once
<1>1. pending \in Questions /\ q' = Decided(pending, choice)
        /\ UNCHANGED <<state, pending, mode, applying>>
  BY DEF Answer, Board, Shape
<1> QED BY <1>1, DecisionKeeps

LEMMA SetModeKeeps ==
  ASSUME Board, NEW m \in Modes, SetMode(m)
  PROVE  Board' /\ Once
<1>0. /\ Shape /\ ToldAtTheEnd /\ ApplyingDecides /\ OneOpen /\ ModesApply /\ BlockedIsReal
  BY DEF Board
<1>1. /\ UNCHANGED <<q, pending, state>> /\ mode' = m
      /\ applying' = IF pending # None /\ Policy(m, pending) # None
                       THEN applying \cup {<<pending, m>>} ELSE applying
  BY DEF SetMode
<1>2. Shape'
  BY <1>0, <1>1 DEF Shape
<1>3. ToldAtTheEnd' /\ OneOpen' /\ BlockedIsReal'
  BY <1>0, <1>1 DEF ToldAtTheEnd, OneOpen, BlockedIsReal
<1>4. ApplyingDecides'
  <2>1. \A a \in applying' : Policy(a[2], a[1]) # None
    BY <1>0, <1>1 DEF ApplyingDecides
  <2> QED BY <2>1 DEF ApplyingDecides, Policy
<1>6. ModesApply'
  <2>1. \A y \in Questions : Policy(mode, y)' = Policy(m, y)
    BY <1>1 DEF Policy
  <2>2. \A y \in Questions : ~Parallel /\ q[y].step = "parked" => pending = y
    BY <1>0 DEF OneOpen, Open
  <2> QED BY <1>1, <2>1, <2>2, NoneIsNoChoice DEF ModesApply, ModeReaches
<1>7. Once
  BY <1>1 DEF Once
<1> QED BY <1>2, <1>3, <1>4, <1>6, <1>7 DEF Board

LEMMA ElsewhereKeeps ==
  ASSUME Board, Elsewhere
  PROVE  Board' /\ Once
BY DEF Board, Elsewhere, Shape, ToldAtTheEnd, ApplyingDecides, OneOpen, ModesApply, ModeReaches,
       BlockedIsReal, Policy, Once

-----------------------------------------------------------------------------
LEMMA TwoHalves == TypeOK <=> Shape /\ Rest
BY DEF TypeOK, Shape, Rest, Question

LEMMA InvariantParts == IInv <=> Board /\ Rest
BY TwoHalves DEF IInv, Board

LEMMA InitInv == Init => IInv
<1> SUFFICES ASSUME Init PROVE Board /\ Rest
  BY InvariantParts
<1>1. Shape
  BY DEF Init, Shape, Question, Steps
<1>2. Rest
  BY ModesAssumption DEF Init, Rest, States
<1>3. ToldAtTheEnd /\ ApplyingDecides /\ OneOpen /\ ModesApply /\ BlockedIsReal
  BY DEF Init, ToldAtTheEnd, ApplyingDecides, OneOpen, ModesApply, ModeReaches, BlockedIsReal, Open
<1> QED BY <1>1, <1>2, <1>3 DEF Board

\* The variables the questions do not share.
LEMMA RestKept ==
  ASSUME Rest, [Next]_vars
  PROVE  Rest'
<1> USE DEF Rest, States, board, life
<1>1. CASE Register \/ StartFails \/ Exits \/ LoopEnds \/ Ready
  BY <1>1 DEF Register, StartFails, Exits, LoopEnds, Ready
<1>2. CASE \E x \in Questions : Asks(x) \/ Handle(x)
  BY <1>2 DEF Asks, Handle, Post, Block, Consult, Settle, Clear, Respond
<1>3. CASE \/ \E x \in Questions, m \in Modes : Apply(x, m)
           \/ \E choice \in Choices : Answer(choice)
           \/ \E m \in Modes : SetMode(m)
  BY <1>3 DEF Apply, Answer, SetMode
<1>4. CASE Prompt \/ TurnEnds \/ Consume \/ Drain \/ WatchExit \/ Unlist
  BY <1>4 DEF Prompt, TurnEnds, Consume, Drain, WatchExit, Unlist
<1>5. CASE StopMark \/ StopKill \/ ShutMark \/ ShutKill \/ ShutReturn
  BY <1>5 DEF StopMark, StopKill, ShutMark, ShutKill, ShutReturn
<1>6. CASE UNCHANGED vars
  BY <1>6 DEF vars
<1> QED BY <1>1, <1>2, <1>3, <1>4, <1>5, <1>6 DEF Next, Running

LEMMA StepKeeps ==
  ASSUME IInv, [Next]_vars
  PROVE  IInv' /\ Once
<1>1. Board /\ Rest
  BY InvariantParts
<1>2. Board' /\ Once
  <2>0. TypeOK
    BY DEF IInv
  <2>1. CASE Elsewhere
    BY <1>1, <2>1, ElsewhereKeeps
  <2>2. ASSUME NEW x \in Questions, Asks(x) \/ Post(x) \/ Block(x)
        PROVE  Board' /\ Once
    BY <1>1, <2>2, AsksKeeps, PostKeeps, BlockKeeps
  <2>3. ASSUME NEW x \in Questions, Consult(x) \/ Settle(x) \/ Clear(x) \/ Respond(x)
        PROVE  Board' /\ Once
    BY <1>1, <2>3, ConsultKeeps, SettleKeeps, ClearKeeps, RespondKeeps
  <2>4. ASSUME NEW x \in Questions, NEW m \in Modes, Apply(x, m)
        PROVE  Board' /\ Once
    BY <1>1, <2>4, ApplyKeeps
  <2>5. ASSUME NEW choice \in Choices, Answer(choice)
        PROVE  Board' /\ Once
    BY <1>1, <2>5, AnswerKeeps
  <2>6. ASSUME NEW m \in Modes, SetMode(m)
        PROVE  Board' /\ Once
    BY <1>1, <2>6, SetModeKeeps
  <2> QED BY <2>0, <2>1, <2>2, <2>3, <2>4, <2>5, <2>6, KindsOfStep
<1>3. Rest'
  BY <1>1, RestKept
<1>4. IInv'
  BY <1>2, <1>3 DEF IInv, Board, Shape, Rest, TypeOK, Question
<1> QED BY <1>2, <1>4

LEMMA Invariance == Spec => [](IInv)
<1>1. IInv /\ [Next]_vars => IInv'
  BY StepKeeps
<1> QED BY <1>1, InitInv, PTL DEF Spec

-----------------------------------------------------------------------------
\* The state keeps its types, and the question on the board is one whose handler
\* has it there (session.go:308-353).
THEOREM TypeCorrect == Spec => []TypeOK
<1>1. IInv => TypeOK
  BY DEF IInv
<1> QED BY <1>1, Invariance, PTL

\* Blocked is shown only while a question holds the session up, however many
\* goroutines set the state (supervisor.go:213-224).
THEOREM BlockedTrue == Spec => []BlockedIsReal
<1>1. IInv => BlockedIsReal
  BY DEF IInv
<1> QED BY <1>1, Invariance, PTL

\* A question that waits is the one on the board, if the agent asks one at a
\* time (session.go:111-137).
THEOREM WaitingIsShown ==
  ASSUME ~Parallel
  PROVE  Spec => []QuestionShown
<1>1. IInv => QuestionShown
  BY DEF IInv, OneOpen, QuestionShown, Open
<1> QED BY <1>1, Invariance, PTL

\* No question waits on that the mode in force decides, whether the mode or the
\* question came first (session.go:111-113, 318-336).
THEOREM ModesReach ==
  ASSUME ~Parallel
  PROVE  Spec => []ModeReaches
<1>1. IInv => ModeReaches
  BY DEF IInv, ModesApply
<1> QED BY <1>1, Invariance, PTL

\* The first decision is the only one and is what the agent hears, unless its
\* connection ended (session.go:126, 181, 333-348).
THEOREM OneDecision == Spec => DecidedOnce
<1>1. IInv /\ [Next]_vars => [\A x \in Questions :
       /\ q[x].reply # None => q'[x].reply = q[x].reply
       /\ q'[x].told # q[x].told =>
            q[x].told = None /\ (q'[x].told = q[x].reply \/ (done /\ q'[x].told = "cancel"))]_vars
  BY StepKeeps DEF Once
<1> QED BY <1>1, Invariance, PTL DEF Spec, DecidedOnce
=============================================================================
