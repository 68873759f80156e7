------------------------- MODULE AppCapture_proofs -------------------------
(***************************************************************************)
(* That an activation object lives exactly as long as its users, for any    *)
(* number of processes and of activations.                                  *)
(*                                                                          *)
(* Counts are not enough: the worker's reference is accounted for by where  *)
(* it stands (WorkerOwns), and what is announced by what the callback has   *)
(* stored before (AnswerStored).                                            *)
(***************************************************************************)
EXTENDS AppCapture, TLAPS

Ops == {"none", "asked", "answered", "returning"}
Answers == {"none", "client", "taken", "empty", "error"}
Activation == [refs : 0 .. 2, ready : BOOLEAN, answer : Answers, op : Ops]

ActsOK == cur \in Slots \cup {0} /\ acts \in [Slots -> Activation]

\* The worker has an activation from New to Release, and asks only once.
WorkerOwns ==
    /\ cur # 0 <=> pc \in {"ask", "wait", "release"}
    /\ pc = "ask" => acts[cur].op = "none"

\* The callback stores its answer before it announces it.
AnswerStored ==
    \A s \in Slots : acts[s].op \in {"answered", "returning"} => acts[s].answer # "none"

IInv == ActsOK /\ WorkerOwns /\ AnswerStored /\ ActivationOutlivesUsers

-----------------------------------------------------------------------------
\* Slots are numbers, and 0 is none of them.
LEMMA SlotsPositive == \A s \in Slots : s \in Nat /\ s # 0
  BY AppCaptureAssumption

\* The changes of an object that occur.
LEMMA AskedIsOne ==
  ASSUME NEW a \in Activation, a.refs = 1
  PROVE  /\ Asked(a) \in Activation /\ Asked(a).refs = 2 /\ Asked(a).op = "asked"
         /\ Asked(a).ready = a.ready /\ Asked(a).answer = a.answer
<1> DEFINE n == 2
           o == "asked"
<1>1. n \in 0 .. 2 /\ o \in Ops
  BY DEF Ops
<1>2. Asked(a) = [a EXCEPT !.refs = n, !.op = o]
  BY DEF Asked
<1> HIDE DEF n, o
<1>3. Asked(a) \in Activation /\ Asked(a).refs = n /\ Asked(a).op = o
      /\ Asked(a).ready = a.ready /\ Asked(a).answer = a.answer
  BY <1>1, <1>2 DEF Activation
<1> QED
  BY <1>3 DEF n, o

LEMMA AnsweredIsOne ==
  ASSUME NEW a \in Activation, NEW w \in {"client", "empty", "error"}
  PROVE  /\ Answered(a, w) \in Activation /\ Answered(a, w).refs = a.refs
         /\ Answered(a, w).op = "answered" /\ Answered(a, w).answer = w
<1> DEFINE o == "answered"
<1>1. w \in Answers /\ o \in Ops
  BY DEF Answers, Ops
<1>2. Answered(a, w) = [a EXCEPT !.answer = w, !.op = o]
  BY DEF Answered
<1> HIDE DEF o
<1>3. Answered(a, w) \in Activation /\ Answered(a, w).refs = a.refs
      /\ Answered(a, w).op = o /\ Answered(a, w).answer = w
  BY <1>1, <1>2 DEF Activation
<1> QED
  BY <1>3 DEF o

LEMMA AnnouncedIsOne ==
  ASSUME NEW a \in Activation
  PROVE  /\ Announced(a) \in Activation /\ Announced(a).refs = a.refs
         /\ Announced(a).op = "returning" /\ Announced(a).answer = a.answer
<1> DEFINE o == "returning"
<1>1. o \in Ops
  BY DEF Ops
<1>2. Announced(a) = [a EXCEPT !.ready = TRUE, !.op = o]
  BY DEF Announced
<1> HIDE DEF o
<1>3. /\ Announced(a) \in Activation /\ Announced(a).refs = a.refs
      /\ Announced(a).op = o /\ Announced(a).answer = a.answer
  BY <1>1, <1>2 DEF Activation
<1> QED
  BY <1>3 DEF o

LEMMA ReturnedIsOne ==
  ASSUME NEW a \in Activation, a.refs = 2
  PROVE  /\ Returned(a) \in Activation /\ Returned(a).refs = 1 /\ Returned(a).op = "none"
         /\ Returned(a).ready = a.ready /\ Returned(a).answer = a.answer
<1> DEFINE n == 1
           o == "none"
<1>1. n \in 0 .. 2 /\ o \in Ops
  BY DEF Ops
<1>2. Returned(a) = [a EXCEPT !.refs = n, !.op = o]
  BY DEF Returned
<1> HIDE DEF n, o
<1>3. /\ Returned(a) \in Activation /\ Returned(a).refs = n /\ Returned(a).op = o
      /\ Returned(a).ready = a.ready /\ Returned(a).answer = a.answer
  BY <1>1, <1>2 DEF Activation
<1> QED
  BY <1>3 DEF n, o

LEMMA ReleasedIsOne ==
  ASSUME NEW a \in Activation, a.refs = 2
  PROVE  /\ Released(a) \in Activation /\ Released(a).refs = 1
         /\ Released(a).op = a.op /\ Released(a).ready = a.ready
         /\ Released(a).answer = a.answer
<1> DEFINE n == 1
<1>1. n \in 0 .. 2
  OBVIOUS
<1>2. Released(a) = [a EXCEPT !.refs = n]
  BY DEF Released
<1> HIDE DEF n
<1>3. /\ Released(a) \in Activation /\ Released(a).refs = n
      /\ Released(a).op = a.op /\ Released(a).ready = a.ready
      /\ Released(a).answer = a.answer
  BY <1>1, <1>2 DEF Activation
<1> QED
  BY <1>3 DEF n

LEMMA Taken ==
  ASSUME NEW a \in Activation, NEW w \in Answers
  PROVE  LET b == [a EXCEPT !.answer = w] IN
         /\ b \in Activation
         /\ b.refs = a.refs /\ b.op = a.op /\ b.answer = w
  BY DEF Activation

LEMMA UnusedIsOne ==
  /\ Unused \in Activation
  /\ Unused.refs = 0 /\ ~Unused.ready /\ Unused.answer = "none" /\ Unused.op = "none"
<1>1. 0 \in 0 .. 2 /\ FALSE \in BOOLEAN /\ "none" \in Answers /\ "none" \in Ops
  BY DEF Answers, Ops
<1> QED
  BY <1>1 DEF Unused, Activation

LEMMA NewIsOne ==
  /\ NewActivation \in Activation /\ NewActivation.refs = 1
  /\ NewActivation.op = "none" /\ ~NewActivation.ready
<1> DEFINE n == 1
<1>1. n \in 0 .. 2
  OBVIOUS
<1>2. NewActivation = [Unused EXCEPT !.refs = n]
  BY DEF NewActivation
<1> HIDE DEF n
<1>3. /\ NewActivation \in Activation /\ NewActivation.refs = n
      /\ NewActivation.op = "none" /\ ~NewActivation.ready
  BY <1>1, <1>2, UnusedIsOne DEF Activation
<1> QED
  BY <1>3 DEF n

LEMMA InitIInv == Init => IInv
<1> SUFFICES ASSUME Init PROVE IInv
  OBVIOUS
<1>1. acts = [s \in Slots |-> Unused] /\ cur = 0 /\ pc = "off"
  BY DEF Init
<1>2. Unused \in Activation
  BY UnusedIsOne
<1>3. \A s \in Slots : Users(s) = 0
  BY <1>1, SlotsPositive DEF Users, Unused
<1> QED
  BY <1>1, <1>2, <1>3 DEF IInv, ActsOK, WorkerOwns, AnswerStored,
     ActivationOutlivesUsers, Unused

\* Steps that touch neither the objects nor the worker's hold on one.
LEMMA NothingTouched ==
  ASSUME IInv, UNCHANGED <<acts, cur>>,
         pc' = pc \/ ({pc, pc'} \cap {"ask", "wait", "release"} = {})
  PROVE  IInv'
<1>1. \A s \in Slots : Users(s)' = Users(s)
  BY DEF Users
<1>2. ActsOK' /\ AnswerStored' /\ ActivationOutlivesUsers'
  BY <1>1 DEF IInv, ActsOK, AnswerStored, ActivationOutlivesUsers
<1>3. WorkerOwns'
  BY DEF IInv, WorkerOwns
<1> QED
  BY <1>2, <1>3 DEF IInv

-----------------------------------------------------------------------------
(* The worker.                                                              *)

LEMMA NewKeeps == ASSUME IInv, New PROVE IInv'
<1>1. pc = "new" /\ cur = 0
  BY DEF New, IInv, WorkerOwns
<1>2. CASE Fails /\ UNCHANGED <<cur, acts>>
  BY <1>1, <1>2, NothingTouched DEF Fails
<1>3. CASE \E s \in {t \in Slots : acts[t] = Unused} :
              cur' = s /\ acts' = [acts EXCEPT ![s] = NewActivation] /\ pc' = "ask"
  <2>1. PICK s \in Slots : /\ acts[s] = Unused /\ cur' = s
                           /\ acts' = [acts EXCEPT ![s] = NewActivation]
                           /\ pc' = "ask"
    BY <1>3
  <2>2. /\ NewActivation \in Activation /\ NewActivation.refs = 1
        /\ NewActivation.op = "none" /\ ~NewActivation.ready
    BY NewIsOne
  <2>3. acts'[s] = NewActivation /\ \A t \in Slots \ {s} : acts'[t] = acts[t]
    BY <2>1 DEF IInv, ActsOK
  <2>4. ActsOK'
    BY <2>1, <2>2 DEF IInv, ActsOK
  <2>5. WorkerOwns'
    BY <2>1, <2>2, <2>3, SlotsPositive DEF WorkerOwns
  <2>6. AnswerStored'
    BY <2>2, <2>3 DEF IInv, AnswerStored
  <2>7. Users(s)' = 1 /\ \A t \in Slots \ {s} : Users(t)' = Users(t)
    BY <1>1, <2>1, <2>2, <2>3, SlotsPositive DEF Users
  <2>8. ActivationOutlivesUsers'
    BY <2>2, <2>3, <2>7 DEF IInv, ActivationOutlivesUsers
  <2> QED
    BY <2>4, <2>5, <2>6, <2>8 DEF IInv
<1> QED
  BY <1>2, <1>3 DEF New

\* A step on the worker's own object, which keeps the other ones.
LEMMA OwnObject ==
  ASSUME IInv, cur # 0, cur' = cur, pc' \in {"wait", "release"},
         acts' = [acts EXCEPT ![cur] = acts'[cur]], acts'[cur] \in Activation,
         acts'[cur].refs = 1 + (IF acts'[cur].op # "none" THEN 1 ELSE 0),
         acts'[cur].ready => acts'[cur].answer # "none",
         acts'[cur].op \in {"answered", "returning"} => acts'[cur].answer # "none"
  PROVE  IInv'
<1>1. cur \in Slots /\ \A t \in Slots \ {cur} : acts'[t] = acts[t]
  BY DEF IInv, ActsOK
<1>2. ActsOK' /\ AnswerStored'
  BY <1>1 DEF IInv, ActsOK, AnswerStored
<1>3. WorkerOwns'
  BY DEF IInv, WorkerOwns
<1>4. Users(cur)' = acts'[cur].refs /\ \A t \in Slots \ {cur} : Users(t)' = Users(t)
  BY <1>1 DEF Users
<1>5. ActivationOutlivesUsers'
  BY <1>1, <1>4 DEF IInv, ActivationOutlivesUsers
<1> QED
  BY <1>2, <1>3, <1>5 DEF IInv

LEMMA AskSystemKeeps == ASSUME IInv, AskSystem PROVE IInv'
<1>1. pc = "ask" /\ cur # 0 /\ cur \in Slots /\ cur' = cur /\ acts[cur].op = "none"
  BY DEF AskSystem, Goto, IInv, WorkerOwns, ActsOK
<1>2. acts[cur] \in Activation /\ acts[cur].refs = Users(cur)
      /\ (acts[cur].ready => acts[cur].answer # "none")
  BY <1>1 DEF IInv, ActsOK, ActivationOutlivesUsers
<1>3. acts[cur].refs = 1
  BY <1>1, <1>2 DEF Users
<1>4. CASE Goto("ask", "wait") /\ acts' = [acts EXCEPT ![cur] = Asked(@)]
  <2>1. acts'[cur] = Asked(acts[cur]) /\ acts' = [acts EXCEPT ![cur] = acts'[cur]]
    BY <1>1, <1>4 DEF IInv, ActsOK
  <2>2. pc' \in {"wait", "release"}
    BY <1>4 DEF Goto
  <2>3. /\ acts'[cur] \in Activation /\ acts'[cur].refs = 2 /\ acts'[cur].op = "asked"
        /\ acts'[cur].ready = acts[cur].ready /\ acts'[cur].answer = acts[cur].answer
    BY <1>2, <1>3, <2>1, AskedIsOne
  <2> QED
    BY <1>1, <1>2, <2>1, <2>2, <2>3, OwnObject
<1>5. CASE Goto("ask", "release") /\ UNCHANGED acts
  <2>1. acts' = [acts EXCEPT ![cur] = acts'[cur]] /\ acts'[cur] = acts[cur]
    BY <1>5 DEF IInv, ActsOK
  <2>2. pc' \in {"wait", "release"}
    BY <1>5 DEF Goto
  <2> QED
    BY <1>1, <1>2, <1>3, <2>1, <2>2, OwnObject
<1> QED
  BY <1>4, <1>5 DEF AskSystem

LEMMA WaitKeeps == ASSUME IInv, Wait PROVE IInv'
<1>1. pc = "wait" /\ pc' = "release" /\ cur # 0 /\ cur \in Slots /\ cur' = cur
  BY DEF Wait, IInv, WorkerOwns, ActsOK
<1>2. /\ acts[cur] \in Activation /\ acts[cur].refs = Users(cur)
      /\ (acts[cur].ready => acts[cur].answer # "none")
      /\ (acts[cur].op \in {"answered", "returning"} => acts[cur].answer # "none")
  BY <1>1 DEF IInv, ActsOK, ActivationOutlivesUsers, AnswerStored
<1>3. acts[cur].refs = 1 + (IF acts[cur].op # "none" THEN 1 ELSE 0)
  BY <1>1, <1>2 DEF Users
<1>4. acts' = acts \/ acts' = [acts EXCEPT ![cur].answer = "taken"]
  BY DEF Wait
<1>5. CASE acts' = acts
  <2>1. acts' = [acts EXCEPT ![cur] = acts'[cur]] /\ acts'[cur] = acts[cur]
    BY <1>5 DEF IInv, ActsOK
  <2> QED
    BY <1>1, <1>2, <1>3, <2>1, OwnObject
<1>6. CASE acts' = [acts EXCEPT ![cur].answer = "taken"]
  <2>1. /\ acts'[cur] = [acts[cur] EXCEPT !.answer = "taken"]
        /\ acts' = [acts EXCEPT ![cur] = acts'[cur]]
    BY <1>1, <1>6 DEF IInv, ActsOK
  <2>2. "taken" \in Answers
    BY DEF Answers
  <2>3. /\ acts'[cur] \in Activation /\ acts'[cur].refs = acts[cur].refs
        /\ acts'[cur].op = acts[cur].op /\ acts'[cur].answer = "taken"
    BY <1>2, <2>1, <2>2, Taken
  <2> QED
    BY <1>1, <1>3, <2>1, <2>3, OwnObject
<1> QED
  BY <1>4, <1>5, <1>6

\* The last one to let go is the one that deletes.
LEMMA ReleaseKeeps == ASSUME IInv, Release PROVE IInv'
<1>1. /\ pc = "release" /\ pc' \in {"init", "close"} /\ cur # 0 /\ cur \in Slots
      /\ cur' = 0 /\ acts' = [acts EXCEPT ![cur] = Released(acts[cur])]
  BY DEF Release, Fails, IInv, WorkerOwns, ActsOK
<1> DEFINE a == acts[cur]
           b == Released(acts[cur])
<1>2. a \in Activation /\ a.refs = 1 + (IF a.op # "none" THEN 1 ELSE 0)
  BY <1>1 DEF IInv, ActsOK, ActivationOutlivesUsers, Users
<1>3. /\ a.ready => a.answer # "none"
      /\ a.op \in {"answered", "returning"} => a.answer # "none"
  BY <1>1 DEF IInv, ActivationOutlivesUsers, AnswerStored
<1>4. /\ b \in Activation /\ b.refs = (IF b.op # "none" THEN 1 ELSE 0)
      /\ b.ready => b.answer # "none"
      /\ b.op \in {"answered", "returning"} => b.answer # "none"
  <2>1. CASE a.op = "none"
    <3>1. b = Unused
      BY <1>2, <2>1 DEF Released
    <3> QED
      BY <3>1, UnusedIsOne
  <2>2. CASE a.op # "none"
    <3>1. /\ b \in Activation
          /\ b.refs = 1 /\ b.op = a.op /\ b.ready = a.ready /\ b.answer = a.answer
      BY <1>2, <2>2, ReleasedIsOne
    <3> QED
      BY <1>3, <2>2, <3>1
  <2> QED
    BY <2>1, <2>2
<1>5. acts'[cur] = b /\ \A t \in Slots \ {cur} : acts'[t] = acts[t]
  BY <1>1 DEF IInv, ActsOK
<1> HIDE DEF a, b
<1>6. ActsOK'
  BY <1>1, <1>4 DEF IInv, ActsOK, b
<1>7. WorkerOwns' /\ AnswerStored'
  BY <1>1, <1>4, <1>5 DEF IInv, WorkerOwns, AnswerStored
<1>8. acts'[cur].refs = IF acts'[cur].op # "none" THEN 1 ELSE 0
  BY <1>4, <1>5
<1>9. ASSUME NEW t \in Slots PROVE acts'[t].refs = Users(t)'
  <2>1. Users(t)' = IF acts'[t].op # "none" THEN 1 ELSE 0
    BY <1>1, SlotsPositive DEF Users
  <2>2. CASE t = cur
    BY <1>8, <2>1, <2>2
  <2>3. CASE t # cur
    <3>1. acts'[t] = acts[t] /\ Users(t)' = Users(t)
      BY <1>5, <2>1, <2>3 DEF Users
    <3> QED
      BY <3>1 DEF IInv, ActivationOutlivesUsers
  <2> QED
    BY <2>2, <2>3
<1>10. ActivationOutlivesUsers'
  BY <1>4, <1>5, <1>9 DEF IInv, ActivationOutlivesUsers
<1> QED
  BY <1>6, <1>7, <1>10 DEF IInv

-----------------------------------------------------------------------------
(* The system.                                                              *)

LEMMA ReplyKeeps == ASSUME IInv, NEW s \in Slots, Reply(s) PROVE IInv'
<1> DEFINE a == acts[s]
<1>1. UNCHANGED <<pc, cur>>
  BY DEF Reply, worker
<1>2. /\ a \in Activation /\ a.refs = Users(s) /\ (a.ready => a.answer # "none")
      /\ (a.op \in {"answered", "returning"} => a.answer # "none")
      /\ (pc = "ask" /\ cur = s => a.op = "none")
  BY DEF IInv, ActsOK, WorkerOwns, AnswerStored, ActivationOutlivesUsers
<1>3. a.op # "none" /\ a.refs = (IF cur = s THEN 1 ELSE 0) + 1
  BY <1>2 DEF Reply, Users
<1>4. acts' = [acts EXCEPT ![s] = acts'[s]]
  BY DEF Reply, IInv, ActsOK
<1> DEFINE b == acts'[s]
<1>5. /\ b \in Activation
      /\ b.refs = (IF cur = s THEN 1 ELSE 0) + (IF b.op # "none" THEN 1 ELSE 0)
      /\ b.ready => b.answer # "none"
      /\ b.op \in {"answered", "returning"} => b.answer # "none"
  <2>1. CASE a.op = "asked"
    <3>1. PICK w \in {"client", "empty", "error"} : b = Answered(a, w)
      BY <2>1 DEF Reply, IInv, ActsOK
    <3> QED
      BY <1>2, <1>3, <3>1, AnsweredIsOne
  <2>2. CASE a.op = "answered"
    <3>1. b = Announced(a)
      BY <2>2 DEF Reply, IInv, ActsOK
    <3> QED
      BY <1>2, <1>3, <2>2, <3>1, AnnouncedIsOne
  <2>3. CASE a.op = "returning" /\ a.refs = 1
    <3>1. b = Unused
      BY <2>3 DEF Reply, Returned, IInv, ActsOK
    <3> QED
      BY <1>3, <2>3, <3>1, UnusedIsOne
  <2>4. CASE a.op = "returning" /\ a.refs # 1
    <3>1. b = Returned(a)
      BY <2>4 DEF Reply, IInv, ActsOK
    <3>2. cur = s /\ a.refs = 2
      BY <1>3, <2>4
    <3> QED
      BY <1>2, <2>4, <3>1, <3>2, ReturnedIsOne
  <2> QED
    BY <1>2, <1>3, <2>1, <2>2, <2>3, <2>4 DEF Activation, Ops
<1>6. \A t \in Slots \ {s} : acts'[t] = acts[t]
  BY <1>4 DEF IInv, ActsOK
<1> HIDE DEF b
<1>7. ActsOK' /\ AnswerStored'
  BY <1>1, <1>4, <1>5, <1>6 DEF IInv, ActsOK, AnswerStored, b
<1>8. WorkerOwns'
  BY <1>1, <1>2, <1>3, <1>6 DEF IInv, ActsOK, WorkerOwns
<1>9. acts'[s].refs = Users(s)' /\ \A t \in Slots \ {s} : Users(t)' = Users(t)
  BY <1>1, <1>5, <1>6 DEF Users, b
<1>10. ActivationOutlivesUsers'
  BY <1>5, <1>6, <1>9 DEF IInv, ActivationOutlivesUsers, b
<1> QED
  BY <1>7, <1>8, <1>10 DEF IInv

-----------------------------------------------------------------------------
LEMMA NextKeepsIInv == IInv /\ [Next]_vars => IInv'
<1> SUFFICES ASSUME IInv, [Next]_vars PROVE IInv'
  OBVIOUS
<1>1. CASE UNCHANGED vars
  BY <1>1, NothingTouched DEF vars, worker
<1>2. CASE \E p \in Pids : Spawn(p) \/ Exit(p)
  BY <1>2, NothingTouched DEF Spawn, Exit, worker
<1>3. CASE \E call \in {"start", "stop"} : Ask(call)
  BY <1>3, NothingTouched DEF Ask, worker
<1>4. CASE Join
  BY <1>4, NothingTouched DEF Join
<1>5. CASE Find \/ Open \/ Initialize \/ Close \/ Run
  BY <1>5, NothingTouched DEF Find, Open, Initialize, Close, Run, Fails, Goto
<1>6. CASE New \/ AskSystem \/ Wait \/ Release
  BY <1>6, NewKeeps, AskSystemKeeps, WaitKeeps, ReleaseKeeps
<1>7. CASE \E s \in Slots : Reply(s)
  BY <1>7, ReplyKeeps
<1> QED
  BY <1>1, <1>2, <1>3, <1>4, <1>5, <1>6, <1>7 DEF Next, Worker, WorkerError

\* An activation lives exactly as long as the worker or the system may still touch
\* it (AppAudio.cpp: "cancellation/timeouts never leave pointers into a dead
\* stream"), for any number of processes, starts, stops and late answers.
THEOREM ActivationsOutlive == Spec => []ActivationOutlivesUsers
<1>1. Spec => []IInv
  BY InitIInv, NextKeepsIInv, PTL DEF Spec
<1> QED
  BY <1>1, PTL DEF IInv

==============================================================================
