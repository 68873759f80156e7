----------------------------- MODULE AppCapture -----------------------------
(***************************************************************************)
(* The capture of one application: its process is looked up, the system is  *)
(* asked for an audio client and answers on a thread of its own, perhaps    *)
(* long after the worker has given up or has been stopped and restarted.    *)
(*                                                                          *)
(* A process id that is free may be given to another process at any time,   *)
(* but not while a handle to the old one is held.                           *)
(***************************************************************************)
EXTENDS Naturals, FiniteSets

CONSTANTS Pids,         \* process ids, none of them 0
          Slots         \* bound: activation objects that exist at once

ASSUME AppCaptureAssumption ==
    /\ Pids \subseteq Nat \ {0} /\ IsFiniteSet(Pids) /\ Slots \subseteq Nat \ {0}

VARIABLES
    procs,              \* the running processes
    starter,            \* the thread in start() or stop(), waiting for the worker
    quit,               \* quit_ and stopEvent_, set together
    state,              \* state_
    pc, pid, hr,        \* the worker, the id it found, the outcome it will report
    handle,             \* process_: the id of the process held, or 0
    client,             \* client_ is not null
    acts, cur           \* the Activation objects, and the worker's one or 0

worker == <<state, pc, pid, hr, handle, client, cur>>
control == <<starter, quit>>
vars == <<procs, control, worker, acts>>

------------------------------------------------------------------------------
(* Processes.                                                               *)

None == [app |-> "none", parent |-> 0]
Process == [app : {"wanted", "other"}, parent : Pids \cup {0}]

\* A parent with the same image, in root().
Parents(p) ==
    {q \in Pids \ {p} : q = procs[p].parent /\ procs[q].app = procs[p].app}
Climb(p) == IF Parents(p) = {} THEN p ELSE procs[p].parent

\* root(): as many steps up as there are processes, so that a circle of reused
\* ids ends too.
Root(p) ==
    LET up[n \in 0 .. Cardinality(Pids)] == IF n = 0 THEN p ELSE Climb(up[n - 1])
    IN up[Cardinality(Pids)]

Roots == {Root(p) : p \in {q \in Pids : procs[q].app = "wanted"}}

\* findAppProcess: several independent instances are none.
AppProcess == IF Cardinality(Roots) = 1 THEN CHOOSE p \in Roots : TRUE ELSE 0

------------------------------------------------------------------------------
(* Activation objects.                                                      *)

Unused == [refs |-> 0, ready |-> FALSE, answer |-> "none", op |-> "none"]
NewActivation == [Unused EXCEPT !.refs = 1]

\* The operation holds a reference of its own until its callback has returned.
Asked(a) == [a EXCEPT !.refs = @ + 1, !.op = "asked"]

\* ActivateCompleted, up to SetEvent.
Answered(a, answer) == [a EXCEPT !.answer = answer, !.op = "answered"]

\* Its SetEvent, and its return, with the reference the operation held.
Announced(a) == [a EXCEPT !.ready = TRUE, !.op = "returning"]
Returned(a) == IF a.refs = 1 THEN Unused ELSE [a EXCEPT !.refs = @ - 1, !.op = "none"]

\* Mutant: a worker that gives up returns without its Release.
LostWhenCancelled(a) ==
    IF hr = "cancelled" THEN a
    ELSE IF a.refs = 1 THEN Unused ELSE [a EXCEPT !.refs = @ - 1]
\* Activation::Release, with the destructor.
Released(a) == IF a.refs = 1 THEN Unused ELSE [a EXCEPT !.refs = @ - 1]

------------------------------------------------------------------------------
Init ==
    /\ procs \in [Pids -> {None}]
    /\ starter = "idle" /\ quit = FALSE /\ state = "Stopped"
    /\ pc = "off" /\ pid = 0 /\ hr = "ok" /\ handle = 0 /\ client = FALSE
    /\ acts = [s \in Slots |-> Unused] /\ cur = 0

Spawn(p) ==
    /\ procs[p] = None /\ p # handle
    /\ procs' \in {[procs EXCEPT ![p] = r] : r \in Process}
    /\ UNCHANGED <<control, worker, acts>>

Exit(p) ==
    /\ procs[p] # None /\ procs' = [procs EXCEPT ![p] = None]
    /\ UNCHANGED <<control, worker, acts>>

------------------------------------------------------------------------------
(* CaptureStream::start and stop, by the window thread or the supervisor.   *)

Ask(call) ==
    /\ starter = "idle" /\ call \in {"start", "stop"}
    /\ starter' = call /\ quit' = TRUE
    /\ UNCHANGED <<procs, worker, acts>>

Join ==
    /\ starter # "idle" /\ pc = "off"
    /\ starter' = "idle"
    /\ \/ /\ starter = "stop" /\ state' = "Stopped"
          /\ UNCHANGED <<quit, pc>>
       \/ /\ starter = "start" /\ state' = "Opening"
          /\ quit' = FALSE /\ pc' = "find"
    /\ UNCHANGED <<procs, pid, hr, handle, client, acts, cur>>

------------------------------------------------------------------------------
(* The worker: openProcess with activateProcessCapture, and threadMain.     *)

Goto(from, to) == pc = from /\ pc' = to
Outside == UNCHANGED <<procs, control>>

\* An error: threadMain stores the state, and closes.
Fails == pc' = "close" /\ state' = "Failed"

Find ==
    /\ pc = "find" /\ pid' = AppProcess
    /\ IF pid' = 0 THEN Fails ELSE pc' = "open" /\ UNCHANGED state
    /\ Outside /\ UNCHANGED <<hr, handle, client, acts, cur>>

Open ==
    /\ pc = "open"
    /\ \/ procs[pid] # None /\ handle' = pid /\ pc' = "new" /\ UNCHANGED state
       \/ Fails /\ UNCHANGED handle
    /\ Outside /\ UNCHANGED <<pid, hr, client, acts, cur>>

\* Without an event the object is released at once.
New ==
    /\ pc = "new"
    /\ \/ /\ \E s \in {t \in Slots : acts[t] = Unused} :
                cur' = s /\ acts' = [acts EXCEPT ![s] = NewActivation]
          /\ pc' = "ask" /\ UNCHANGED state
       \/ Fails /\ UNCHANGED <<cur, acts>>
    /\ Outside /\ UNCHANGED <<pid, hr, handle, client>>

AskSystem ==
    /\ \/ Goto("ask", "wait") /\ acts' = [acts EXCEPT ![cur] = Asked(@)] /\ UNCHANGED hr
       \/ Goto("ask", "release") /\ hr' = "error" /\ UNCHANGED acts
    /\ Outside /\ UNCHANGED <<state, pid, handle, client, cur>>

\* Mutant: neither the stop event nor the five seconds end the wait.
OnlyReady == {"ready" : x \in {y \in {1} : acts[cur].ready}}
\* WaitForMultipleObjects: the stop event is the first of the two handles.
Wakes ==
    IF quit THEN {"stop"} ELSE IF acts[cur].ready THEN {"ready"} ELSE {"timeout"}

Wait ==
    /\ pc = "wait"
    /\ \E w \in Wakes :
          LET a == acts[cur] IN
          IF w = "ready"
          THEN /\ hr' = IF a.answer = "error" THEN "error" ELSE "ok"
               /\ client' = (a.answer = "client")
               /\ acts' = IF client' THEN [acts EXCEPT ![cur].answer = "taken"] ELSE acts
          ELSE hr' = "cancelled" /\ UNCHANGED <<client, acts>>
    /\ pc' = "release"
    /\ Outside /\ UNCHANGED <<state, pid, handle, cur>>

Release ==
    /\ pc = "release" /\ cur' = 0
    /\ acts' = [acts EXCEPT ![cur] = Released(@)]
    /\ IF client THEN pc' = "init" /\ UNCHANGED state ELSE Fails
    /\ Outside /\ UNCHANGED <<pid, hr, handle, client>>

Initialize ==
    /\ pc = "init"
    /\ \/ pc' = "run" /\ state' = "Running"
       \/ Fails
    /\ Outside /\ UNCHANGED <<pid, hr, handle, client, acts, cur>>

\* A stop is looked for before the process and the packets.
Run ==
    /\ pc = "run"
    /\ \/ quit /\ pc' = "close" /\ UNCHANGED state
       \/ ~quit /\ Fails
    /\ Outside /\ UNCHANGED <<pid, hr, handle, client, acts, cur>>

\* closeDevice
Close ==
    /\ Goto("close", "off")
    /\ handle' = 0 /\ client' = FALSE
    /\ Outside /\ UNCHANGED <<state, pid, hr, acts, cur>>

Worker ==
    \/ Find \/ Open \/ New \/ AskSystem \/ Wait \/ Release \/ Initialize \/ Close
    \/ Run /\ (quit \/ procs[handle] = None)

\* A wait or a packet that fails, which nothing makes happen.
WorkerError == Run /\ ~quit

------------------------------------------------------------------------------
(* The system's side of an activation, on a thread of its own.              *)

Reply(s) ==
    /\ \/ /\ acts[s].op = "asked"
          /\ \E answer \in {"client", "empty", "error"} :
                acts' = [acts EXCEPT ![s] = Answered(@, answer)]
       \/ acts[s].op = "answered" /\ acts' = [acts EXCEPT ![s] = Announced(@)]
       \/ acts[s].op = "returning" /\ acts' = [acts EXCEPT ![s] = Returned(@)]
    /\ UNCHANGED <<procs, control, worker>>

Next ==
    \/ \E p \in Pids : Spawn(p) \/ Exit(p)
    \/ \E call \in {"start", "stop"} : Ask(call)
    \/ Join \/ Worker \/ WorkerError
    \/ \E s \in Slots : Reply(s)

Spec == Init /\ [][Next]_vars
\* Threads run; processes and the system owe nothing.
FairSpec == Spec /\ WF_vars(Worker) /\ WF_vars(Join)

------------------------------------------------------------------------------
(* Properties.                                                              *)

TypeOK ==
    /\ procs \in [Pids -> Process \cup {None}]
    /\ starter \in {"idle", "start", "stop"} /\ quit \in BOOLEAN
    /\ state \in {"Stopped", "Opening", "Running", "Failed"}
    /\ pc \in {"off", "find", "open", "new", "ask", "wait", "release", "init", "run", "close"}
    /\ pid \in Pids \cup {0} /\ handle \in Pids \cup {0} /\ client \in BOOLEAN
    /\ hr \in {"ok", "error", "cancelled"} /\ cur \in Slots \cup {0}
    /\ acts \in [Slots -> [refs : 0 .. 2, ready : BOOLEAN,
                           answer : {"none", "client", "taken", "empty", "error"},
                           op : {"none", "asked", "answered", "returning"}]]

Users(s) ==
    (IF cur = s THEN 1 ELSE 0) + (IF acts[s].op # "none" THEN 1 ELSE 0)

\* An activation lives exactly as long as the worker or the system may still touch
\* it, however late the answer comes, and what is announced to the worker is whole
\* ("cancellation/timeouts never leave pointers into a dead stream").
ActivationOutlivesUsers ==
    \A s \in Slots :
        /\ acts[s].refs = Users(s)
        /\ acts[s].ready => acts[s].answer # "none"

\* A start or a stop comes back, even if the system never answers.
StopReturns == starter # "idle" ~> starter = "idle"

==============================================================================
