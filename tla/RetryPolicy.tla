---------------------------- MODULE RetryPolicy ----------------------------
(* When the supervisor restarts a stream, and how long it waits before the *)
(* next attempt (RetryPolicy.h).  Time is counted in supervisor polls of   *)
(* kSupervisorPollMs, the first delay of the back-off.                     *)
EXTENDS Naturals

CONSTANTS
  MaxShift,         \* the delay doubles at most so many times ...
  MaxWait           \* ... and never exceeds this many polls

ASSUME PolicyAssumption == MaxShift \in Nat /\ MaxWait \in Nat

StreamState == {"Stopped", "Opening", "Running", "Failed"}

ShouldRestart(st, wantsRetry, woken) ==
  st = "Failed" /\ (wantsRetry \/ woken)

RetryBackoff(n) ==
  LET shift == IF n - 1 < MaxShift THEN n - 1 ELSE MaxShift
  IN IF n = 0 THEN 0
     ELSE IF 2 ^ shift < MaxWait THEN 2 ^ shift ELSE MaxWait

(* Beyond MaxShift + 1 failures the count changes nothing: it stays there. *)
OneMore(n) == IF n > MaxShift THEN n ELSE n + 1

(* One poll later.                                                         *)
Later(polls) == IF polls = 0 THEN 0 ELSE polls - 1
=============================================================================
