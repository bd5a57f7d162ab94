-------------------------------- MODULE Rate --------------------------------
(***************************************************************************)
(* time/rate.cpp: Sleep ends a cycle of a loop that is to run at a given   *)
(* rate. Times are nanoseconds. The clock is the system's and may be set   *)
(* in either direction between any two calls, so every call reads any      *)
(* time; times stay far from the ends of their 64 bits.                    *)
(***************************************************************************)
EXTENDS Integers

CONSTANT expected_cycle_time_

VARIABLES
  start_,               \* when the cycle began, or was to begin
  actual_cycle_time_,
  actual_end,           \* local variable of Sleep: when it was last called
  slept                 \* how long that call had to wait

vars == <<start_, actual_cycle_time_, actual_end, slept>>

Time == Nat             \* uint64_t
Duration == Int         \* int64_t

Init ==
  /\ start_ \in Time /\ actual_end = start_
  /\ actual_cycle_time_ = 0 /\ slept = 0

Reset(now) ==
  /\ start_' = now /\ actual_end' = now /\ slept' = 0
  /\ UNCHANGED actual_cycle_time_

(* When the cycle was to end; after a jump backwards, a cycle from now.    *)
ExpectedEnd(now) ==
  (IF now < start_ THEN now ELSE start_) + expected_cycle_time_

SleepUntil(time, now) == slept' = IF time < now THEN 0 ELSE time - now

(* A call that comes too late does not wait, and one that is late by more  *)
(* than a whole cycle forgets the cycles that were missed.                 *)
Sleep(now) ==
  LET expected_end == ExpectedEnd(now)
      late == now > expected_end /\ now > expected_end + expected_cycle_time_
  IN /\ actual_end' = now
     /\ actual_cycle_time_' = now - start_
     /\ start_' = IF late THEN now ELSE expected_end
     /\ SleepUntil(expected_end, now)

Next == \E now \in Time : Sleep(now) \/ Reset(now)

Spec == Init /\ [][Next]_vars

-----------------------------------------------------------------------------
(* Properties *)

TypeOK ==
  /\ start_ \in Time /\ actual_end \in Time
  /\ actual_cycle_time_ \in Duration /\ slept \in Duration

(* However the clock was set, Sleep waits a cycle at most, and the cycle   *)
(* that it begins is within one cycle of the call: a loop does not hang    *)
(* after a jump of the clock, nor race to make up for more than a cycle.   *)
WithinACycle ==
  /\ slept \in 0..expected_cycle_time_
  /\ start_ - actual_end \in (-expected_cycle_time_)..expected_cycle_time_

(* Delays do not add up: a call between the beginning of its cycle and the *)
(* end of the next one begins a cycle exactly one period after the last.   *)
OnTime(now) == now \in start_..(start_ + 2 * expected_cycle_time_)
KeepsThePace ==
  [][\A now \in Time : Sleep(now) /\ OnTime(now) =>
       start_' = start_ + expected_cycle_time_]_vars
=============================================================================
