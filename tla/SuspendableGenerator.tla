------------------------ MODULE SuspendableGenerator ------------------------
(***************************************************************************)
(* The wrapper around the configured load profile that lets a client       *)
(* suspend it, resume it or override it with a fixed rate                  *)
(* (dwd-core/src/generator.rs, SuspendableGenerator).                      *)
(*                                                                         *)
(* A generator is a record of the wrapper's three mutable fields.  Time is *)
(* counted in ticks since the profile was activated.  The wrapped profile  *)
(* is a function of its own elapsed time, as the constant, line, sine and  *)
(* sum profiles are.                                                       *)
(***************************************************************************)
EXTENDS Integers

CONSTANTS
  None,       \* Option::None
  Duration,   \* length of the profile, in ticks
  Profile     \* Profile[t] is the rate of the profile at its time t

ASSUME NoneAssumption == None \notin Int
ASSUME DurationAssumption == Duration \in Nat
ASSUME ProfileAssumption == Profile \in [0..Duration -> Nat]

Generators ==
  [suspended_at : Nat \cup {None},
   suspended_duration : Nat,
   value : Nat \cup {None}]

NewGenerator ==
  [suspended_at |-> None, suspended_duration |-> 0, value |-> None]

\* The profile is over strictly after its duration.
ProfileAt(t) == IF t > Duration THEN None ELSE Profile[t]

\* suspend(): a second suspend must not move the instant of the first.
SuspendMovesInstant(g, now) ==
  [g EXCEPT !.value = None, !.suspended_at = now]

Suspend(g, now) ==
  IF g.suspended_at # None
  THEN g
  ELSE [g EXCEPT !.value = None, !.suspended_at = now]

\* resume(): the time spent suspended is taken off the profile's clock.
Resume(g, now) ==
  IF g.suspended_at = None
  THEN g
  ELSE [suspended_at       |-> None,
        suspended_duration |-> g.suspended_duration + (now - g.suspended_at),
        value              |-> None]

\* set(Some(rate)): the only form GeneratorEvent::Set produces.
SetValue(g, rate, now) == [Suspend(g, now) EXCEPT !.value = rate]

\* current_at(): None once the profile is exhausted.
CurrentAtNeverEnds(g, now) ==
  IF g.suspended_at # None
  THEN IF g.value # None THEN g.value ELSE 0
  ELSE IF now - g.suspended_duration > Duration THEN 0
                            ELSE Profile[now - g.suspended_duration]

CurrentAtEndsWhenPaused(g, now) ==
  IF g.suspended_at # None THEN g.value ELSE ProfileAt(now - g.suspended_duration)

CurrentAt(g, now) ==
  IF g.suspended_at # None
  THEN IF g.value # None THEN g.value ELSE 0
  ELSE ProfileAt(now - g.suspended_duration)

(***************************************************************************)
(* What a client sees of a generator: who is in charge of the rate, and    *)
(* how far the profile has been played.                                    *)
(***************************************************************************)
ModeOf(g) ==
  IF g.suspended_at = None THEN [kind |-> "Profile", rps |-> 0]
  ELSE IF g.value = None   THEN [kind |-> "Paused", rps |-> 0]
  ELSE                          [kind |-> "Manual", rps |-> g.value]

ElapsedOf(g, now) ==
  (IF g.suspended_at = None THEN now ELSE g.suspended_at) - g.suspended_duration
==============================================================================
