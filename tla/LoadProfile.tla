----------------------------- MODULE LoadProfile -----------------------------
(***************************************************************************)
(* What the rate control promises, without the channel, the polling loop,  *)
(* the wall clock or the per-worker limits: a load profile that is played  *)
(* on a clock of its own.  The clock runs only while the profile is in     *)
(* charge; a pause or a manual rate freezes it, and returning to the       *)
(* profile continues exactly where it was left.                            *)
(***************************************************************************)
EXTENDS Naturals

CONSTANTS
  Duration,   \* length of the profile, in clock ticks
  Profile,    \* Profile[t] is the rate the profile asks for at its time t
  Rates       \* rates a client may set by hand

VARIABLES
  mode,       \* who decides the rate: the profile, a pause, or a client
  elapsed,    \* the profile's own clock
  planned,    \* rate decided last
  target,     \* rate announced last
  running     \* the run has not been told to end

avars == <<mode, elapsed, planned, target, running>>

ByProfile == [kind |-> "Profile", rps |-> 0]
Paused    == [kind |-> "Paused", rps |-> 0]
Manual(r) == [kind |-> "Manual", rps |-> r]

\* The rate a mode asks for; a profile that is over asks for nothing.
Demands(r) ==
  \/ mode = Paused /\ r = 0
  \/ mode.kind = "Manual" /\ r = mode.rps
  \/ mode = ByProfile /\ elapsed <= Duration /\ r = Profile[elapsed]

Init ==
  /\ mode = ByProfile
  /\ elapsed = 0
  /\ planned = 0
  /\ target = 0
  /\ running = TRUE

\* Time passes for the profile only while it is in charge.
Tick ==
  /\ mode = ByProfile
  /\ elapsed' = elapsed + 1
  /\ UNCHANGED <<mode, planned, target, running>>

\* A command changes who is in charge, and nothing else.  A pause does not
\* take the rate back from a client that has set one.
Command ==
  /\ running
  /\ \/ mode = ByProfile /\ mode' = Paused
     \/ mode' = ByProfile
     \/ \E r \in Rates : mode' = Manual(r)
  /\ UNCHANGED <<elapsed, planned, target, running>>

\* The rate decided is the one the mode in charge asks for at this moment.
Plan ==
  /\ Demands(planned')
  /\ UNCHANGED <<mode, elapsed, target, running>>

\* The rate announced is the one decided last.
Announce ==
  /\ target' = planned
  /\ UNCHANGED <<mode, elapsed, planned, running>>

End ==
  /\ running' = FALSE
  /\ UNCHANGED <<mode, elapsed, planned, target>>

Next == Tick \/ Command \/ Plan \/ Announce \/ End

Spec == Init /\ [][Next]_avars
==============================================================================
