------------------------------ MODULE Profiles ------------------------------
(***************************************************************************)
(* Load profiles (dwd-core/src/generator.rs): constant, line and sine      *)
(* parts, played one after the other (SeqGenerator) on tracks whose rates  *)
(* are added up (SumGenerator).  A Seq alone is a Sum of one track, a Sum  *)
(* alone has tracks of one part; other nestings repeat these two.          *)
(*                                                                         *)
(* The clock is the one SuspendableGenerator keeps.  A profile only learns *)
(* of it when it is polled, so that every part ends at the first poll      *)
(* after its time, and the next one starts there.                          *)
(***************************************************************************)
EXTENDS Integers, Sequences, Functions, FiniteSetsExt

CONSTANTS
  None,       \* Option::None
  Profs,      \* profiles considered: sequences of tracks, sequences of parts
  SEC,        \* clock units per second (nanoseconds in the code)
  MaxGap      \* bound: clock units between two polls

\* A part: "const" and "line" go from rps0 to rps1, "sin" moves between them.
Parts == [kind : {"const", "line", "sin"}, rps0 : Nat, rps1 : Nat, secs : Nat]

ASSUME NoneAssumption == None \notin Nat
ASSUME ClockAssumption == SEC \in Nat \ {0} /\ MaxGap \in Nat \ {0}
ASSUME ProfsAssumption == Profs \subseteq Seq(Seq(Parts))

VARIABLES
  prof,       \* the profile
  pc,         \* "create", "playing", "over", or why there is none
  now,        \* the profile's clock at the last poll
  idx,        \* idx[i]: part of track i that plays
  t0,         \* t0[i]: when it was activated (for a track that is over: left)
  due,        \* due[i], history: when it should have been
  rate,       \* rate[i]: what track i answered last
  planned     \* what the profile answered last

vars == <<prof, pc, now, idx, t0, due, rate, planned>>

Tracks == DOMAIN prof
Over(i) == idx[i] > Len(prof[i])
Length(part) == part.secs * SEC

\* duration() of a Seq, and of a Sum, of the configuration.
Lengths(i) == [j \in DOMAIN prof[i] |-> Length(prof[i][j])]
SeqDuration(i) == SumFunction(Lengths(i))
SumDuration == Max({0} \cup {SeqDuration(i) : i \in Tracks})

Init ==
  /\ prof \in Profs
  /\ pc = "create"
  /\ now = 0
  /\ idx = [i \in Tracks |-> 1]
  /\ t0 = [i \in Tracks |-> 0]
  /\ due = [i \in Tracks |-> 0]
  /\ rate = [i \in Tracks |-> None]
  /\ planned = None

\* Division of integers as in Rust, towards zero, and its panic.
Quot(a, b) == IF a >= 0 THEN a \div b ELSE -((-a) \div b)

\* The slope of a line divides by its length; the search for the phase of a
\* sine may find none.
Panics(part) == part.kind # "sin" /\ part.secs = 0
MayFail(part) == part.kind = "sin"

\* Config::create() makes the parts of a track, and the tracks, in order: the
\* first panic or error ends it, and what comes after is not tried.
Reached(i, j) ==
  \A k \in 1..i : \A l \in DOMAIN prof[k] : (k < i \/ l < j) => ~Panics(prof[k][l])

\* Config::create() and activate_at().
Create ==
  /\ pc = "create"
  /\ \/ /\ \A i \in Tracks : \A j \in DOMAIN prof[i] : ~Panics(prof[i][j])
        /\ pc' = "playing"
     \/ /\ \E i \in Tracks : \E j \in DOMAIN prof[i] : Panics(prof[i][j])
        /\ pc' = "panic"
     \/ /\ \E i \in Tracks : \E j \in DOMAIN prof[i] : Reached(i, j) /\ MayFail(prof[i][j])
        /\ pc' = "failed"
  /\ UNCHANGED <<prof, now, idx, t0, due, rate, planned>>

\* LineGenerator: the slope is a whole number of requests per second squared.
SlopeRoundedUp(part) == Quot(part.rps1 - part.rps0, part.secs) + 1
Slope(part) == Quot((part.rps1 - part.rps0) * SEC, Length(part))

LineAt(part, elapsed) == Quot(Slope(part) * elapsed, SEC) + part.rps0

\* Rates a part may answer with.  A sine is truncated to an integer, and may
\* come out one below its minimum.
At(part, elapsed) ==
  IF part.kind = "sin"
  THEN (IF part.rps0 > 0 THEN part.rps0 - 1 ELSE 0)..part.rps1
  ELSE {LineAt(part, elapsed)}

\* SeqGenerator: a part is over when more than its time has passed; the next
\* one is activated at the time of the poll.
NextPart(i, time) ==
  IF ~Over(i) /\ time - t0[i] > Length(prof[i][idx[i]]) THEN idx[i] + 1 ELSE idx[i]

ActivatedKept(i, time) == t0[i]
Activated(i, time) == IF NextPart(i, time) # idx[i] THEN time ELSE t0[i]

Answer(i, time) ==
  IF NextPart(i, time) > Len(prof[i]) THEN {None}
  ELSE At(prof[i][NextPart(i, time)], time - Activated(i, time))

\* SumGenerator: None counts for nothing, and is the answer when all are None.
TotalUntilFirstEnd(answers) ==
  IF \E i \in Tracks : answers[i] = None THEN None
  ELSE SumFunction(answers)

Total(answers) ==
  IF \A i \in Tracks : answers[i] = None THEN None
  ELSE SumFunctionOnSet(answers, {i \in Tracks : answers[i] # None})

\* current_at(): the rate-control loop polls until the profile is over.
CurrentAt(gap) ==
  /\ pc = "playing"
  /\ now' = now + gap
  /\ idx' = [i \in Tracks |-> NextPart(i, now')]
  /\ t0' = [i \in Tracks |-> Activated(i, now')]
  /\ due' = [i \in Tracks |->
               IF idx'[i] # idx[i] THEN due[i] + Length(prof[i][idx[i]]) ELSE due[i]]
  /\ rate' \in {r \in [Tracks -> UNION {Answer(i, now') : i \in Tracks}] :
                  \A i \in Tracks : r[i] \in Answer(i, now')}
  /\ planned' = Total(rate')
  /\ pc' = IF planned' = None THEN "over" ELSE "playing"
  /\ UNCHANGED prof

Next == Create \/ \E gap \in 0..MaxGap : CurrentAt(gap)

Spec == Init /\ [][Next]_vars

------------------------------------------------------------------------------
Abs(a) == IF a < 0 THEN -a ELSE a

TypeOK ==
  /\ prof \in Profs
  /\ pc \in {"create", "playing", "over", "panic", "failed"}
  /\ now \in Nat
  /\ idx \in [Tracks -> Nat \ {0}]
  /\ t0 \in [Tracks -> 0..now]
  /\ due \in [Tracks -> Nat]
  /\ \A i \in Tracks : idx[i] <= Len(prof[i]) + 1

\* Parts start in order and never early, and late by at most one interval of
\* polling for each part that went before: lateness adds up and is never made
\* up for (SeqGenerator::current_at).
Schedule ==
  \A i \in Tracks :
    /\ idx[i] - 1 <= t0[i] - due[i]
    /\ t0[i] - due[i] <= (idx[i] - 1) * MaxGap
    /\ ~Over(i) => now - t0[i] <= Length(prof[i][idx[i]])

\* The rate of a line stays between its ends and within one request per second
\* of the exact line for each second that has passed, and one more: the loss
\* of two divisions.  The product on the way stays within the difference of
\* the ends, so that a 64-bit integer holds it for differences up to 10^9
\* (LineGenerator::new, current_at).
LineFaithful ==
  pc = "playing" /\ planned # None => \A i \in Tracks :
    ~Over(i) /\ prof[i][idx[i]].kind # "sin" =>
      LET part    == prof[i][idx[i]]
          elapsed == now - t0[i]
          diff    == part.rps1 - part.rps0 IN
        /\ \/ part.rps0 <= rate[i] /\ rate[i] <= part.rps1
           \/ part.rps1 <= rate[i] /\ rate[i] <= part.rps0
        /\ Abs((rate[i] - part.rps0) * Length(part) - diff * elapsed) < (elapsed + SEC) * part.secs
        /\ Abs(Slope(part) * elapsed) <= Abs(diff) * SEC

\* The profile is over when the last track is, not when the first one is: it
\* answers as long as some track plays, and then no track is cut short and the
\* duration the configuration announces has been played in full, and more,
\* unless there was nothing to play (current_at and duration of Seq and Sum).
EndsWithLongest ==
  /\ planned # None => \E i \in Tracks : ~Over(i)
  /\ pc = "over" => \A i \in Tracks : Over(i)
  /\ pc = "over" /\ (\E i \in Tracks : prof[i] # <<>>) => now > SumDuration
==============================================================================
