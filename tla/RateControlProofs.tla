-------------------------- MODULE RateControlProofs --------------------------
(***************************************************************************)
(* Proofs about the rate-control loop and, at the end, about the user      *)
(* interface steering it, for every number of workers, every profile and   *)
(* every bound.                                                            *)
(***************************************************************************)
EXTENDS TuiControl, Arithmetic, TLAPS

(***************************************************************************)
(* The clock of the profile.                                               *)
(***************************************************************************)

\* A pause began in the past, and the pauses before it fit in the time before
\* it: the subtractions of suspend and resume never go below zero.
ClockInv ==
  /\ g.suspended_at = None => g.suspended_duration <= now
  /\ g.suspended_at # None => /\ g.suspended_duration <= g.suspended_at
                              /\ g.suspended_at <= now

\* A command of any kind leaves a well-formed generator whose clock is sound,
\* and moves the profile's clock not at all.
LEMMA ApplyEventEffect ==
  ASSUME now \in Nat, g \in Generators, ClockInv, NEW ev \in Events
  PROVE  LET h == ApplyEvent(ev) IN
         /\ h \in Generators
         /\ h.suspended_at = None => h.suspended_duration <= now
         /\ h.suspended_at # None => /\ h.suspended_duration <= h.suspended_at
                                     /\ h.suspended_at <= now
         /\ ElapsedOf(h, now) = ElapsedOf(g, now)
<1> USE NoneAssumption DEF Generators, ClockInv, ElapsedOf
<1> DEFINE Sound(h) ==
      /\ h \in Generators
      /\ h.suspended_at = None => h.suspended_duration <= now
      /\ h.suspended_at # None => /\ h.suspended_duration <= h.suspended_at
                                  /\ h.suspended_at <= now
      /\ ElapsedOf(h, now) = ElapsedOf(g, now)
<1>0. Sound(Suspend(g, now)) /\ Suspend(g, now).suspended_at # None
  <2>1. CASE g.suspended_at # None
    BY <2>1 DEF Suspend
  <2>2. CASE g.suspended_at = None
    <3> DEFINE h == [suspended_at |-> now,
                     suspended_duration |-> g.suspended_duration,
                     value |-> None]
    <3>1. Suspend(g, now) = h
      BY <2>2 DEF Suspend
    <3>2. Sound(h) /\ h.suspended_at # None
      BY <2>2
    <3> QED BY <3>1, <3>2
  <2> QED BY <2>1, <2>2
<1>1. CASE ev = SuspendEvent
  <2>1. ApplyEvent(ev) = Suspend(g, now)
    BY <1>1 DEF ApplyEvent, SuspendEvent
  <2> QED BY <1>0, <2>1
<1>2. CASE ev = ResumeEvent
  <2>1. ApplyEvent(ev) = Resume(g, now)
    BY <1>2 DEF ApplyEvent, ResumeEvent
  <2>2. Sound(Resume(g, now))
    BY DEF Resume
  <2> QED BY <2>1, <2>2
<1>3. ASSUME NEW r \in Rates, ev = SetEvent(r)
      PROVE  Sound(ApplyEvent(ev))
  <2>1. ApplyEvent(ev) = SetValue(g, r, now)
    BY <1>3 DEF ApplyEvent, SetEvent
  <2> DEFINE s == Suspend(g, now)
  <2>2. Sound(s) /\ s.suspended_at # None
    BY <1>0
  <2> HIDE DEF s
  <2>3. Sound([s EXCEPT !.value = r])
    BY <2>2, RatesAssumption
  <2> QED BY <2>1, <2>3 DEF SetValue, s
<1> QED BY <1>1, <1>2, <1>3 DEF Events

\* A poll returns a rate or the end of the profile.
LEMMA CurrentAtType ==
  ASSUME now \in Nat, g \in Generators, ClockInv
  PROVE  CurrentAt(g, now) \in Nat \cup {None}
BY NoneAssumption, DurationAssumption, ProfileAssumption
DEF CurrentAt, ProfileAt, Generators, ClockInv

\* The rate a worker gets is a natural number.
LEMMA ShareType ==
  ASSUME NEW rate \in Nat, NEW i \in Workers
  PROVE  Share(rate, i) \in Nat
BY NAssumption DEF Share, Workers

(***************************************************************************)
(* Type correctness, with the soundness of the clock it needs: the length  *)
(* of a pause is a natural number only because a pause begins in the past. *)
(***************************************************************************)

\* run_generator enters its loop well typed and never suspended.
LEMMA InitTypeClock == Init => TypeOK /\ ClockInv
<1> SUFFICES ASSUME Init PROVE TypeOK /\ ClockInv
  OBVIOUS
<1>1. g \in Generators /\ ClockInv
  BY NoneAssumption DEF Init, ClockInv, NewGenerator, Generators
<1>2. limits \in [Workers -> Nat]
  BY DEF Init
<1>3. idx \in 0..N /\ now \in Nat /\ v \in Nat /\ generator \in Nat
      /\ requests \in Nat
  BY NAssumption DEF Init
<1>4. chan \in {<<>>} \cup {<<ev>> : ev \in Events}
  BY DEF Init
<1>5. requested \in Events \cup {None} /\ applied \in Events \cup {None}
  BY DEF Init
<1> QED BY <1>1, <1>2, <1>3, <1>4, <1>5 DEF Init, TypeOK

\* No step of the loop, a handler or the clock breaks the types or puts the
\* start of a pause into the future.
LEMMA StepTypeClock == TypeOK /\ ClockInv /\ [Next]_vars => TypeOK' /\ ClockInv'
<1> SUFFICES ASSUME TypeOK, ClockInv, [Next]_vars
             PROVE  TypeOK' /\ ClockInv'
  OBVIOUS
<1> USE DEF TypeOK, ClockInv, loopVars, ctlVars
<1>1. CASE Activate
  BY <1>1 DEF Activate
<1>2. CASE Current
  BY <1>2, CurrentAtType DEF Current
<1>3. CASE Receive
  <2>1. CASE ~is_running \/ chan = <<>>
    BY <1>3, <2>1, NAssumption DEF Receive, StartPass
  <2>2. CASE is_running /\ chan # <<>>
    <3>1. PICK ev \in Events : chan = <<ev>>
      BY <2>2
    <3>2. Head(chan) = ev /\ Tail(chan) = <<>>
      BY <3>1
    <3>3. g' = ApplyEvent(ev) /\ applied' = ev /\ chan' = <<>> /\ pc' = "store"
          /\ idx' = 0
      BY <1>3, <2>2, <3>2 DEF Receive, StartPass
    <3>4. g' \in Generators /\ ClockInv'
      BY <1>3, <3>3, ApplyEventEffect DEF Receive
    <3> QED BY <1>3, <3>3, <3>4, NAssumption DEF Receive
  <2> QED BY <2>1, <2>2
<1>4. CASE StoreLimit
  <2>1. idx \in Workers /\ idx + 1 \in 0..N
    BY <1>4, NAssumption DEF StoreLimit, Workers
  <2>2. Share(v, idx) \in Nat
    BY <2>1, ShareType
  <2> QED BY <1>4, <2>1, <2>2 DEF StoreLimit
<1>5. CASE Publish
  BY <1>5 DEF Publish
<1>6. CASE Wake
  BY <1>6 DEF Wake
<1>7. CASE Exit
  BY <1>7 DEF Exit
<1>8. ASSUME NEW ev \in Events, Control(ev)
      PROVE  TypeOK' /\ ClockInv'
  BY <1>8 DEF Control, TrySend
<1>9. CASE ControlStop \/ Signal \/ UiExit
  BY <1>9 DEF ControlStop, Signal, UiExit, Halt
<1>10. CASE Tick
  BY <1>10, NoneAssumption DEF Tick, Generators
<1>11. CASE UNCHANGED vars
  BY <1>11 DEF vars
<1> QED
  BY <1>1, <1>2, <1>3, <1>4, <1>5, <1>6, <1>7, <1>8, <1>9, <1>10, <1>11
  DEF Next, Loop

\* Every reachable state is well typed and every pause is in the past.
THEOREM TypeCorrect == Spec => [](TypeOK /\ ClockInv)
BY InitTypeClock, StepTypeClock, PTL DEF Spec

(***************************************************************************)
(* What the workers read.                                                  *)
(***************************************************************************)

\* At any moment of a pass a worker's limit is its share of the rate announced
\* last or of the rate being distributed: the stores of run_generator expose
\* no third value to a concurrently ticking shaper.
THEOREM TornPass == Spec => []TornPassBounded
<1>1. Init => TornPassBounded
  <2> SUFFICES ASSUME Init, NEW i \in Workers
               PROVE  limits[i] = Share(generator, i)
    BY DEF Init, TornPassBounded
  <2> QED BY NAssumption DEF Init, Share, Workers
<1>2. TypeOK /\ TornPassBounded /\ [Next]_vars => TornPassBounded'
  <2> SUFFICES ASSUME TypeOK, TornPassBounded, [Next]_vars
               PROVE  TornPassBounded'
    OBVIOUS
  <2> USE DEF TornPassBounded, loopVars, ctlVars
  <2>1. CASE Activate
    BY <2>1 DEF Activate
  <2>2. CASE Current
    BY <2>2 DEF Current
  <2>3. CASE Receive
    BY <2>3 DEF Receive, StartPass, Workers
  <2>4. CASE StoreLimit
    <3> SUFFICES ASSUME NEW i \in Workers
                 PROVE  limits'[i] = Share(IF i < idx' THEN v ELSE generator, i)
      BY <2>4 DEF StoreLimit, Share
    <3>1. CASE i = idx
      BY <2>4, <3>1 DEF StoreLimit, TypeOK, Workers
    <3>2. CASE i # idx
      <4>1. limits'[i] = limits[i]
        BY <2>4, <3>2 DEF StoreLimit, TypeOK
      <4>2. i < idx' <=> i < idx
        BY <2>4, <3>2 DEF StoreLimit, TypeOK, Workers
      <4> QED BY <2>4, <4>1, <4>2 DEF StoreLimit
    <3> QED BY <3>1, <3>2
  <2>5. CASE Publish
    <3> SUFFICES ASSUME NEW i \in Workers
                 PROVE  limits'[i] = Share(generator', i)
      BY <2>5 DEF Publish
    <3>1. i < idx
      BY <2>5, NAssumption DEF Publish, Workers
    <3> QED BY <2>5, <3>1 DEF Publish
  <2>6. CASE Wake \/ Exit
    BY <2>6 DEF Wake, Exit
  <2>7. ASSUME NEW ev \in Events, Control(ev)
        PROVE  TornPassBounded'
    BY <2>7 DEF Control
  <2>8. CASE ControlStop \/ Signal \/ UiExit
    BY <2>8 DEF ControlStop, Signal, UiExit, Halt
  <2>9. CASE Tick \/ UNCHANGED vars
    BY <2>9 DEF Tick, vars
  <2> QED
    BY <2>1, <2>2, <2>3, <2>4, <2>5, <2>6, <2>7, <2>8, <2>9 DEF Next, Loop
<1> QED BY <1>1, <1>2, TypeCorrect, PTL DEF Spec

(***************************************************************************)
(* Nothing of the rate is lost or invented in the division.                *)
(***************************************************************************)

\* What the first k workers of a pass are given between them.
GivenTo(k, rate) ==
  k * (rate \div N) + (IF k < rate % N THEN k ELSE rate % N)

\* Quotient and remainder of the rate by the number of workers.
LEMMA DivMod ==
  ASSUME NEW rate \in Nat
  PROVE  /\ rate \div N \in Nat
         /\ rate % N \in 0..(N - 1)
         /\ rate = N * (rate \div N) + (rate % N)
BY NAssumption

\* One more worker adds exactly its share.
LEMMA GivenToNext ==
  ASSUME NEW rate \in Nat, NEW k \in Workers
  PROVE  GivenTo(k + 1, rate) = GivenTo(k, rate) + Share(rate, k)
<1> DEFINE q == rate \div N
           m == rate % N
<1>1. q \in Nat /\ m \in Nat /\ k \in Nat
  BY DivMod, NAssumption DEF Workers
<1> HIDE DEF q, m
<1>2. (k + 1) * q = k * q + q
  BY <1>1
<1>3. k * q \in Nat
  BY <1>1
<1>4. (k + 1) * q + (IF k + 1 < m THEN k + 1 ELSE m)
        = k * q + (IF k < m THEN k ELSE m) + (q + (IF k < m THEN 1 ELSE 0))
  BY <1>1, <1>2, <1>3
<1> QED BY <1>4 DEF GivenTo, Share, q, m

\* The whole team is given the whole rate.
LEMMA GivenToAll ==
  ASSUME NEW rate \in Nat
  PROVE  GivenTo(N, rate) = rate
BY DivMod, NAssumption DEF GivenTo

\* Outside a pass the limits the workers see add up to the rate announced, for
\* every number of workers: what TornPass says of each share, summed up.
THEOREM SharesAddUp == Spec => []Conservation
<1>1. TypeOK /\ TornPassBounded => Conservation
  <2> SUFFICES ASSUME TypeOK, TornPassBounded, pc # "store"
               PROVE  SumFunctionOnSet(limits, DOMAIN limits) = generator
    BY DEF Conservation, SumFunction
  <2> DEFINE p == [k \in 0..N |-> GivenTo(k, generator)]
  <2>1. DOMAIN limits = 0..(N - 1) /\ N \in Nat /\ generator \in Nat
    BY NAssumption DEF TypeOK, Workers
  <2>2. \A k \in 0..(N - 1) : limits[k] = Share(generator, k) /\ limits[k] \in Nat
    BY DEF TornPassBounded, TypeOK, Workers
  <2>3. p[0] = 0
    BY <2>1, DivMod DEF GivenTo
  <2>4. \A k \in 0..(N - 1) : p[k + 1] = p[k] + limits[k]
    BY <2>1, <2>2, GivenToNext DEF Workers
  <2>5. p[N] = generator
    BY <2>1, GivenToAll
  <2>6. Ints(limits, 0..(N - 1))
    BY <2>2 DEF Ints
  <2> HIDE DEF p
  <2> QED BY <2>1, <2>3, <2>4, <2>5, <2>6, SumPartial
<1> QED BY <1>1, TypeCorrect, TornPass, PTL

(***************************************************************************)
(* Why a run ends.                                                         *)
(***************************************************************************)

\* The run flag is cleared by a stop request or by the loop's own end.
StopInv == ~is_running => stopAsked \/ pc = "done"

\* run_generator leaves its loop only on request or at the end of the profile,
\* on the profile's own clock.
THEOREM NoEarlyEnd == Spec => []NoEarlyExit
<1>1. Init => NoEarlyExit /\ StopInv
  BY DEF Init, NoEarlyExit, StopInv
<1>2. TypeOK /\ ClockInv /\ NoEarlyExit /\ StopInv /\ [Next]_vars
        => NoEarlyExit' /\ StopInv'
  <2> SUFFICES ASSUME TypeOK, ClockInv, NoEarlyExit, StopInv, [Next]_vars
               PROVE  NoEarlyExit' /\ StopInv'
    OBVIOUS
  <2> USE DEF NoEarlyExit, StopInv, loopVars, ctlVars
  <2>1. CASE Activate
    BY <2>1 DEF Activate
  <2>2. CASE Current
    <3>1. CurrentAt(g, now) = None =>
            g.suspended_at = None /\ now - g.suspended_duration > Duration
      BY NoneAssumption, DurationAssumption, ProfileAssumption
      DEF CurrentAt, ProfileAt, TypeOK, ClockInv, Generators
    <3> QED BY <2>2, <3>1 DEF Current
  <2>3. CASE Receive
    BY <2>3 DEF Receive, StartPass
  <2>4. CASE StoreLimit \/ Publish \/ Wake
    BY <2>4 DEF StoreLimit, Publish, Wake
  <2>5. CASE Exit
    BY <2>5 DEF Exit
  <2>6. ASSUME NEW ev \in Events, Control(ev)
        PROVE  NoEarlyExit' /\ StopInv'
    BY <2>6 DEF Control, Awaiting
  <2>7. CASE ControlStop \/ Signal \/ UiExit
    BY <2>7 DEF ControlStop, Signal, UiExit, Halt
  <2>8. CASE Tick
    BY <2>8, DurationAssumption DEF Tick, TypeOK, Generators
  <2>9. CASE UNCHANGED vars
    BY <2>9 DEF vars
  <2> QED
    BY <2>1, <2>2, <2>3, <2>4, <2>5, <2>6, <2>7, <2>8, <2>9 DEF Next, Loop
<1> QED BY <1>1, <1>2, TypeCorrect, PTL DEF Spec

(***************************************************************************)
(* The loop implements the profile with its own clock.                     *)
(***************************************************************************)

\* A rate set by hand is in charge, whatever the mode was.
LEMMA SetEventMode ==
  ASSUME now \in Nat, g \in Generators, NEW r \in Rates
  PROVE  ModeOf(ApplyEvent(SetEvent(r))) = Load!Manual(r)
<1> USE NoneAssumption DEF Generators, ModeOf, Load!Manual
<1>1. ApplyEvent(SetEvent(r)) = SetValue(g, r, now)
  BY DEF ApplyEvent, SetEvent
<1> DEFINE s == Suspend(g, now)
<1>2. s = [suspended_at |-> s.suspended_at,
           suspended_duration |-> s.suspended_duration,
           value |-> s.value]
  <2>1. CASE g.suspended_at # None
    BY <2>1 DEF Suspend
  <2>2. CASE g.suspended_at = None
    BY <2>2 DEF Suspend
  <2> QED BY <2>1, <2>2
<1>3. s.suspended_at # None
  <2>1. CASE g.suspended_at # None
    BY <2>1 DEF Suspend
  <2>2. CASE g.suspended_at = None
    <3>1. Suspend(g, now).suspended_at = now
      BY <2>2 DEF Suspend
    <3> QED BY <3>1
  <2> QED BY <2>1, <2>2
<1> HIDE DEF s
<1>4. [s EXCEPT !.value = r].value = r /\ [s EXCEPT !.value = r].suspended_at # None
  BY <1>2, <1>3
<1>5. r # None
  BY RatesAssumption
<1> QED BY <1>1, <1>4, <1>5 DEF SetValue, s

\* A command is a Command of the abstract profile, or changes no mode at all.
LEMMA ApplyEventMode ==
  ASSUME now \in Nat, g \in Generators, NEW ev \in Events
  PROVE  \/ ModeOf(ApplyEvent(ev)) = ModeOf(g)
         \/ ModeOf(g) = Load!ByProfile /\ ModeOf(ApplyEvent(ev)) = Load!Paused
         \/ ModeOf(ApplyEvent(ev)) = Load!ByProfile
         \/ \E r \in Rates : ModeOf(ApplyEvent(ev)) = Load!Manual(r)
<1> USE NoneAssumption
    DEF Generators, ModeOf, Load!ByProfile, Load!Paused, Load!Manual
<1>1. CASE ev = SuspendEvent
  <2>1. ApplyEvent(ev) = Suspend(g, now)
    BY <1>1 DEF ApplyEvent, SuspendEvent
  <2>2. CASE g.suspended_at # None
    BY <2>1, <2>2 DEF Suspend
  <2>3. CASE g.suspended_at = None
    <3>1. Suspend(g, now).value = None
      BY <2>3 DEF Suspend
    <3> QED BY <2>1, <2>3, <3>1
  <2> QED BY <2>2, <2>3
<1>2. CASE ev = ResumeEvent
  <2>1. ApplyEvent(ev) = Resume(g, now)
    BY <1>2 DEF ApplyEvent, ResumeEvent
  <2>2. Resume(g, now).suspended_at = None
    BY DEF Resume
  <2> QED BY <2>1, <2>2
<1>3. ASSUME NEW r \in Rates, ev = SetEvent(r)
      PROVE  ModeOf(ApplyEvent(ev)) = Load!Manual(r)
  BY <1>3, SetEventMode
<1> QED BY <1>1, <1>2, <1>3 DEF Events

\* Every step of the loop, the handlers and the clock is a step of the
\* abstract profile or changes nothing that it shows.
LEMMA StepSimulation ==
  TypeOK /\ ClockInv /\ [Next]_vars => [Load!Next]_Load!avars
<1> SUFFICES ASSUME TypeOK, ClockInv, [Next]_vars
             PROVE  [Load!Next]_Load!avars
  OBVIOUS
<1> USE DEF Load!avars, loopVars, ctlVars
<1>1. CASE Activate \/ StoreLimit \/ Wake
  BY <1>1 DEF Activate, StoreLimit, Wake
<1>2. CASE Current
  <2> DEFINE polled == CurrentAt(g, now)
  <2>1. CASE polled = None
    BY <1>2, <2>1 DEF Current
  <2>2. CASE polled # None
    <3>1. v' = polled /\ UNCHANGED <<now, g, generator, is_running>>
      BY <1>2, <2>2 DEF Current
    <3>2. Load!Demands(polled)
      BY <2>2, NoneAssumption, DurationAssumption
      DEF Load!Demands, Load!Paused, Load!ByProfile, ModeOf, ElapsedOf,
          CurrentAt, ProfileAt, TypeOK, ClockInv, Generators
    <3>3. Load!Plan
      BY <3>1, <3>2 DEF Load!Plan
    <3> QED BY <3>3 DEF Load!Next
  <2> QED BY <2>1, <2>2
<1>3. CASE Receive
  <2>1. CASE ~is_running \/ chan = <<>>
    BY <1>3, <2>1 DEF Receive
  <2>2. CASE is_running /\ chan # <<>>
    <3>1. PICK ev \in Events : chan = <<ev>>
      BY <2>2 DEF TypeOK
    <3>2. Head(chan) = ev
      BY <3>1
    <3>3. g' = ApplyEvent(ev) /\ UNCHANGED <<now, v, generator, is_running>>
      BY <1>3, <2>2, <3>2 DEF Receive
    <3>4. ElapsedOf(g, now)' = ElapsedOf(g, now)
      <4>1. ElapsedOf(ApplyEvent(ev), now) = ElapsedOf(g, now)
        BY ApplyEventEffect DEF TypeOK
      <4>2. ElapsedOf(g, now)' = ElapsedOf(ApplyEvent(ev), now)
        BY <3>3 DEF ElapsedOf
      <4> QED BY <4>1, <4>2
    <3>5. ModeOf(g)' = ModeOf(ApplyEvent(ev))
      BY <3>3 DEF ModeOf
    <3>6. ModeOf(g)' = ModeOf(g) \/ Load!Command
      BY <2>2, <3>3, <3>4, <3>5, ApplyEventMode DEF TypeOK, Load!Command
    <3> QED BY <3>3, <3>4, <3>6 DEF Load!Next
  <2> QED BY <2>1, <2>2
<1>4. CASE Publish
  BY <1>4 DEF Publish, Load!Announce, Load!Next
<1>5. CASE Exit
  BY <1>5 DEF Exit, Load!End, Load!Next
<1>6. ASSUME NEW ev \in Events, Control(ev)
      PROVE  UNCHANGED Load!avars
  BY <1>6 DEF Control
<1>7. CASE ControlStop \/ Signal \/ UiExit
  BY <1>7 DEF ControlStop, Signal, UiExit, Halt, Load!End, Load!Next
<1>8. CASE Tick
  <2>1. ModeOf(g)' = ModeOf(g)
    BY <1>8 DEF Tick, ModeOf
  <2>2. CASE g.suspended_at = None
    <3>1. ElapsedOf(g, now)' = ElapsedOf(g, now) + 1
      BY <1>8, <2>2 DEF Tick, ElapsedOf, TypeOK, Generators
    <3>2. ModeOf(g) = Load!ByProfile
      BY <2>2 DEF ModeOf, Load!ByProfile
    <3> QED BY <1>8, <2>1, <3>1, <3>2 DEF Tick, Load!Tick, Load!Next
  <2>3. CASE g.suspended_at # None
    <3>1. ElapsedOf(g, now)' = ElapsedOf(g, now)
      BY <1>8, <2>3 DEF Tick, ElapsedOf
    <3> QED BY <1>8, <2>1, <3>1 DEF Tick
  <2> QED BY <2>2, <2>3
<1>9. CASE UNCHANGED vars
  BY <1>9 DEF vars
<1> QED
  BY <1>1, <1>2, <1>3, <1>4, <1>5, <1>6, <1>7, <1>8, <1>9 DEF Next, Loop

\* run_generator implements the abstract load profile: pauses and manual rates
\* freeze the profile's clock to the tick, and the rate announced is the one
\* the mode in charge asked for when it was polled.
THEOREM Refinement == Spec => ImplementsLoadProfile
<1>1. Init => Load!Init
  BY NoneAssumption
  DEF Init, Load!Init, NewGenerator, ModeOf, ElapsedOf, Load!ByProfile
<1> QED
  BY <1>1, StepSimulation, TypeCorrect, PTL DEF Spec, Load!Spec, ImplementsLoadProfile


(***************************************************************************)
(* The user interface.  The keys, the forwarder and the loop together are  *)
(* one more client of the loop: every step of the composition is a step of *)
(* RateControl, so what is proved of the loop holds under the interface    *)
(* too.                                                                    *)
(***************************************************************************)

\* A channel of capacity one holds nothing or one command.
LEMMA OneEvent ==
  ASSUME NEW c \in {<<>>} \cup {<<ev>> : ev \in Events}, c # <<>>
  PROVE  /\ Head(c) \in Events
         /\ c = <<Head(c)>>
         /\ Tail(c) = <<>>
<1>1. PICK ev \in Events : c = <<ev>>
  OBVIOUS
<1>2. Head(c) = ev /\ Tail(c) = <<>>
  BY <1>1
<1> QED BY <1>1, <1>2

\* A key press, a forwarded intent and a delivered call do to the loop what one
\* of its own clients does, or nothing.
LEMMA InterfaceIsClient == TTypeOK /\ [TNext]_tvars => [Next]_vars
<1> SUFFICES ASSUME TTypeOK, [TNext]_tvars
             PROVE  [Next]_vars
  OBVIOUS
<1>1. CASE (Loop \/ Tick) /\ UNCHANGED uiVars
  BY <1>1 DEF Next
<1>2. ASSUME NEW ev, NEW mode, Send(ev, mode)
      PROVE  UNCHANGED vars
  BY <1>2 DEF Send
<1>3. CASE KeySuspend
  BY <1>2, <1>3 DEF KeySuspend
<1>4. ASSUME NEW r \in Rates, KeyEnter(r)
      PROVE  UNCHANGED vars
  BY <1>2, <1>4 DEF KeyEnter
<1>5. CASE KeyQuit
  BY <1>5 DEF KeyQuit, Next
<1>6. CASE Forward
  BY <1>6 DEF Forward
<1>7. CASE Deliver
  <2>1. Head(fwd) \in Events
    BY <1>7, OneEvent DEF Deliver, TTypeOK
  <2> QED BY <1>7, <2>1 DEF Deliver, Next
<1>8. CASE UNCHANGED tvars
  BY <1>8 DEF tvars
<1> QED BY <1>1, <1>3, <1>4, <1>5, <1>6, <1>7, <1>8 DEF TNext

\* Both channels and the call in flight hold at most one command, and it is one
\* that a key can send.
LEMMA StepInterfaceType ==
  TTypeOK /\ ClockInv /\ [TNext]_tvars => TTypeOK' /\ ClockInv'
<1> SUFFICES ASSUME TTypeOK, ClockInv, [TNext]_tvars
             PROVE  TTypeOK' /\ ClockInv'
  OBVIOUS
<1>0. TypeOK' /\ ClockInv'
  BY InterfaceIsClient, StepTypeClock DEF TTypeOK
<1> SUFFICES /\ display' \in Displays
             /\ uiChan' \in {<<>>} \cup {<<ev>> : ev \in Events}
             /\ fwd' \in {<<>>} \cup {<<ev>> : ev \in Events}
             /\ uiUp' \in BOOLEAN
             /\ presses' \in Nat
             /\ dropped' \in BOOLEAN
  BY <1>0 DEF TTypeOK
<1> USE DEF TTypeOK
<1>1. CASE (Loop \/ Tick) /\ UNCHANGED uiVars
  BY <1>1 DEF uiVars
<1>2. ASSUME NEW ev \in Events, NEW mode \in Displays, Send(ev, mode)
      PROVE  /\ display' \in Displays
             /\ uiChan' \in {<<>>} \cup {<<e>> : e \in Events}
             /\ fwd' \in {<<>>} \cup {<<e>> : e \in Events}
             /\ uiUp' \in BOOLEAN
             /\ presses' \in Nat
             /\ dropped' \in BOOLEAN
  BY <1>2 DEF Send
<1>3. CASE KeySuspend
  <2>1. {SuspendEvent, ResumeEvent} \subseteq Events /\ {"Running", "Suspended"} \subseteq Displays
    BY DEF Events, Displays
  <2> QED BY <1>2, <1>3, <2>1 DEF KeySuspend
<1>4. ASSUME NEW r \in Rates, KeyEnter(r)
      PROVE  /\ display' \in Displays
             /\ uiChan' \in {<<>>} \cup {<<e>> : e \in Events}
             /\ fwd' \in {<<>>} \cup {<<e>> : e \in Events}
             /\ uiUp' \in BOOLEAN
             /\ presses' \in Nat
             /\ dropped' \in BOOLEAN
  <2>1. SetEvent(r) \in Events /\ "Manual" \in Displays
    BY DEF Events, Displays
  <2> QED BY <1>2, <1>4, <2>1 DEF KeyEnter
<1>5. CASE KeyQuit
  BY <1>5 DEF KeyQuit
<1>6. CASE Forward
  BY <1>6 DEF Forward
<1>7. CASE Deliver
  BY <1>7 DEF Deliver
<1>8. CASE UNCHANGED tvars
  BY <1>8 DEF tvars, uiVars
<1> QED BY <1>1, <1>3, <1>4, <1>5, <1>6, <1>7, <1>8 DEF TNext

\* The keys, the channels and the call in flight stay well typed.
THEOREM InterfaceTypeCorrect == TSpec => []TTypeOK
<1>1. TInit => TTypeOK /\ ClockInv
  <2> SUFFICES ASSUME TInit PROVE TTypeOK /\ ClockInv
    OBVIOUS
  <2>1. TypeOK /\ ClockInv
    BY InitTypeClock DEF TInit
  <2>2. display \in Displays
    BY DEF TInit, Displays
  <2> QED BY <2>1, <2>2 DEF TInit, TTypeOK
<1> QED BY <1>1, StepInterfaceType, PTL DEF TSpec

\* Composed with the interface, run_generator behaves as a run of RateControl:
\* a key, the forwarder and the call it makes are one more client.
THEOREM InterfaceRefines == TSpec => Spec
<1>1. TInit => Init
  BY DEF TInit
<1> QED BY <1>1, InterfaceIsClient, InterfaceTypeCorrect, PTL DEF TSpec, Spec

\* Steered from the terminal, the loop still implements the load profile.
THEOREM InterfaceImplements == TSpec => ImplementsLoadProfile
BY InterfaceRefines, Refinement, PTL

(***************************************************************************)
(* The status line.                                                        *)
(***************************************************************************)

\* suspend, resume and set move the mode of the generator as the status line
\* expects: a suspend in manual mode changes nothing.
LEMMA ApplyEventKind ==
  ASSUME now \in Nat, g \in Generators, NEW ev \in Events
  PROVE  ModeOf(ApplyEvent(ev)).kind = After(ModeOf(g).kind, <<ev>>)
<1> USE NoneAssumption DEF Generators, ModeOf
<1>0. <<ev>> # <<>> /\ Head(<<ev>>) = ev
  OBVIOUS
<1>1. CASE ev = SuspendEvent
  <2>1. ApplyEvent(ev) = Suspend(g, now)
    BY <1>1 DEF ApplyEvent, SuspendEvent
  <2>2. After(ModeOf(g).kind, <<ev>>)
          = IF ModeOf(g).kind = "Profile" THEN "Paused" ELSE ModeOf(g).kind
    BY <1>0, <1>1 DEF After, SuspendEvent
  <2>3. CASE g.suspended_at # None
    BY <2>1, <2>2, <2>3 DEF Suspend
  <2>4. CASE g.suspended_at = None
    <3>1. Suspend(g, now).value = None /\ Suspend(g, now).suspended_at = now
      BY <2>4 DEF Suspend
    <3> QED BY <2>1, <2>2, <2>4, <3>1
  <2> QED BY <2>3, <2>4
<1>2. CASE ev = ResumeEvent
  <2>1. ApplyEvent(ev) = Resume(g, now)
    BY <1>2 DEF ApplyEvent, ResumeEvent
  <2>2. Resume(g, now).suspended_at = None
    BY DEF Resume
  <2>3. After(ModeOf(g).kind, <<ev>>) = "Profile"
    BY <1>0, <1>2 DEF After, ResumeEvent
  <2> QED BY <2>1, <2>2, <2>3
<1>3. ASSUME NEW r \in Rates, ev = SetEvent(r)
      PROVE  ModeOf(ApplyEvent(ev)).kind = After(ModeOf(g).kind, <<ev>>)
  <2>1. ModeOf(ApplyEvent(ev)) = Load!Manual(r)
    BY <1>3, SetEventMode
  <2>2. After(ModeOf(g).kind, <<ev>>) = "Manual"
    BY <1>0, <1>3 DEF After, SetEvent
  <2> QED BY <2>1, <2>2 DEF Load!Manual
<1> QED BY <1>1, <1>2, <1>3 DEF Events

\* An empty queue changes no mode.
LEMMA AfterNothing ==
  ASSUME NEW kind
  PROVE  After(kind, <<>>) = kind
BY DEF After

\* Neither a key nor the forwarder nor the loop lets the status line and the
\* commands on their way come apart.
LEMMA StepDisplay ==
  TTypeOK /\ DisplayAhead /\ [TNext]_tvars => DisplayAhead'
<1> SUFFICES ASSUME TTypeOK, DisplayAhead, [TNext]_tvars, ~dropped'
             PROVE  (Shown = After(After(After(ModeOf(g).kind, chan), fwd), uiChan))'
  BY DEF DisplayAhead
<1> USE DEF TTypeOK
<1>0. CASE UNCHANGED <<display, uiChan, fwd, dropped, g, chan>>
  <2>1. Shown' = Shown
    BY <1>0 DEF Shown
  <2>2. Shown = After(After(After(ModeOf(g).kind, chan), fwd), uiChan)
    BY <1>0 DEF DisplayAhead
  <2> HIDE DEF TTypeOK
  <2> QED BY <1>0, <2>1, <2>2
<1>1. CASE (Loop \/ Tick) /\ UNCHANGED uiVars
  <2>1. CASE Receive /\ is_running /\ chan # <<>>
    <3>1. PICK ev \in Events : chan = <<ev>>
      BY <2>1 DEF TypeOK
    <3>2. Head(chan) = ev /\ Tail(chan) = <<>>
      BY <3>1
    <3>3. g' = ApplyEvent(ev) /\ chan' = <<>>
      BY <2>1, <3>2 DEF Receive
    <3>4. ModeOf(g').kind = After(ModeOf(g).kind, chan)
      BY <3>1, <3>3, ApplyEventKind DEF TypeOK
    <3>5. After(ModeOf(g').kind, chan') = After(ModeOf(g).kind, chan)
      BY <3>3, <3>4, AfterNothing
    <3>6. UNCHANGED <<display, uiChan, fwd, dropped>>
      BY <1>1 DEF uiVars
    <3> HIDE DEF TTypeOK
    <3>7. Shown' = Shown
      BY <3>6 DEF Shown
    <3>8. Shown = After(After(After(ModeOf(g).kind, chan), fwd), uiChan)
      BY <3>6 DEF DisplayAhead
    <3>9. Shown' = After(After(After(ModeOf(g').kind, chan'), fwd'), uiChan')
      BY <3>5, <3>6, <3>7, <3>8
    <3> QED BY <3>9
  <2>2. CASE ~(Receive /\ is_running /\ chan # <<>>)
    <3>1. UNCHANGED <<g, chan>>
      BY <1>1, <2>2 DEF Loop, Tick, Activate, Current, Receive, StoreLimit, Publish,
         Wake, Exit, ctlVars, loopVars
    <3> QED BY <1>1, <1>0, <3>1 DEF uiVars
  <2> QED BY <2>1, <2>2
<1>2. ASSUME NEW ev \in Events, NEW mode, Send(ev, mode)
      PROVE  /\ uiChan = <<>> /\ uiChan' = <<ev>> /\ display' = mode
             /\ UNCHANGED <<g, chan, fwd>>
             /\ Shown = After(After(ModeOf(g).kind, chan), fwd)
  <2>1. ~dropped /\ uiChan = <<>> /\ uiChan' = <<ev>>
    BY <1>2 DEF Send
  <2> QED BY <1>2, <2>1, AfterNothing DEF Send, DisplayAhead, vars, ctlVars
<1>3. CASE KeySuspend
  <2>1. {SuspendEvent, ResumeEvent} \subseteq Events
    BY DEF Events
  <2>2. CASE display = "Running"
    <3>1. Send(SuspendEvent, "Suspended")
      BY <1>3, <2>2 DEF KeySuspend
    <3>2. After("Profile", <<SuspendEvent>>) = "Paused"
      BY DEF After, SuspendEvent
    <3>3. Shown = "Profile" /\ Shown' = "Paused"
      BY <1>2, <2>1, <2>2, <3>1 DEF Shown
    <3> HIDE DEF TTypeOK
    <3> QED BY <1>2, <2>1, <3>1, <3>2, <3>3
  <2>3. CASE display # "Running"
    <3>1. Send(ResumeEvent, "Running")
      BY <1>3, <2>3 DEF KeySuspend
    <3>2. \A kind : After(kind, <<ResumeEvent>>) = "Profile"
      BY DEF After, ResumeEvent
    <3>3. Shown' = "Profile"
      BY <1>2, <2>1, <2>3, <3>1 DEF Shown
    <3> HIDE DEF TTypeOK
    <3> QED BY <1>2, <2>1, <3>1, <3>2, <3>3
  <2> QED BY <2>2, <2>3
<1>4. ASSUME NEW r \in Rates, KeyEnter(r)
      PROVE  (Shown = After(After(After(ModeOf(g).kind, chan), fwd), uiChan))'
  <2>1. SetEvent(r) \in Events
    BY DEF Events
  <2>2. \A kind : After(kind, <<SetEvent(r)>>) = "Manual"
    BY DEF After, SetEvent
  <2>3. Send(SetEvent(r), "Manual")
    BY <1>4 DEF KeyEnter
  <2>4. Shown' = "Manual"
    BY <1>2, <2>1, <2>3 DEF Shown
  <2> HIDE DEF TTypeOK
  <2> QED BY <1>2, <2>1, <2>2, <2>3, <2>4
<1>5. CASE KeyQuit
  BY <1>5, <1>0 DEF KeyQuit, UiExit, Halt, ctlVars
<1>6. CASE Forward
  <2>1. fwd = <<>> /\ fwd' = uiChan /\ uiChan' = <<>>
        /\ UNCHANGED <<g, chan, display, dropped>>
    BY <1>6 DEF Forward, vars, ctlVars
  <2>2. Shown' = Shown
    BY <2>1 DEF Shown
  <2>3. Shown = After(After(After(ModeOf(g).kind, chan), fwd), uiChan)
    BY <2>1 DEF DisplayAhead
  <2> HIDE DEF TTypeOK
  <2> QED BY <2>1, <2>2, <2>3, AfterNothing
<1>7. CASE Deliver
  <2>1. chan = <<>> /\ ~dropped /\ fwd # <<>> /\ fwd' = <<>>
        /\ UNCHANGED <<g, uiChan, display>>
    BY <1>7 DEF Deliver, Control
  <2>2. chan' = fwd
    BY <1>7, <2>1, OneEvent DEF Deliver, Control, TrySend
  <2>3. Shown' = Shown
    BY <2>1 DEF Shown
  <2>4. Shown = After(After(After(ModeOf(g).kind, chan), fwd), uiChan)
    BY <2>1 DEF DisplayAhead
  <2> HIDE DEF TTypeOK
  <2> QED BY <2>1, <2>2, <2>3, <2>4, AfterNothing
<1>8. CASE UNCHANGED tvars
  BY <1>8, <1>0 DEF tvars, uiVars, vars, ctlVars
<1> QED BY <1>1, <1>3, <1>4, <1>5, <1>6, <1>7, <1>8 DEF TNext

\* As long as no channel was full, the mode in the status line is the mode the
\* generator will be in when the commands on their way have arrived.
THEOREM StatusLine == TSpec => []DisplayAhead
<1>1. TInit => DisplayAhead
  <2> SUFFICES ASSUME TInit PROVE DisplayAhead
    OBVIOUS
  <2>1. ModeOf(g).kind = "Profile" /\ Shown = "Profile"
    BY NoneAssumption DEF TInit, Init, NewGenerator, ModeOf, Shown
  <2> QED BY <2>1, AfterNothing DEF TInit, Init, DisplayAhead
<1> QED BY <1>1, StepDisplay, InterfaceTypeCorrect, PTL DEF TSpec

==============================================================================
