----------------------------- MODULE TuiControl -----------------------------
(***************************************************************************)
(* The terminal user interface steering the rate control: the key handler  *)
(* of the "ui" thread (dwd/src/ui.rs), the channel it feeds, and the       *)
(* forwarder task that turns each intent into a Control call               *)
(* (dwd/src/grpc/client.rs), composed with the loop of RateControl.  The   *)
(* forwarder runs on the same runtime as the loop, one call at a time.     *)
(***************************************************************************)
EXTENDS RateControl

CONSTANT MaxPresses   \* bound: keys that send a command

ASSUME PressesAssumption == MaxPresses \in Nat /\ MaxPresses <= MaxRequests

VARIABLES
  display,   \* mode shown in the status line
  uiChan,    \* channel from the key handler to the forwarder, capacity 1
  fwd,       \* the intent the forwarder is sending, as a sequence
  uiUp,      \* the ui thread is in its event loop
  presses,   \* commands sent by keys so far (bounds the model)
  dropped    \* history: one of the two channels was full and lost a command

uiVars == <<display, uiChan, fwd, uiUp, presses, dropped>>
tvars == <<vars, uiVars>>

\* Mode::Running(true), Mode::Running(false), Mode::Manual.
Displays == {"Running", "Suspended", "Manual"}

TInit ==
  /\ Init
  /\ display = "Running"
  /\ uiChan = <<>>
  /\ fwd = <<>>
  /\ uiUp = TRUE
  /\ presses = 0
  /\ dropped = FALSE

\* The display changes first, whether or not the channel has room.
SendUnbounded(ev, mode) ==
  /\ uiUp
  /\ presses < MaxPresses
  /\ presses' = presses + 1
  /\ display' = mode
  /\ uiChan' = Append(uiChan, ev)
  /\ UNCHANGED <<vars, fwd, uiUp, dropped>>

Send(ev, mode) ==
  /\ uiUp
  /\ presses < MaxPresses
  /\ presses' = presses + 1
  /\ display' = mode
  /\ uiChan' = IF uiChan = <<>> THEN <<ev>> ELSE uiChan
  /\ dropped' = (dropped \/ uiChan # <<>>)
  /\ UNCHANGED <<vars, fwd, uiUp>>

\* 's' toggles between running and suspended, and leaves manual mode by
\* returning to the profile: Suspend is never sent in manual mode.
KeySuspendTogglesManual ==
  IF display = "Suspended"
  THEN Send(ResumeEvent, "Running")
  ELSE Send(SuspendEvent, "Suspended")

KeySuspend ==
  IF display = "Running"
  THEN Send(SuspendEvent, "Suspended")
  ELSE Send(ResumeEvent, "Running")

\* Enter with a number in the input field.
KeyEnter(r) == Send(SetEvent(r), "Manual")

\* 'q' or Ctrl-C: ui::run returns and the thread clears the run flag.
KeyQuit ==
  /\ uiUp
  /\ uiUp' = FALSE
  /\ UiExit
  /\ UNCHANGED <<display, uiChan, fwd, presses, dropped>>

\* spawn_control_forwarder: the next intent is taken when the last call is over.
\* Its task is spawned after the last await before the loop.
Forward ==
  /\ pc = "sleep"
  /\ fwd = <<>>
  /\ uiChan # <<>>
  /\ fwd' = uiChan
  /\ uiChan' = <<>>
  /\ UNCHANGED <<vars, display, uiUp, presses, dropped>>

\* The Control call of the forwarder is served.
Deliver ==
  /\ fwd # <<>>
  /\ Control(Head(fwd))
  /\ fwd' = <<>>
  /\ dropped' = (dropped \/ chan # <<>>)
  /\ UNCHANGED <<display, uiChan, uiUp, presses>>

TNext ==
  \/ (Loop \/ Tick) /\ UNCHANGED uiVars
  \/ KeySuspend
  \/ \E r \in Rates : KeyEnter(r)
  \/ KeyQuit
  \/ Forward
  \/ Deliver

\* The runtime keeps polling the loop, and polls the forwarder whenever the
\* loop sleeps again and again.  Nobody has to press a key.
TSpec ==
  /\ TInit /\ [][TNext]_tvars
  /\ WF_tvars(Loop /\ UNCHANGED uiVars)
  /\ SF_tvars(Forward)
  /\ SF_tvars(Deliver)

(***************************************************************************)
(* Properties.                                                             *)
(***************************************************************************)

\* The state of the interface is well typed.
TTypeOK ==
  /\ TypeOK
  /\ display \in Displays
  /\ uiChan \in {<<>>} \cup {<<ev>> : ev \in Events}
  /\ fwd \in {<<>>} \cup {<<ev>> : ev \in Events}
  /\ uiUp \in BOOLEAN
  /\ presses \in Nat
  /\ dropped \in BOOLEAN

\* What a mode becomes when a command is applied to it.
After(kind, queue) ==
  IF queue = <<>> THEN kind
  ELSE CASE Head(queue).kind = "Resume"  -> "Profile"
         [] Head(queue).kind = "Set"     -> "Manual"
         [] Head(queue).kind = "Suspend" -> IF kind = "Profile" THEN "Paused" ELSE kind

Shown == CASE display = "Running" -> "Profile"
           [] display = "Suspended" -> "Paused"
           [] display = "Manual" -> "Manual"

\* The status line runs ahead of the generator by exactly the commands still
\* on their way: through two channels and a call in flight, as long as none of
\* them was full, the mode the user sees is the mode the generator will be in.
DisplayAhead ==
  ~dropped => Shown = After(After(After(ModeOf(g).kind, chan), fwd), uiChan)

\* A suspend the user sees in the status line takes the load off every worker,
\* unless the user changes his mind, a command was lost or the run ends.
SuspendTakesEffect ==
  (display = "Suspended" /\ ~dropped)
    ~> \/ \A i \in Workers : limits[i] = 0
       \/ display # "Suspended"
       \/ dropped
       \/ pc = "done"
==============================================================================
