---- MODULE MCTuiControl ----
EXTENDS TuiControl, TLC

MCProfile == 0 :> 3 @@ 1 :> 2
=============================
