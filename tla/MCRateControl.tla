---- MODULE MCRateControl ----
EXTENDS RateControl, TLC

\* A ramp that passes through zero and through a rate N does not divide.
MCProfile == 0 :> 5 @@ 1 :> 0 @@ 2 :> 3
==============================
