---- MODULE MCTelemetry ----
EXTENDS Telemetry

OneBucket == <<"hist1">>
TwoBuckets == <<"hist1", "hist2">>

\* Each bound of the page takes in one more histogram bucket.
MCBounds == <<1, 2>>
==============================
