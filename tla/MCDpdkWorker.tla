---- MODULE MCDpdkWorker ----
EXTENDS DpdkWorker

\* Two cores on one port or on two; a core named twice; the main core named.
MCLayouts == {<<<<1, 2>>>>, <<<<1>>, <<2>>>>, <<<<1>>, <<1>>>>, <<<<0, 1>>>>}
==============================
