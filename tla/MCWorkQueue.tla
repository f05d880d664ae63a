---------------------------- MODULE MCWorkQueue -----------------------------
(* Instance of WorkQueue for TLC.                                          *)
EXTENDS WorkQueue, TLC
CONSTANTS ui, pool, w1, w2, w3

MCPosters   == {ui, pool}
MCWorks     == {w1, w2, w3}
MCNotifying == {w1, w2}
=============================================================================
