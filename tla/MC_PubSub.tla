----------------------------- MODULE MC_PubSub -----------------------------
(* Model-checking instance of PubSub: two host threads, two registrations *)
(* and two notifications.                                                  *)
EXTENDS PubSub, TLC

CONSTANTS t1, t2

MCHostThreads == {t1, t2}
MCSymmetry == Permutations(MCHostThreads)
====
