----------------------------- MODULE MCMustCharge -----------------------------
(* Two requests or settlings and two worker threads, each interchangeable.  *)
EXTENDS MustCharge, TLC

CONSTANT MaxEvents      \* bound: overrides, failed writes and restarts together

MCNext == Next /\ posts' + troubles' <= MaxEvents
MCSpec == Init /\ [][MCNext]_vars

Interchangeable == Permutations(Tasks) \union Permutations(Threads)
=============================================================================
