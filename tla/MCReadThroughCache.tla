-------------------------- MODULE MCReadThroughCache --------------------------
(* Two readers and two writers of the spam filter's two-part entry: a load  *)
(* can be overtaken between its parts, and by a second writer.              *)
EXTENDS ReadThroughCache, TLC

CONSTANTS r1, r2, w1, w2

MCReaders == {r1, r2}
MCWriters == {w1, w2}
MCLoad == <<"config", "rules">>
MCSymmetry == Permutations(MCReaders) \cup Permutations(MCWriters)

==============================================================================
