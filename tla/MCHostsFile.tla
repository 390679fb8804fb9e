----------------------------- MODULE MCHostsFile -----------------------------
(* Instances of HostsFile for TLC: a fresh hosts file, one that was synced    *)
(* before and edited around the block, and one with nothing else in it.       *)
EXTENDS HostsFile, TLC

CONSTANTS a, b, loopback, printer, shop, docs

OneOrBoth == {<<shop>>, <<docs, shop>>}
Files == {<<loopback, Blank>>, <<loopback, Start, docs, End, printer>>, <<>>}

Symmetry == Permutations(Procs)
=============================================================================
