----------------------------- MODULE MCPagedKV -----------------------------
(* Small instances of PagedKV for TLC. *)
EXTENDS PagedKV, TLC

CONSTANTS a, b, c, t1, t2

(* a and b on one shard, c on another. *)
ShardOf == (a :> 0) @@ (b :> 0) @@ (c :> 1)
Pairs == {<<a, b>>, <<a, c>>, <<c, a>>}

Symm == Permutations(Threads)

(* Of the behaviours in which a copy overlaps a compaction, TLC follows    *)
(* what happens until that compaction has done its moves.                  *)
UntilMoved == overlapped => plan # {}
=============================================================================
