---------------------------- MODULE MCRedisStore ----------------------------
(* Two clients and four calls: two messages or checkpoints, a fork and a   *)
(* deletion, or any two operations around two deletions.                   *)
EXTENDS RedisStore, TLC

MCSymmetry == Permutations(Client) \cup Permutations(Session)
=============================================================================
