---------------------------- MODULE MCLeaderLease ----------------------------
(***************************************************************************)
(* Small instances of the scheduler's election: workers w1 to w3, time in  *)
(* units of five seconds (TTL 30 s, renewal 10 s, poll 5 s).               *)
(***************************************************************************)
EXTENDS LeaderLease, TLC

CONSTANTS w1, w2, w3
=============================================================================
