---------------------------- MODULE MCScheduler ----------------------------
(* Model values for the runs of Scheduler: the cron command in a process   *)
(* of its own, two requests in the API's process.                          *)
EXTENDS Scheduler, TLC

CONSTANTS cron, m1, m2, cli, api

CallerProcess == (cron :> cli) @@ (m1 :> api) @@ (m2 :> api)

Call(c, f, a) == [count |-> c, force |-> f, avatar |-> a]

(* One more post at any price, one post with its avatar work, the rest of  *)
(* the day.                                                                *)
ManualCalls == {Call(1, TRUE, FALSE), Call(1, FALSE, TRUE), Call(-1, FALSE, TRUE)}

=============================================================================
