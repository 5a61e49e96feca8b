------------------------ MODULE DistributedRefinement ------------------------
(***************************************************************************)
(* The distributed runtime, as long as no process fails, implements the    *)
(* sequential one: seen through any of its workers, with the commands that *)
(* are still on their way to that worker already applied to its pools.     *)
(***************************************************************************)
EXTENDS PipelineInvariant

(* What executing the commands s, oldest first, makes of the pools p.      *)
ExecuteAll(p, s) ==
  LET after[i \in 0..Len(s)] == IF i = 0 THEN p ELSE Execute(after[i - 1], s[i])
  IN  after[Len(s)]

Objects(w) ==
  IF connected /\ workerProc[w] \in {"running", "exited"}
    THEN ExecuteAll(pools[w], InFlight(w))
    ELSE EmptyPools

Sequential(w) == INSTANCE SequentialRuntime WITH
                   command <- clientCommand, objects <- Objects(w),
                   waiting <- Waiting, answer <- result

(* Every call sees the effects of all earlier calls and of no later one,   *)
(* although calls return before the workers have executed them, and every  *)
(* worker agrees: the pipeline of queues, threads and sockets neither      *)
(* loses, duplicates nor reorders a command, and each result is that of    *)
(* the caller's own command. (This is \A w \in Workers : Sequential(w)!Spec *)
(* with the quantifier moved inside the box.)                              *)
ImplementsSequentialRuntime ==
  /\ \A w \in Workers : Sequential(w)!Init
  /\ [][\A w \in Workers : [Sequential(w)!Next]_(Sequential(w)!vars)]_vars
=============================================================================
