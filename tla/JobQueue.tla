------------------------------ MODULE JobQueue ------------------------------
(***************************************************************************)
(* One BullMQ job under a deterministic job id, as QueueService uses it    *)
(* (src/src/queue/services/queue.service.ts).  BullMQ itself is external:  *)
(* this module only holds what its calls do to the state of one id.        *)
(* "none" is an id with no job; "waiting" stands for BullMQ's waiting,     *)
(* paused and prioritized, which QueueService never tells apart.           *)
(***************************************************************************)
EXTENDS Naturals

JobState == {"none", "waiting", "delayed", "active", "completed", "failed"}

(* A job a worker has, or will be given without anybody's intervention. *)
Executable == {"waiting", "delayed", "active"}

(* A finished job that keeps its id for the 30 days of removeOnComplete /  *)
(* removeOnFail.                                                           *)
Retained == {"completed", "failed"}

(* The states job.remove() is tried in by a cancel or a compensation. *)
Removable == {"waiting", "delayed"}

(* queue.add under an id: a no-op when the id already has a job, retained  *)
(* ones included.                                                          *)
Added(s)        == IF s = "none" THEN "waiting" ELSE s
AddedDelayed(s) == IF s = "none" THEN "delayed" ELSE s

(* activatePrepared...: promote a delayed job, leave any other alone. *)
Promoted(s) == IF s = "delayed" THEN "waiting" ELSE s

(* compensatePrepared... and cancelPendingJob: remove what is not running. *)
Withdrawn(s) == IF s \in Removable THEN "none" ELSE s

(* A processor threw for the made-th time out of max. *)
AfterThrow(made, max) == IF made < max THEN "waiting" ELSE "failed"
=============================================================================
