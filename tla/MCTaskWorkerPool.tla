-------------------------- MODULE MCTaskWorkerPool --------------------------
(* Small instances of TaskWorkerPool for TLC. *)
EXTENDS TaskWorkerPool

(* one limit that grows, and the unlimited mode *)
MCLimits == {Unlimited, 1, 2}

(* fixed limit *)
MCOneLimit == {1}

(* task.queue.size set to a negative value: sizes are computed *)
MCNotConfigured == -1

=============================================================================
