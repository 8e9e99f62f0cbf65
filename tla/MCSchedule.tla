----------------------------- MODULE MCSchedule -----------------------------
(* Instances of Schedule for TLC. *)
EXTENDS Schedule

CONSTANTS s1, hourly

(* One enabled schedule whose entry was the second one of the master's     *)
(* earlier life, and one yet to be created, which may get that id now.     *)
MCBefore ==
  {[s \in Schedules |->
      IF s = s1 THEN [life |-> "here", enabled |-> TRUE, entry |-> 2, cron |-> hourly]
                ELSE Blank]}
=============================================================================
