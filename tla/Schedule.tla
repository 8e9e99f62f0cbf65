------------------------------ MODULE Schedule ------------------------------
(***************************************************************************)
(* The schedule service of the master: the cron table in its memory, which *)
(* starts the spiders, against the schedule documents in the database,     *)
(* which users see and change.  The two meet in one number: a document     *)
(* keeps the id of its entry in the table.                                 *)
(*                                                                         *)
(* Enable and Disable hold the mutex of the service; the HTTP handlers     *)
(* that call them, the update pass that runs every minute and the generic  *)
(* PATCH and DELETE handlers read and write documents without it.  After a *)
(* restart the table is empty and its ids begin at 1 again, while the      *)
(* documents, and the forms open in browsers, keep their old ids.          *)
(***************************************************************************)
EXTENDS Integers, FiniteSets, Functions

CONSTANTS
  Schedules,    \* the ids of schedule documents
  NoSchedule,   \* the schedule of a caller that has none
  Crons,        \* cron expressions ParseStandard accepts
  BadCron,      \* one it refuses
  Requests,     \* the HTTP requests, and forms, of users
  Updater,      \* the goroutine of Init and Update
  Before,       \* what the database may hold when the master starts
  MaxRetries,   \* attempts of enableWithRetry
  MaxRequests,  \* how often users act
  MaxFails,     \* how many writes fail
  MaxRestarts   \* how often the master restarts

(* The entry id of a disabled schedule, and Go's zero value in a new one.  *)
NoEntry == -1
ZeroEntry == 0

Document ==
  [life : {"new", "here", "gone"}, enabled : BOOLEAN, entry : Int,
   cron : Crons \cup {BadCron}]

Blank == [life |-> "new", enabled |-> FALSE, entry |-> ZeroEntry, cron |-> BadCron]

(* A schedule in the database when the master starts: not there yet,       *)
(* disabled, or enabled with an entry id of the master's earlier life.     *)
Stored ==
  {Blank}
    \cup [life : {"here"}, enabled : {FALSE}, entry : {NoEntry}, cron : Crons \cup {BadCron}]
    \cup [life : {"here"}, enabled : {TRUE}, entry : Nat \ {0}, cron : Crons]

ASSUME ScheduleAssumption ==
  /\ IsFiniteSet(Schedules) /\ IsFiniteSet(Requests)
  /\ NoSchedule \notin Schedules
  /\ BadCron \notin Crons
  /\ Updater \notin Requests
  /\ Before \subseteq [Schedules -> Stored]
  /\ MaxRetries \in Nat \ {0}
  /\ MaxRequests \in Nat /\ MaxFails \in Nat /\ MaxRestarts \in Nat

VARIABLES
  docs,      \* the schedule documents
  entries,   \* the cron table: the live entries by id
  nextId,    \* the id of the next entry
  mu,        \* who holds the mutex of the service, or NoOne
  call,      \* what each caller of the service is doing
  pass,      \* the progress of Init and of update
  cleanups,  \* ids that jobs of disabled schedules are about to remove
  loose,     \* schedules whose document was last written past the service
  spent      \* requests, failures and restarts so far

vars == <<docs, entries, nextId, mu, call, pass, cleanups, loose, spent>>

-----------------------------------------------------------------------------
NoOne == "no one"
Callers == Requests \cup {Updater}

(* A caller has a form open, waits for the mutex with its copy of the      *)
(* document, has the entry added and the document to write, or has the     *)
(* document written and the entry to remove.                               *)
CallState ==
  [pc : {"idle", "form", "enter", "write", "remove"},
   op : {"none", "enable", "disable"},
   sch : Schedules \cup {NoSchedule}, doc : Document, entry : Int]

Idle == [pc |-> "idle", op |-> "none", sch |-> NoSchedule, doc |-> Blank, entry |-> NoEntry]

Calling(s, op, d) ==
  [pc |-> "enter", op |-> op, sch |-> s, doc |-> d, entry |-> NoEntry]

(* One element of svc.schedules: the copy of an enabled document.          *)
Copy == [sch : Schedules, doc : Document]

(* The documents fetch returns.                                            *)
Fetched ==
  {[sch |-> s, doc |-> docs[s]] :
     s \in {x \in Schedules : docs[x].life = "here" /\ docs[x].enabled}}

Init ==
  /\ docs \in Before
  /\ entries = <<>>
  /\ nextId = 1
  /\ mu = NoOne
  /\ call = [c \in Callers |-> Idle]
  /\ pass = [pc |-> "boot", todo |-> Fetched, found |-> <<>>, tries |-> 0]
  /\ cleanups = {}
  /\ loose = Schedules
  /\ spent = [k \in {"request", "fail", "restart"} |-> 0]

Spend(k, max) ==
  /\ spent[k] < max
  /\ spent' = [spent EXCEPT ![k] = @ + 1]

(* ReplaceById writes the whole document, and none if it was deleted.      *)
ReplaceById(s, d) ==
  docs' = IF docs[s].life = "here" THEN [docs EXCEPT ![s] = d] ELSE docs

(* The entries without the ids in a set: cron.Remove ignores unknown ids.  *)
Without(ids) == Restrict(entries, DOMAIN entries \ ids)

-----------------------------------------------------------------------------
(* What users do through the HTTP API, once Init is over.                  *)

Serving == pass.pc # "boot"

(* PostSchedule: insert, then enable if the body says so.                  *)
PostSchedule(r, s) ==
  /\ Serving /\ call[r].pc = "idle" /\ docs[s].life = "new"
  /\ Spend("request", MaxRequests)
  /\ \E on \in BOOLEAN, c \in Crons \cup {BadCron} :
       LET d == [life |-> "here", enabled |-> on, entry |-> ZeroEntry, cron |-> c]
       IN /\ docs' = [docs EXCEPT ![s] = d]
          /\ call' = IF on THEN [call EXCEPT ![r] = Calling(s, "enable", d)] ELSE call
  /\ UNCHANGED <<entries, nextId, mu, pass, cleanups, loose>>

(* A browser reads a document into a form or a row.                        *)
GetScheduleById(r, s) ==
  /\ Serving /\ call[r].pc = "idle" /\ docs[s].life = "here"
  /\ Spend("request", MaxRequests)
  /\ call' = [call EXCEPT ![r] = [Idle EXCEPT !.pc = "form", !.sch = s, !.doc = docs[s]]]
  /\ UNCHANGED <<docs, entries, nextId, mu, pass, cleanups, loose>>

(* PutScheduleById writes the client's copy, edited, and then enables or   *)
(* disables from that copy.                                                *)
PutScheduleById(r) ==
  /\ Serving /\ call[r].pc = "form"
  /\ \E on \in BOOLEAN, c \in Crons \cup {BadCron} :
       LET d == [call[r].doc EXCEPT !.enabled = on, !.cron = c]
       IN /\ ReplaceById(call[r].sch, d)
          /\ call' = [call EXCEPT ![r] =
                        Calling(call[r].sch, IF on THEN "enable" ELSE "disable", d)]
  /\ loose' = loose \cup {call[r].sch}
  /\ UNCHANGED <<entries, nextId, mu, pass, cleanups, spent>>

(* The form is closed, or the write of PutScheduleById fails.              *)
CloseForm(r) ==
  /\ call[r].pc = "form"
  /\ call' = [call EXCEPT ![r] = Idle]
  /\ UNCHANGED <<docs, entries, nextId, mu, pass, cleanups, loose, spent>>

(* PostScheduleEnable and PostScheduleDisable read the document and hand   *)
(* the copy to the service.                                                *)
PostScheduleEnableDisable(r, s, op) ==
  /\ Serving /\ call[r].pc = "idle" /\ docs[s].life = "here"
  /\ Spend("request", MaxRequests)
  /\ call' = [call EXCEPT ![r] = Calling(s, op, docs[s])]
  /\ UNCHANGED <<docs, entries, nextId, mu, pass, cleanups, loose>>

(* The generic PATCH of one document or a list: fields are set past the    *)
(* service; the PATCH of one document also sets those the body leaves out  *)
(* to their zero values.                                                   *)
Patch(s) ==
  /\ Serving /\ docs[s].life = "here"
  /\ Spend("request", MaxRequests)
  /\ \E on \in BOOLEAN, c \in Crons \cup {BadCron}, e \in {docs[s].entry, ZeroEntry} :
       docs' = [docs EXCEPT ![s].enabled = on, ![s].cron = c, ![s].entry = e]
  /\ loose' = loose \cup {s}
  /\ UNCHANGED <<entries, nextId, mu, call, pass, cleanups>>

(* The generic DELETE leaves the entry to the next pass of update.         *)
Delete(s) ==
  /\ Serving /\ docs[s].life = "here"
  /\ Spend("request", MaxRequests)
  /\ docs' = [docs EXCEPT ![s].life = "gone"]
  /\ UNCHANGED <<entries, nextId, mu, call, pass, cleanups, loose>>

-----------------------------------------------------------------------------
(* Enable and Disable, under the mutex.                                    *)

(* The end of a call.  A request is answered; update goes on after a       *)
(* success and tries again after a failure, enableWithRetry.               *)
Return(c, ok) ==
  IF c = Updater /\ ~ok /\ pass.pc = "walk" /\ pass.tries < MaxRetries
    THEN /\ call' = [call EXCEPT ![c] = Calling(@.sch, @.op, @.doc)]
         /\ pass' = [pass EXCEPT !.tries = @ + 1]
    ELSE /\ call' = [call EXCEPT ![c] = Idle]
         /\ UNCHANGED pass

(* Enable: the expression is refused.                                      *)
EnableRefused(c) ==
  /\ call[c].pc = "enter" /\ call[c].op = "enable" /\ mu = NoOne
  /\ call[c].doc.cron \notin Crons
  /\ Return(c, FALSE)
  /\ UNCHANGED <<docs, entries, nextId, mu, cleanups, loose, spent>>

(* Variant for comparison: the id is not counted up. *)
EnableAddSame(c) ==
  /\ call[c].pc = "enter" /\ call[c].op = "enable" /\ mu = NoOne
  /\ call[c].doc.cron \in Crons
  /\ mu' = c
  /\ entries' = [i \in DOMAIN entries \cup {nextId} |->
                   IF i = nextId THEN [sch |-> call[c].sch, cron |-> call[c].doc.cron]
                                 ELSE entries[i]]
  /\ call' = [call EXCEPT ![c].pc = "write", ![c].entry = nextId]
  /\ UNCHANGED <<docs, nextId, pass, cleanups, loose, spent>>

(* Enable: AddFunc.  An entry the schedule has already stays.              *)
EnableAdd(c) ==
  /\ call[c].pc = "enter" /\ call[c].op = "enable" /\ mu = NoOne
  /\ call[c].doc.cron \in Crons
  /\ mu' = c
  /\ entries' = [i \in DOMAIN entries \cup {nextId} |->
                   IF i = nextId THEN [sch |-> call[c].sch, cron |-> call[c].doc.cron]
                                 ELSE entries[i]]
  /\ nextId' = nextId + 1
  /\ call' = [call EXCEPT ![c].pc = "write", ![c].entry = nextId]
  /\ UNCHANGED <<docs, pass, cleanups, loose, spent>>

(* Variant for comparison: the document keeps the entry id it had. *)
EnabledDocOld(c) == [call[c].doc EXCEPT !.enabled = TRUE]

(* The document Enable writes: the caller's copy with the new entry.       *)
EnabledDoc(c) == [call[c].doc EXCEPT !.enabled = TRUE, !.entry = call[c].entry]

EnableWrite(c) ==
  /\ call[c].pc = "write"
  /\ mu' = NoOne
  /\ ReplaceById(call[c].sch, EnabledDoc(c))
  /\ loose' = loose \ {call[c].sch}
  /\ Return(c, TRUE)
  /\ UNCHANGED <<entries, nextId, cleanups, spent>>

(* The write fails: the entry was added all the same.                      *)
EnableWriteFails(c) ==
  /\ call[c].pc = "write"
  /\ Spend("fail", MaxFails)
  /\ mu' = NoOne
  /\ Return(c, FALSE)
  /\ UNCHANGED <<docs, entries, nextId, cleanups, loose>>

(* Disable writes the document first ...                                   *)
DisableWrite(c) ==
  /\ call[c].pc = "enter" /\ call[c].op = "disable" /\ mu = NoOne
  /\ mu' = c
  /\ ReplaceById(call[c].sch, [call[c].doc EXCEPT !.enabled = FALSE, !.entry = NoEntry])
  /\ loose' = loose \ {call[c].sch}
  /\ call' = [call EXCEPT ![c].pc = "remove"]
  /\ UNCHANGED <<entries, nextId, pass, cleanups, spent>>

DisableWriteFails(c) ==
  /\ call[c].pc = "enter" /\ call[c].op = "disable" /\ mu = NoOne
  /\ Spend("fail", MaxFails)
  /\ Return(c, FALSE)
  /\ UNCHANGED <<docs, entries, nextId, mu, cleanups, loose>>

(* ... and then removes the entry its copy names.                          *)
DisableRemove(c) ==
  /\ call[c].pc = "remove"
  /\ mu' = NoOne
  /\ entries' = Without({call[c].doc.entry})
  /\ Return(c, TRUE)
  /\ UNCHANGED <<docs, nextId, cleanups, loose, spent>>

Serve(c) ==
  \/ EnableRefused(c) \/ EnableAdd(c) \/ EnableWrite(c)
  \/ DisableWrite(c) \/ DisableRemove(c)

-----------------------------------------------------------------------------
(* Init of the service and its update pass.                                *)

(* The master restarts: what was in its memory is gone, Init fetches the   *)
(* enabled schedules.  Forms in browsers stay open.                        *)
Restart ==
  /\ Spend("restart", MaxRestarts)
  /\ entries' = <<>>
  /\ nextId' = 1
  /\ mu' = NoOne
  /\ call' = [c \in Callers |-> IF call[c].pc = "form" THEN call[c] ELSE Idle]
  /\ pass' = [pc |-> "boot", todo |-> Fetched, found |-> <<>>, tries |-> 0]
  /\ cleanups' = {}
  /\ loose' = Schedules
  /\ UNCHANGED docs

(* Init enables the next schedule, or disables it if its expression is     *)
(* invalid.                                                                *)
InitNext ==
  /\ pass.pc = "boot" /\ call[Updater].pc = "idle"
  /\ \E x \in pass.todo :
       /\ pass' = [pass EXCEPT !.todo = @ \ {x}]
       /\ call' = [call EXCEPT ![Updater] =
                     Calling(x.sch, IF x.doc.cron \in Crons THEN "enable" ELSE "disable", x.doc)]
  /\ UNCHANGED <<docs, entries, nextId, mu, cleanups, loose, spent>>

InitDone ==
  /\ pass.pc = "boot" /\ call[Updater].pc = "idle" /\ pass.todo = {}
  /\ pass' = [pass EXCEPT !.pc = "sleep"]
  /\ UNCHANGED <<docs, entries, nextId, mu, call, cleanups, loose, spent>>

(* update fetches the enabled schedules ...                                *)
UpdateFetch ==
  /\ pass.pc = "sleep"
  /\ pass' = [pass EXCEPT !.pc = "fetched", !.todo = Fetched]
  /\ UNCHANGED <<docs, entries, nextId, mu, call, cleanups, loose, spent>>

(* ... lists the ids in the table, getEntryIdsMap ...                      *)
UpdateEntryIds ==
  /\ pass.pc = "fetched"
  /\ pass' = [pass EXCEPT !.pc = "walk", !.found = [i \in DOMAIN entries |-> FALSE]]
  /\ UNCHANGED <<docs, entries, nextId, mu, call, cleanups, loose, spent>>

(* ... marks the entry of each schedule, or enables the schedule if the    *)
(* list lacks it ...                                                       *)
UpdateNext ==
  /\ pass.pc = "walk" /\ call[Updater].pc = "idle"
  /\ \E x \in pass.todo :
       IF x.doc.entry \in DOMAIN pass.found
         THEN /\ pass' = [pass EXCEPT !.todo = @ \ {x}, !.found[x.doc.entry] = TRUE]
              /\ UNCHANGED call
         ELSE /\ pass' = [pass EXCEPT !.todo = @ \ {x}, !.tries = 1]
              /\ call' = [call EXCEPT ![Updater] = Calling(x.sch, "enable", x.doc)]
  /\ UNCHANGED <<docs, entries, nextId, mu, cleanups, loose, spent>>

(* Variant for comparison: entries no schedule names are left in the table. *)
UpdateRemoveNone ==
  /\ pass.pc = "walk" /\ call[Updater].pc = "idle" /\ pass.todo = {}
  /\ pass' = [pc |-> "sleep", todo |-> {}, found |-> <<>>, tries |-> 0]
  /\ UNCHANGED <<docs, entries, nextId, mu, call, cleanups, loose, spent>>

(* ... and removes the entries it has not marked.                          *)
UpdateRemove ==
  /\ pass.pc = "walk" /\ call[Updater].pc = "idle" /\ pass.todo = {}
  /\ entries' = Without({i \in DOMAIN pass.found : ~pass.found[i]})
  /\ pass' = [pc |-> "sleep", todo |-> {}, found |-> <<>>, tries |-> 0]
  /\ UNCHANGED <<docs, nextId, mu, call, cleanups, loose, spent>>

Updates == InitNext \/ InitDone \/ UpdateFetch \/ UpdateEntryIds \/ UpdateNext \/ UpdateRemove

(* The job of an entry whose schedule is disabled: a goroutine is to       *)
(* remove the entry the document names, if it names one.  (The job of an   *)
(* enabled schedule enqueues tasks, which is the scheduler's business;     *)
(* that of a deleted one returns on the failing read.)                     *)
JobOfDisabled(i) ==
  /\ Serving
  /\ LET d == docs[entries[i].sch]
     IN /\ d.life = "here" /\ ~d.enabled /\ d.entry \notin {NoEntry, ZeroEntry}
        /\ cleanups' = cleanups \cup {d.entry}
  /\ UNCHANGED <<docs, entries, nextId, mu, call, pass, loose, spent>>

JobRemove(i) ==
  /\ mu = NoOne
  /\ entries' = Without({i})
  /\ cleanups' = cleanups \ {i}
  /\ UNCHANGED <<docs, nextId, mu, call, pass, loose, spent>>

-----------------------------------------------------------------------------
Next ==
  \/ \E r \in Requests :
       \/ \E s \in Schedules :
            \/ PostSchedule(r, s) \/ GetScheduleById(r, s)
            \/ \E op \in {"enable", "disable"} : PostScheduleEnableDisable(r, s, op)
       \/ PutScheduleById(r) \/ CloseForm(r)
  \/ \E s \in Schedules : Patch(s) \/ Delete(s)
  \/ \E c \in Callers : Serve(c) \/ EnableWriteFails(c) \/ DisableWriteFails(c)
  \/ Restart
  \/ Updates
  \/ \E i \in DOMAIN entries : JobOfDisabled(i)
  \/ \E i \in cleanups : JobRemove(i)

Spec == Init /\ [][Next]_vars

(* The goroutines of the master go on: a handler that has entered the      *)
(* service, the update loop, the clean-up of a job.                        *)
FairSpec ==
  /\ Spec
  /\ \A c \in Callers : WF_vars(Serve(c))
  /\ WF_vars(Updates)
  /\ WF_vars(\E i \in cleanups : JobRemove(i))

-----------------------------------------------------------------------------
TypeOK ==
  /\ docs \in [Schedules -> Document]
  /\ nextId \in Nat \ {0}
  /\ DOMAIN entries \subseteq 1 .. (nextId - 1)
  /\ mu \in Callers \cup {NoOne}
  /\ call \in [Callers -> CallState]
  /\ \A c \in Callers : call[c].pc # "idle" => call[c].sch \in Schedules
  /\ pass = [pc |-> pass.pc, todo |-> pass.todo, found |-> pass.found, tries |-> pass.tries]
  /\ pass.pc \in {"boot", "sleep", "fetched", "walk"}
  /\ pass.todo \subseteq Copy
  /\ pass.tries \in 0 .. MaxRetries
  /\ loose \subseteq Schedules
  /\ spent \in [{"request", "fail", "restart"} -> Nat]

(* The entry a schedule's document names, if it is in the table, is the    *)
(* schedule's own and has the document's cron expression: whatever stale   *)
(* copies Enable and Disable are called with, in whatever order, and with  *)
(* the ids that come back after a restart.  Excepted is a document that    *)
(* was written past the service since the service wrote it last.           *)
OwnEntry ==
  \A s \in Schedules \ loose :
    (docs[s].life = "here" /\ docs[s].entry \in DOMAIN entries)
      => entries[docs[s].entry] = [sch |-> s, cron |-> docs[s].cron]

Names(s, i) == docs[s].life = "here" /\ docs[s].enabled /\ docs[s].entry = i

(* Update repairs the table: when users and faults have come to an end,    *)
(* every enabled schedule with a valid expression names an entry of the    *)
(* table, and every entry is the one its own schedule, enabled, names, so  *)
(* that no schedule fires twice at one time.  Excepted from the second     *)
(* half is an entry named by an enabled document that was last written     *)
(* past the service: update takes it for that document's own and keeps it, *)
(* whichever schedule it fires.                                            *)
Converges ==
  <>[](/\ \A s \in Schedules :
            (docs[s].life = "here" /\ docs[s].enabled /\ docs[s].cron \in Crons)
              => docs[s].entry \in DOMAIN entries
       /\ \A i \in DOMAIN entries :
            Names(entries[i].sch, i) \/ \E s \in loose : Names(s, i))
=============================================================================
