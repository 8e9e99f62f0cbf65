------------------------------ MODULE McpServer ------------------------------
(***************************************************************************)
(* The MCP server between AI assistants and the hub.  It starts from its   *)
(* environment or not at all; an assistant calls tools, any number at a    *)
(* time; a tool may demand a confirmation; the client lets no change       *)
(* through unless mutations are enabled and gives up on a request after    *)
(* 30 s, whether the hub acts on it or not.                                *)
(***************************************************************************)
EXTENDS McpTools, Integers

CONSTANTS
  Ids,    \* resources of the hub
  Calls   \* tool calls

VARIABLES
  phase,      \* "starting", "serving" or "failed"
  mutations,  \* ASTIANGO_MCP_ALLOW_MUTATIONS of the process
  hub,        \* the resources, as far as tools change them
  acts,       \* history: how often the hub made the change of a call
  asked,      \* history: what calls that were let through had confirmed, and what they updated
  call        \* the tool calls: not made yet, waiting for the hub or for /health, timed
              \* out with the request possibly on its way, or over

vars == <<phase, mutations, hub, acts, asked, call>>

Flags == {"unset", "true", "other"}
Environment ==
  [args : 0..2, endpoint : BOOLEAN, mutations : Flags,
   secret : {"unset", "directory", "shared", "empty", "private"}]

Confirmations == [action : {"DELETE", "CANCEL", "DISABLE"}, id : Ids]

NotCalled == [st |-> "new"]
Over == [st |-> "over"]
Health == [st |-> "health"]

Init ==
  /\ phase = "starting"
  /\ mutations = "unset"
  /\ hub = [i \in Ids |-> "active"]
  /\ acts = [n \in Calls |-> 0]
  /\ asked = {}
  /\ call = [n \in Calls |-> NotCalled]

-----------------------------------------------------------------------------
(* Start *)

\* loadMcpConfiguration: one argument or the variable names the endpoint, and the token is
\* in a regular file that is not empty and private to its owner.
ConfigurationLoads(env) ==
  /\ env.args = 1 \/ (env.args = 0 /\ env.endpoint)
  /\ env.secret = "private"

Start(env) ==
  /\ phase = "starting"
  /\ ConfigurationLoads(env)
  /\ phase' = "serving"
  /\ mutations' = env.mutations
  /\ UNCHANGED <<hub, acts, asked, call>>

\* The process exits with an error.
StartFails(env) ==
  /\ phase = "starting"
  /\ ~ConfigurationLoads(env)
  /\ phase' = "failed"
  /\ UNCHANGED <<mutations, hub, acts, asked, call>>

-----------------------------------------------------------------------------
(* Tool calls *)

\* Variant for comparison: any value that is set enables mutations.
mutationsAreEnabledIfSet(value) == value # "unset"

mutationsAreEnabled(value) == value = "true"

isReadOnlyMethod(method) == method \in {"get", "head", "options"}

\* The request interceptor of the client.
LetThrough(tool) == mutationsAreEnabled(mutations) \/ isReadOnlyMethod(tool.method)

\* Variant for comparison: the confirmation of another resource is accepted.
ConfirmsAnyResource(tool, id, c) == c.action = tool.confirmation

\* requireDestructiveConfirmation.
Confirms(tool, id, c) == c.action = tool.confirmation /\ c.id = id

Sent(tool, id) ==
  [st |-> "sent", effect |-> tool.effect, id |-> id, left |-> tool.requests, health |-> tool.health]

\* The handler of a tool without confirmation, up to its requests.
Call(n, tool, id) ==
  /\ phase = "serving"
  /\ call[n] = NotCalled
  /\ tool.confirmation = "none"
  /\ call' = [call EXCEPT ![n] = IF ~LetThrough(tool) THEN Over
                                 ELSE IF tool.requests = 0 THEN Health
                                 ELSE Sent(tool, id)]
  /\ asked' = IF LetThrough(tool) /\ tool.effect = "update" THEN asked \cup {[action |-> "UPDATE", id |-> id]}
              ELSE asked
  /\ UNCHANGED <<phase, mutations, hub, acts>>

\* The handler of a tool that demands a confirmation.
CallConfirmed(n, tool, id, c) ==
  /\ phase = "serving"
  /\ call[n] = NotCalled
  /\ tool.confirmation # "none"
  /\ IF Confirms(tool, id, c) /\ LetThrough(tool)
     THEN /\ call' = [call EXCEPT ![n] = Sent(tool, id)]
          /\ asked' = asked \cup {c}
     ELSE /\ call' = [call EXCEPT ![n] = Over]
          /\ UNCHANGED asked
  /\ UNCHANGED <<phase, mutations, hub, acts>>

\* What the hub may make of the resource: one that is gone stays gone.  PUT replaces the
\* whole document by what it reads of the body, so a node or schedule is switched off by an
\* update that says so, and by one of which the hub reads no `enabled' at all.
Outcomes(effect, was) ==
  CASE was = "removed" -> {"removed"}
    [] was # "removed" /\ effect = "remove" -> {"removed"}
    [] was # "removed" /\ effect = "cancel" -> {"cancelled"}
    [] was # "removed" /\ effect = "disable" -> {"disabled"}
    [] was # "removed" /\ effect = "enable" -> {"active"}
    [] was # "removed" /\ effect = "replace" -> {"replaced"}
    [] was # "removed" /\ effect = "update" -> {"replaced", "disabled"}
    [] OTHER -> {was}

Act(n) ==
  /\ \E new \in Outcomes(call[n].effect, hub[call[n].id]) : hub' = [hub EXCEPT ![call[n].id] = new]
  /\ acts' = IF call[n].effect = "read" THEN acts ELSE [acts EXCEPT ![n] = @ + 1]

\* Variant for comparison: the handler waits for one more answer than it has sent requests.
HubAnswersOneMore(n) ==
  /\ call[n].st = "sent"
  /\ Act(n)
  /\ call' = [call EXCEPT ![n] = IF @.left > 0 THEN [call[n] EXCEPT !.left = @ - 1]
                                 ELSE IF @.health THEN Health ELSE Over]
  /\ UNCHANGED <<phase, mutations, asked>>

\* The hub acts on a request and answers; the tool goes on when it has all answers.
HubAnswers(n) ==
  /\ call[n].st = "sent"
  /\ Act(n)
  /\ call' = [call EXCEPT ![n] = IF @.left > 1 THEN [call[n] EXCEPT !.left = @ - 1]
                                 ELSE IF @.health THEN Health ELSE Over]
  /\ UNCHANGED <<phase, mutations, asked>>

\* The hub refuses, or has no such route or resource: the handler answers with isError.
HubRefuses(n) ==
  /\ call[n].st = "sent"
  /\ call' = [call EXCEPT ![n] = Over]
  /\ UNCHANGED <<phase, mutations, hub, acts, asked>>

\* Variant for comparison: a request without an answer is sent once more.
NoAnswerResends(n, acted) ==
  /\ call[n].st = "sent"
  /\ IF acted THEN Act(n) ELSE UNCHANGED <<hub, acts>>
  /\ UNCHANGED <<phase, mutations, asked, call>>

\* Thirty seconds without an answer, which is late or lost (the hub has acted), or the
\* request itself is late: the handler answers with isError.
NoAnswer(n, acted) ==
  /\ call[n].st = "sent"
  /\ IF acted THEN Act(n) ELSE UNCHANGED <<hub, acts>>
  /\ call' = [call EXCEPT ![n] = IF acted \/ @.effect = "read" THEN Over ELSE [@ EXCEPT !.st = "late"]]
  /\ UNCHANGED <<phase, mutations, asked>>

\* A request the client has given up on reaches the hub.  It may as well be lost, which is
\* this action not taken.
LateRequest(n) ==
  /\ call[n].st = "late"
  /\ Act(n)
  /\ call' = [call EXCEPT ![n] = Over]
  /\ UNCHANGED <<phase, mutations, asked>>

\* Variant for comparison: a health check without an answer leaves the tool without one.
HealthCheckedIfAnswered(n) ==
  /\ call[n].st = "health"
  /\ UNCHANGED vars

\* healthCheck says true or false, after an answer, an error or the timeout.
HealthChecked(n) ==
  /\ call[n].st = "health"
  /\ call' = [call EXCEPT ![n] = Over]
  /\ UNCHANGED <<phase, mutations, hub, acts, asked>>

Next ==
  \/ \E env \in Environment : Start(env) \/ StartFails(env)
  \/ \E n \in Calls :
       \/ \E tool \in AllTools, id \in Ids :
            \/ Call(n, tool, id)
            \/ \E c \in Confirmations : CallConfirmed(n, tool, id, c)
       \/ HubAnswers(n) \/ HubRefuses(n) \/ HealthChecked(n)
       \/ \E acted \in BOOLEAN : NoAnswer(n, acted)
       \/ LateRequest(n)

Spec == Init /\ [][Next]_vars

\* The timeout of axios comes in any case, and the handler goes on after it; nothing is
\* assumed of the hub.
FairSpec ==
  /\ Spec
  /\ \A n \in Calls : WF_vars(NoAnswer(n, FALSE)) /\ WF_vars(HealthChecked(n))

-----------------------------------------------------------------------------
Effects == {"read", "other", "replace", "update", "remove", "cancel", "disable", "enable"}

Requests ==
  [st : {"sent", "late"}, effect : Effects, id : Ids, left : 1..5, health : BOOLEAN]

\* Type invariant: a call under way waits for at least one answer.
TypeOK ==
  /\ phase \in {"starting", "serving", "failed"}
  /\ mutations \in Flags
  /\ hub \in [Ids -> {"active", "removed", "cancelled", "disabled", "replaced"}]
  /\ acts \in [Calls -> Nat]
  /\ asked \subseteq [action : {"DELETE", "CANCEL", "DISABLE", "UPDATE"}, id : Ids]
  /\ call \in [Calls -> {NotCalled, Over, Health} \cup Requests]

\* The read-only mode of the client: whatever tools are called, and however late a request
\* arrives, the hub is changed only by a server started with mutations enabled.
ReadOnlyHub == (\E n \in Calls : acts[n] > 0) => mutations = "true"

\* requireDestructiveConfirmation: a resource is removed or cancelled only after a call has
\* named this action and this resource, also when the request arrives after the call has
\* failed; the same of a disabled one, unless an update of it was let through, which may
\* switch it off and demands no confirmation.
RemovalConfirmed ==
  \A i \in Ids :
    /\ hub[i] = "removed" => [action |-> "DELETE", id |-> i] \in asked
    /\ hub[i] = "cancelled" => [action |-> "CANCEL", id |-> i] \in asked
    /\ hub[i] = "disabled" => \E a \in {"DISABLE", "UPDATE"} : [action |-> a, id |-> i] \in asked

\* What mcp/README.md promises of "every ... disable action": whatever tool disables a
\* resource, a call has named this action and this resource before.
DisableConfirmed == \A i \in Ids : hub[i] = "disabled" => [action |-> "DISABLE", id |-> i] \in asked

\* The client sends a request once: the hub makes the change of a call at most once, whether
\* the call is answered, fails or times out and its request arrives later.
OneChangePerCall == \A n \in Calls : acts[n] <= 1

\* Every tool call comes to an end for the assistant, also when the hub never answers.
EveryCallReturns == \A n \in Calls : call[n].st \in {"sent", "health"} ~> call[n].st \in {"late", "over"}
=============================================================================
