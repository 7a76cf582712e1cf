--------------------------- MODULE SessionKernel ----------------------------
(***************************************************************************)
(* The capability kernel of vitrind and the turns of its event loop that   *)
(* create, use and end authority: principal connections (principal.rs),    *)
(* the petition registry, the consent prompt and its decisions             *)
(* (consent/grab.rs, the consent round of session.rs), the grant table,    *)
(* the expiry sweep, the dead-man switch and connection teardown.          *)
(*                                                                         *)
(* vitrind is single-threaded: one callback of its event loop is one step  *)
(* here, and the loop may run any number of callbacks before the           *)
(* post-dispatch consent round.  Every callback samples the clock once;    *)
(* time passes only between steps.                                         *)
(***************************************************************************)
EXTENDS Petitions, Sequences

CONSTANTS
    Conns,              \* ConnectionId: never reused
    Asks,               \* the requests an agent may send
    ContendingVerbs,    \* verbs whose uses contend for the human's attention
    MaxRequests,        \* bound: requests for authority in a behaviour
    MaxUses,            \* bound: admitted uses recorded per request
    MaxTime             \* bound: the last instant of a behaviour

ASSUME KernelAssumption ==
    /\ Asks \subseteq Ask
    /\ MaxRequests \in Nat /\ MaxUses \in Nat /\ MaxTime \in Nat

VARIABLES
    now,                \* the clock
    policy,             \* PetitionRegistry::policy, set when the core starts
    phase,              \* Conns -> the phase of the connection's server
    identity,           \* Conns -> Option of the verified identity
    next_request,       \* the next request id
    handles,            \* request id -> GrantHandleState of a live connection
    pending,            \* request id -> pending petition
    entries,            \* grant id -> entry: the grant table
    next_id,            \* GrantTable::next_id
    dead_man_sealed,    \* GrantTable::dead_man_sealed
    prompt,             \* ConsentGrab::prompt, an Option
    decisions,          \* ConsentGrab::decisions: never more than one (DecisionBound),
                        \* so the queue is a set
    ledger              \* history: request id -> what was asked, said and done

vars == <<now, policy, phase, identity, next_request, handles, pending, entries, next_id,
          dead_man_sealed, prompt, decisions, ledger>>

conn_vars     == <<policy, phase, identity>>
petition_vars == <<next_request, handles, pending>>
grant_vars    == <<entries, next_id, dead_man_sealed>>
grab_vars     == <<prompt, decisions>>

Requests == 1 .. MaxRequests

(* Who answers a petition: the human at the screen, or nobody.             *)
ConsentPolicy == {"Interactive", "AutoApprove"}

Phases == {"absent", "Connected", "Bound", "gone"}

Handle == [connection : Conns,
           state      : {"Pending", "Resolved"},
           row        : Option(Nat)]

ArmedPrompt == [petition : Requests, deadline : Nat, answered : BOOLEAN]

Decision == [petition : Requests, choice : Choice]

(* What the petitioner is told on the wire about one request.              *)
Events == {"queued", "shown", "closed", "granted", "declined"}

(* The history of one request: who asked for what, the choice a human made *)
(* on its prompt, the uses admitted under it, the events sent for it.      *)
Record == [connection : Conns, identity : Identities, ask : Asks,
           choice : Option(Choice), uses : Nat, told : Seq(Events)]

Init ==
    /\ now = 0
    /\ policy \in ConsentPolicy
    /\ phase = [c \in Conns |-> "absent"]
    /\ identity = [c \in Conns |-> None]
    /\ next_request = 1
    /\ handles = [r \in {} |-> {}]
    /\ pending = [r \in {} |-> {}]
    /\ entries = [g \in {} |-> {}]
    /\ next_id = 1
    /\ dead_man_sealed = FALSE
    /\ prompt = None
    /\ decisions = {}
    /\ ledger = [r \in {} |-> {}]

-----------------------------------------------------------------------------
(* Delivery of a resolution (deliver of session.rs, deliver_resolution of  *)
(* principal.rs): only a bound connection whose handle still waits for its *)
(* answer takes one; anything else leaves handle and table alone.          *)

deliverable(r) ==
    /\ r \in DOMAIN handles
    /\ phase[handles[r].connection] = "Bound"
    /\ handles[r].state = "Pending"

resolved(rs, row) ==
    [r \in DOMAIN handles |->
        IF r \in rs THEN [handles[r] EXCEPT !.state = "Resolved", !.row = row]
        ELSE handles[r]]

told(log, rs, events) ==
    [r \in DOMAIN log |->
        IF r \in rs THEN [log[r] EXCEPT !.told = @ \o events] ELSE log[r]]

(* Decline every petition of rs, as the sweep and the dead-man switch do.  *)
deliver_declined(rs) ==
    LET answered == {r \in rs : deliverable(r)}
    IN  /\ handles' = resolved(answered, None)
        /\ ledger' = told(ledger, answered, <<"closed", "declined">>)

-----------------------------------------------------------------------------
(* Connections.                                                            *)

accept_principal(c) ==
    /\ phase[c] = "absent"
    /\ phase' = [phase EXCEPT ![c] = "Connected"]
    /\ UNCHANGED <<now, policy, identity, petition_vars, grant_vars, grab_vars, ledger>>

(* handle_hello with a credential the verifier binds to identity i.  Every *)
(* other outcome of a hello is fatal: close_principal.                     *)
handle_hello(c, i) ==
    /\ phase[c] = "Connected"
    /\ phase' = [phase EXCEPT ![c] = "Bound"]
    /\ identity' = [identity EXCEPT ![c] = {i}]
    /\ UNCHANGED <<now, policy, petition_vars, grant_vars, grab_vars, ledger>>

(* The rows the resolved handles of a connection name.                     *)
rows_of(c) == UNION {handles[r].row : r \in {h \in DOMAIN handles : handles[h].connection = c}}

(* close_principal and PrincipalServer::teardown: a disconnect, a          *)
(* transport fault, a protocol violation or a handshake deadline.  The     *)
(* connection's petitions are withdrawn, its rows removed, its objects     *)
(* dropped, in one turn.                                                   *)
close_principal_leak(c) ==
    /\ phase[c] \in {"Connected", "Bound"}
    /\ phase' = [phase EXCEPT ![c] = "gone"]
    /\ pending' = without(pending, petitions_of(pending, c))
    /\ handles' = without(handles, {r \in DOMAIN handles : handles[r].connection = c})
    /\ UNCHANGED <<now, policy, identity, next_request, grant_vars, grab_vars, ledger>>

close_principal(c) ==
    /\ phase[c] \in {"Connected", "Bound"}
    /\ phase' = [phase EXCEPT ![c] = "gone"]
    /\ pending' = without(pending, petitions_of(pending, c))
    /\ entries' = remove(entries, rows_of(c))
    /\ handles' = without(handles, {r \in DOMAIN handles : handles[r].connection = c})
    /\ UNCHANGED <<now, policy, identity, next_request, next_id, dead_man_sealed, grab_vars, ledger>>

-----------------------------------------------------------------------------
(* handle_request_grant.  A request the wire layer rejects (no verbs, an   *)
(* exhausted cap or rate) is fatal and is close_principal.                 *)

petitioning(c, i) ==
    /\ phase[c] = "Bound"
    /\ i \in identity[c]
    /\ next_request <= MaxRequests
    /\ now + ConsentTimeout <= MaxTime
    /\ next_request' = next_request + 1

opened_handle(c, state, row) ==
    handles' = insert(handles, next_request,
                      [connection |-> c, state |-> state, row |-> row])

recorded(c, i, ask, events) ==
    ledger' = insert(ledger, next_request,
                     [connection |-> c, identity |-> i, ask |-> ask,
                      choice |-> None, uses |-> 0, told |-> events])

admission(i, ask, available) ==
    admit(pending, i, ask, available, any_live_holder_of(entries, LayoutArrange, now))

(* The ladder refuses: the handle is born resolved, with no row.           *)
request_grant_declined(c, i, ask, available) ==
    /\ petitioning(c, i)
    /\ admission(i, ask, available) # "Admitted"
    /\ opened_handle(c, "Resolved", None)
    /\ recorded(c, i, ask, <<"declined">>)
    /\ UNCHANGED <<now, conn_vars, pending, grant_vars, grab_vars>>

(* The auto-approve policy grants exactly what was asked, at once.         *)
request_grant_auto_approved(c, i, ask, available) ==
    /\ policy = "AutoApprove"
    /\ petitioning(c, i)
    /\ admission(i, ask, available) = "Admitted"
    /\ entries' = insert(entries, next_id,
                         minted(i, ask.verbs, ask.persistence, ask.expiry, dead_man_sealed, now))
    /\ next_id' = next_id + 1
    /\ opened_handle(c, "Resolved", {next_id})
    /\ recorded(c, i, ask, <<"closed", "granted">>)
    /\ UNCHANGED <<now, conn_vars, pending, dead_man_sealed, grab_vars>>

(* The interactive policy queues the petition for a human.                 *)
request_grant_queued(c, i, ask, available) ==
    /\ policy = "Interactive"
    /\ petitioning(c, i)
    /\ admission(i, ask, available) = "Admitted"
    /\ pending' = insert(pending, next_request, opened(c, i, ask, now))
    /\ opened_handle(c, "Pending", None)
    /\ recorded(c, i, ask, <<"queued">>)
    /\ UNCHANGED <<now, conn_vars, grant_vars, grab_vars>>

-----------------------------------------------------------------------------
(* serve_facet_use and the chokepoint's enforce_use, for a use of request  *)
(* r's facet.  The grant's own verdict and the held-prompt rule are        *)
(* decided here; the realm, presence and rate gates that follow them read  *)
(* state outside this module and are the choice `clear`.  A refused use    *)
(* changes nothing.                                                        *)

use_verdict(c, i, r, verb, clear) ==
    LET checked == IF handles[r].row = None THEN "NotGranted"
                   ELSE check_use_grant(entries, CHOOSE g \in handles[r].row : TRUE,
                                        i, verb, now)
    IN  IF checked # "None" THEN checked
        ELSE IF verb \in ContendingVerbs /\ prompt_up_for(pending, i) THEN "ConsentHeld"
        ELSE IF ~clear THEN "Gated"
        ELSE "None"

enforce_use(c, i, r, verb, clear) ==
    /\ phase[c] = "Bound"
    /\ i \in identity[c]
    /\ r \in DOMAIN handles /\ handles[r].connection = c
    /\ use_verdict(c, i, r, verb, clear) = "None"
    /\ ledger[r].uses < MaxUses
    /\ \E g \in handles[r].row : entries' = commit_use(entries, g)
    /\ ledger' = [ledger EXCEPT ![r].uses = @ + 1]
    /\ UNCHANGED <<now, conn_vars, petition_vars, next_id, dead_man_sealed, grab_vars>>

enforce_use_refused(c, i, r, verb, clear) ==
    /\ phase[c] = "Bound"
    /\ i \in identity[c]
    /\ r \in DOMAIN handles /\ handles[r].connection = c
    /\ use_verdict(c, i, r, verb, clear) # "None"
    /\ UNCHANGED vars

-----------------------------------------------------------------------------
(* The human, and the post-dispatch round that acts on what they did.      *)

(* PromptContent's choices: deny, and each rung that narrows the one asked.*)
offered(requested) == {"Deny"} \cup {rung \in Rungs : narrows(rung, requested)}

(* A press and release on one of the card's buttons (ConsentGrab::commit): *)
(* at most one answer per prompt, none at or after its deadline.           *)
human_answers(p, choice) ==
    /\ p \in prompt
    /\ ~p.answered
    /\ now < p.deadline
    /\ choice \in offered(ledger[p.petition].ask.persistence)
    /\ prompt' = {[p EXCEPT !.answered = TRUE]}
    /\ decisions' = decisions \cup {[petition |-> p.petition, choice |-> choice]}
    /\ ledger' = [ledger EXCEPT ![p.petition].choice = {choice}]
    /\ UNCHANGED <<now, conn_vars, petition_vars, grant_vars>>

(* ConsentGrab::retire_stale: a prompt whose petition is over is lowered,  *)
(* with the decisions queued for it.                                       *)
retired(raised, waiting) == {p \in raised : p.petition \in DOMAIN waiting}

retired_decisions(waiting) ==
    IF retired(prompt, waiting) = prompt THEN decisions
    ELSE {d \in decisions : \A p \in prompt : d.petition # p.petition}

(* The prompt the round raises when the screen can carry one and the grab  *)
(* is free: the oldest pending petition's.                                 *)
raised_front(waiting) ==
    {[petition |-> r, deadline |-> waiting[r].deadline, answered |-> FALSE] :
        r \in front_pending(waiting)}

(* The tail of service_consent_round, from the registry the decision left. *)
settle_prompt(waiting, log, visible) ==
    LET kept  == retired(prompt, waiting)
        fresh == IF visible /\ kept = None THEN raised_front(waiting) ELSE None
        shown == {p.petition : p \in fresh}
        heard == {r \in shown : phase[waiting[r].connection] = "Bound"}
    IN  /\ prompt' = kept \cup fresh
        /\ pending' = mark_prompt_shown(waiting, shown)
        /\ ledger' = told(log, heard, <<"shown">>)

(* service_consent_round.  It drains the decisions: a prompt takes one     *)
(* answer and is replaced only here, so there is at most one.  A decision  *)
(* that no longer applies to its petition is dropped.                      *)
applies(d) == verdict(pending, d.petition, d.choice)

(* The row a granted petition is finished with.                            *)
granted_row_as_asked(p, choice) ==
    minted(p.identity, p.verbs, p.persistence, p.expiry, dead_man_sealed, now)

granted_row(p, choice) ==
    minted(p.identity, p.verbs, choice, p.expiry, dead_man_sealed, now)

consent_round_quiet(visible) ==
    /\ \A d \in retired_decisions(pending) : applies(d) \notin {"Granted", "Denied"}
    /\ decisions' = {}
    /\ settle_prompt(pending, ledger, visible)
    /\ UNCHANGED <<now, conn_vars, next_request, handles, grant_vars>>

(* The human allowed it: the row is minted as the resolution is delivered. *)
consent_round_granted(d, visible) ==
    LET r     == d.petition
        taken == {p \in {r} : deliverable(p)}
    IN  /\ d \in retired_decisions(pending)
        /\ applies(d) = "Granted"
        /\ entries' = IF taken = {} THEN entries
                      ELSE insert(entries, next_id, granted_row(pending[r], d.choice))
        /\ next_id' = IF taken = {} THEN next_id ELSE next_id + 1
        /\ handles' = resolved(taken, {next_id})
        /\ decisions' = {}
        /\ settle_prompt(without(pending, {r}),
                         told(ledger, taken, <<"closed", "granted">>), visible)
        /\ UNCHANGED <<now, conn_vars, next_request, dead_man_sealed>>

consent_round_denied(d, visible) ==
    LET r     == d.petition
        taken == {p \in {r} : deliverable(p)}
    IN  /\ d \in retired_decisions(pending)
        /\ applies(d) = "Denied"
        /\ handles' = resolved(taken, None)
        /\ decisions' = {}
        /\ settle_prompt(without(pending, {r}),
                         told(ledger, taken, <<"closed", "declined">>), visible)
        /\ UNCHANGED <<now, conn_vars, next_request, grant_vars>>

-----------------------------------------------------------------------------
(* The timers, and the dead-man switch.                                    *)

(* sweep_at: petitions past their deadline are answered, rows past theirs  *)
(* are marked.                                                             *)
sweep_at_rows_only ==
    /\ entries' = expire_due(entries, now)
    /\ UNCHANGED <<now, conn_vars, petition_vars, next_id, dead_man_sealed, grab_vars, ledger>>

sweep_at_kept ==
    LET over == expired_petitions(pending, now)
    IN  /\ deliver_declined(over)
        /\ entries' = expire_due(entries, now)
        /\ UNCHANGED <<now, conn_vars, next_request, pending, next_id, dead_man_sealed, grab_vars>>

sweep_at ==
    LET over == expired_petitions(pending, now)
    IN  /\ deliver_declined(over)
        /\ pending' = without(pending, over)
        /\ entries' = expire_due(entries, now)
        /\ UNCHANGED <<now, conn_vars, next_request, next_id, dead_man_sealed, grab_vars>>

(* apply_dead_man and deadman::apply: revoke every principal that has a    *)
(* row, seal the table, deny every pending petition.                       *)
apply_dead_man ==
    LET principals == {entries[g].principal_id : g \in DOMAIN entries}
    IN  /\ entries' = moved(entries,
                            {g \in DOMAIN entries : entries[g].principal_id \in principals},
                            Liveness, "Revoked")
        /\ dead_man_sealed' = TRUE
        /\ deliver_declined(DOMAIN pending)
        /\ pending' = without(pending, DOMAIN pending)
        /\ UNCHANGED <<now, conn_vars, next_request, next_id, grab_vars>>

tick ==
    /\ now < MaxTime
    /\ now' = now + 1
    /\ UNCHANGED <<conn_vars, petition_vars, grant_vars, grab_vars, ledger>>

-----------------------------------------------------------------------------
Agent ==
    \E c \in Conns :
        \/ accept_principal(c)
        \/ close_principal(c)
        \/ \E i \in Identities :
               \/ handle_hello(c, i)
               \/ \E ask \in Asks, available \in BOOLEAN :
                      \/ request_grant_declined(c, i, ask, available)
                      \/ request_grant_auto_approved(c, i, ask, available)
                      \/ request_grant_queued(c, i, ask, available)
               \/ \E r \in Requests, verb \in Verbs, clear \in BOOLEAN :
                      \/ enforce_use(c, i, r, verb, clear)
                      \/ enforce_use_refused(c, i, r, verb, clear)

Human ==
    \/ \E p \in prompt, choice \in Choice : human_answers(p, choice)
    \/ apply_dead_man

Loop ==
    \/ \E visible \in BOOLEAN :
           \/ consent_round_quiet(visible)
           \/ \E d \in decisions :
                  \/ consent_round_granted(d, visible)
                  \/ consent_round_denied(d, visible)
    \/ sweep_at
    \/ tick

Next == Agent \/ Human \/ Loop

Spec == Init /\ [][Next]_vars

(* The loop's own timers fire and time passes; nothing is promised about   *)
(* agents, humans or the screen.                                           *)
FairSpec == Spec /\ WF_vars(sweep_at) /\ WF_vars(tick)

-----------------------------------------------------------------------------
(* The type invariant.  DecisionBound is part of it: at most one decision  *)
(* waits, and it answers the prompt that is up.                            *)
DecisionBound ==
    /\ \A d, e \in decisions : d = e
    /\ \A d \in decisions : \E p \in prompt : p.petition = d.petition /\ p.answered

TypeOK ==
    /\ now \in 0 .. MaxTime
    /\ policy \in ConsentPolicy
    /\ phase \in [Conns -> Phases]
    /\ identity \in [Conns -> Option(Identities)]
    /\ next_request \in 1 .. MaxRequests + 1
    /\ DOMAIN ledger = 1 .. next_request - 1
    /\ \A r \in DOMAIN ledger : ledger[r] \in Record
    /\ DOMAIN handles \subseteq DOMAIN ledger
    /\ \A r \in DOMAIN handles : handles[r] \in Handle
    /\ DOMAIN pending \subseteq DOMAIN ledger
    /\ \A r \in DOMAIN pending : pending[r] \in Petition(Conns)
    /\ next_id \in Nat \ {0}
    /\ DOMAIN entries \subseteq 1 .. next_id - 1
    /\ \A g \in DOMAIN entries : entries[g] \in Entry
    /\ dead_man_sealed \in BOOLEAN
    /\ prompt \in Option(ArmedPrompt)
    /\ decisions \subseteq Decision
    /\ DecisionBound

(* No answer is ever lost on the way: a petition that waits in the         *)
(* registry always has a live, bound connection whose handle still waits   *)
(* for it, so deliver never meets a missing or already-resolved handle.    *)
PendingIsDeliverable ==
    \A r \in DOMAIN pending :
        /\ deliverable(r)
        /\ handles[r].connection = pending[r].connection
        /\ identity[handles[r].connection] = {pending[r].identity}

(* Authority lives exactly as long as its connection: every row of the     *)
(* table is named by one handle of a bound connection of the principal it  *)
(* was issued to, and a handle never names a row that is gone, nor any row *)
(* while it waits for its answer.                                          *)
RowsBelongToLiveHandles ==
    /\ \A r \in DOMAIN handles :
           /\ handles[r].row \subseteq DOMAIN entries
           /\ handles[r].state = "Pending" => handles[r].row = None
    /\ \A g \in DOMAIN entries :
           \E r \in DOMAIN handles :
               /\ handles[r].row = {g}
               /\ \A other \in DOMAIN handles \ {r} : g \notin handles[other].row
               /\ phase[handles[r].connection] = "Bound"
               /\ identity[handles[r].connection] = {entries[g].principal_id}

(* Both at once, for the whole of what a connection asked for and holds.   *)
TiedToConnections == PendingIsDeliverable /\ RowsBelongToLiveHandles

(* The dead-man switch is final: once the table is sealed no row is live,  *)
(* including rows minted afterwards for petitions granted afterwards.      *)
SealedMeansNoAuthority ==
    dead_man_sealed => \A g \in DOMAIN entries : entries[g].liveness = "Revoked"

(* layout_arrange has one holder: live rows and pending petitions that     *)
(* carry it never number more than one between them.                       *)
arranging_rows ==
    {g \in DOMAIN entries :
        LayoutArrange \in entries[g].verbs /\ state_at(entries[g], now) = "Active"}

arranging_petitions == {r \in DOMAIN pending : LayoutArrange \in pending[r].verbs}

SingleArranger ==
    /\ \A g, h \in arranging_rows : g = h
    /\ \A r, s \in arranging_petitions : r = s
    /\ arranging_rows = {} \/ arranging_petitions = {}

(* A row confers what a human allowed, and no more: exactly the verbs that *)
(* were asked for, on the rung they chose, never wider than the petition's *)
(* (under auto-approval, the petition's own), and for a `once` row one use *)
(* in its life, however uses, sweeps and refusals interleave.              *)
RowsCarryConsent ==
    \A r \in DOMAIN handles : \A g \in handles[r].row :
        /\ entries[g].verbs = ledger[r].ask.verbs
        /\ entries[g].verbs \subseteq ServedVerbs
        /\ narrows(entries[g].persistence, ledger[r].ask.persistence)
        /\ policy = "Interactive" => ledger[r].choice = {entries[g].persistence}
        /\ entries[g].persistence = "Once" =>
               /\ ledger[r].uses <= 1
               /\ ledger[r].uses = 1 => entries[g].liveness # "Active"

(* What a petitioner can hear about one request, from first to last.       *)
WireStories ==
    {<<"declined">>, <<"closed", "granted">>} \cup
    {<<"queued">> \o shown \o <<"closed", outcome>> :
        shown \in {<<>>, <<"shown">>}, outcome \in {"granted", "declined"}}

(* What it hears is one of these stories or a prefix: consent transitions  *)
(* first, then one resolution and no more.  While it waits, actuation is   *)
(* refused consent_held on its account exactly while its prompt holds the  *)
(* human's input (prompt_shown).                                           *)
WireOrder ==
    /\ \A r \in DOMAIN ledger :
           \E story \in WireStories :
               /\ Len(ledger[r].told) <= Len(story)
               /\ ledger[r].told = SubSeq(story, 1, Len(ledger[r].told))
               /\ r \in DOMAIN handles =>
                      (handles[r].state = "Resolved" <=> ledger[r].told = story)
    /\ \A r \in DOMAIN pending :
           pending[r].prompt_shown <=> \E p \in prompt : p.petition = r

-----------------------------------------------------------------------------
(* Authority that has ended never comes back: no step makes an expired,    *)
(* spent or revoked row live, revives a removed row or reuses its id.      *)
AuthorityNeverReturns ==
    [][/\ \A g \in DOMAIN entries \cap DOMAIN entries' :
             state_at(entries[g], now) # "Active" => state_at(entries'[g], now') # "Active"
       /\ \A g \in 1 .. next_id - 1 : g \in DOMAIN entries' => g \in DOMAIN entries]_vars

(* Every petition is answered or withdrawn in the end, whatever agents and *)
(* humans do, because the sweep's timer keeps firing.                      *)
PetitionsEnd == \A r \in Requests : r \in DOMAIN pending ~> r \notin DOMAIN pending

-----------------------------------------------------------------------------
(* The refinement: the rights of Authority are the rows that are live at   *)
(* this instant, whether or not the sweep has marked the others.           *)
live_rows == {g \in DOMAIN entries : state_at(entries[g], now) = "Active"}

rights == [g \in live_rows |->
              [holder |-> entries[g].principal_id, verbs |-> entries[g].verbs]]

A == INSTANCE Authority WITH issued <- next_id - 1, sealed <- dead_man_sealed

(* The event loop's interleaving of connections, petitions, prompts,       *)
(* decisions, sweeps, uses and the dead-man switch implements Authority.   *)
ImplementsAuthority == A!Spec
=============================================================================
