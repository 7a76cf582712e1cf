----------------------------- MODULE Chokepoint -----------------------------
(***************************************************************************)
(* The one place a use of authority is decided (enforcement.rs), with the  *)
(* state its gates read: the token buckets and refusal mutes it keeps per  *)
(* grant, the human's physical presence per realm (input/mod.rs) and the   *)
(* attention window (attention.rs).  A use is one step: gates, bucket,     *)
(* commit, sink and refusal voicing run in one callback.                   *)
(*                                                                         *)
(* Instants are ticks.  A second is Second of them and a millisecond       *)
(* Milli, so the rounding of the retry hint is that of the code.           *)
(***************************************************************************)
EXTENDS Grants

CONSTANTS
    Wires,          \* grant wire ids; those in DOMAIN Table have a row
    Table,          \* wire id -> [entry, realm, rate]: the rows at the start
    Realms,         \* naturals: realms are searched in id order
    Kinds,          \* the UseKinds agents attempt
    Second, Milli,  \* ticks in a second, in a millisecond
    HoldWindow,     \* PHYSICAL_HOLD_WINDOW
    HoldCeiling,    \* PHYSICAL_HOLD_CEILING
    MaxUses,        \* bound: uses attempted
    MaxInputs,      \* bound: human inputs, prompts and realm deaths
    MaxTime         \* bound: the last instant

UseKinds == {"Capture", "Pointer", "Text", "Launch", "LayoutFocus",
             "LayoutArrange", "Designate", "Egress"}

ASSUME ChokepointAssumption ==
    /\ DOMAIN Table \subseteq Wires /\ Realms \subseteq Nat
    /\ \A g \in DOMAIN Table :
           /\ Table[g].entry \in Entry /\ Table[g].realm \in Realms
           /\ Table[g].rate \in Nat \ {0}
    /\ Kinds \subseteq UseKinds
    /\ Second \in Nat \ {0} /\ Milli \in Nat \ {0}
    /\ HoldWindow \in Nat /\ HoldCeiling \in Nat
    /\ MaxUses \in Nat /\ MaxInputs \in Nat /\ MaxTime \in Nat

VARIABLES
    now,
    entries,        \* GrantTable
    states,         \* Chokepoint::states, wire id -> GrantUseState
    presence,       \* PhysicalPresenceMap, realm -> PhysicalPresence
    serving,        \* realms whose shim is up
    focused,        \* the realm the output shows, an Option
    bound,          \* InputRouter::bound, an Option
    prompted,       \* identities whose consent prompt is on screen
    open,           \* AttentionSignal::open, an Option
    uses,           \* bound: uses attempted so far
    inputs,         \* bound: inputs, prompts and deaths so far
    history         \* what properties need to remember

vars == <<now, entries, states, presence, serving, focused, bound, prompted,
          open, uses, inputs, history>>

seat_vars == <<presence, serving, focused, bound>>

-----------------------------------------------------------------------------
(* UseKind and what the chokepoint asks of one.                            *)

verb(kind) ==
    CASE kind = "Capture"       -> "OBSERVE"
      [] kind = "Pointer"       -> "ACTUATE_POINTER"
      [] kind = "Text"          -> "ACTUATE_TEXT"
      [] kind = "Launch"        -> "REALM_LAUNCH"
      [] kind = "LayoutFocus"   -> "LAYOUT_FOCUS"
      [] kind = "LayoutArrange" -> "LAYOUT_ARRANGE"
      [] kind = "Designate"     -> "DESIGNATE_FILE"
      [] kind = "Egress"        -> "EGRESS"

coalescible(kind) == kind \notin {"Capture", "Launch", "Designate", "Egress"}

refused_by_a_vacant_realm(kind) == kind \notin {"Launch", "Designate", "Egress"}

is_layout(kind) == kind \in {"LayoutFocus", "LayoutArrange"}

delivered_through_the_seat(kind) == kind \in {"Pointer", "Text"}

contends_for_attention(kind) == is_layout(kind) \/ delivered_through_the_seat(kind)

(* The codes a use may still be refused with after it was admitted: the    *)
(* frame does not render, no realm is created, there is no picker.         *)
sink_failures(kind) ==
    CASE kind \in {"Capture", "Designate", "Egress"} -> {"Internal"}
      [] kind = "Launch"                             -> {"Capacity", "Internal"}
      [] OTHER                                       -> {}

sink_outcomes(kind) ==
    sink_failures(kind) \cup (IF kind = "Egress" THEN {} ELSE {"None"})

-----------------------------------------------------------------------------
(* TokenBucket.                                                            *)

div_ceil(a, b) == (a + b - 1) \div b

interval(rate) == div_ceil(Second, rate)

full(rate) == [tokens |-> rate, anchor |-> now]

credited_again(bucket, rate, at) ==
    LET credit == (at - bucket.anchor) \div interval(rate)
        total  == bucket.tokens + credit
    IN  IF credit = 0 THEN bucket
        ELSE [tokens |-> IF total >= rate THEN rate ELSE total, anchor |-> bucket.anchor]

credited(bucket, rate, at) ==
    LET credit == (at - bucket.anchor) \div interval(rate)
        total  == bucket.tokens + credit
    IN  IF credit = 0 THEN bucket
        ELSE IF total >= rate THEN [tokens |-> rate, anchor |-> at]
        ELSE [tokens |-> total, anchor |-> bucket.anchor + credit * interval(rate)]

(* TokenBucket::take at an instant: the bucket after it, and the retry     *)
(* hint in milliseconds, zero when a token was taken.                      *)
at_least(n, m) == IF m < n THEN n ELSE m

retry_hint_truncated(bucket, rate, at) ==
    at_least(1, (bucket.anchor + interval(rate) - at) \div Milli)

retry_hint(bucket, rate, at) ==
    at_least(1, div_ceil(bucket.anchor + interval(rate) - at, Milli))

take(bucket, rate, at) ==
    LET b == credited(bucket, rate, at)
    IN  IF b.tokens > 0
        THEN [bucket |-> [b EXCEPT !.tokens = @ - 1], hint |-> 0]
        ELSE [bucket |-> b, hint |-> retry_hint(b, rate, at)]

-----------------------------------------------------------------------------
(* GrantUseState and voice_refusal.                                        *)

fresh_state == [bucket |-> None, muted_pairs |-> {}, rate_muted_until |-> None]

clear_mutes_pairs(st) == [st EXCEPT !.rate_muted_until = None]
clear_mutes(st) == [st EXCEPT !.muted_pairs = {}, !.rate_muted_until = None]

suppressed(st, kind, code) ==
    /\ coalescible(kind)
    /\ IF code = "RateLimited" THEN \E until \in st.rate_muted_until : now < until
       ELSE <<verb(kind), code>> \in st.muted_pairs

muted(st, kind, code, hint) ==
    IF ~coalescible(kind) \/ suppressed(st, kind, code) THEN st
    ELSE IF code = "RateLimited"
         THEN [st EXCEPT !.rate_muted_until = {now + at_least(1, hint) * Milli}]
         ELSE [st EXCEPT !.muted_pairs = @ \cup {<<verb(kind), code>>}]

-----------------------------------------------------------------------------
(* The human's seat: PhysicalPresence, the router's binding, the output.   *)

absent == [held_buttons |-> 0, last_activity |-> None]

within(p, window, at) == \E t \in p.last_activity : at - t < window

(* PhysicalPresence::note.  A hold nobody touched for the ceiling is       *)
(* dropped before the event counts as activity.                            *)
note_keeping(p, input) ==
    [held_buttons |-> CASE input = "ButtonPress"   -> p.held_buttons + 1
                        [] input = "ButtonRelease" -> at_least(1, p.held_buttons) - 1
                        [] OTHER                   -> p.held_buttons,
     last_activity |-> {now}]

note(p, input) ==
    LET held == IF p.last_activity # None /\ ~within(p, HoldCeiling, now)
                THEN 0 ELSE p.held_buttons
    IN  [held_buttons |-> CASE input = "ButtonPress"   -> held + 1
                            [] input = "ButtonRelease" -> at_least(1, held) - 1
                            [] OTHER                   -> held,
         last_activity |-> {now}]

owns_target(realms) ==
    \E r \in realms :
        \/ presence[r].held_buttons > 0 /\ within(presence[r], HoldCeiling, now)
        \/ within(presence[r], HoldWindow, now)

lowest(realms) == {r \in realms : \A q \in realms : r <= q}

(* The focused realm while it serves, else the first that does.            *)
seat_target == IF focused \cap serving # {} THEN focused ELSE lowest(serving)

(* InputRouter::bind_to: the realm that loses the binding is forgotten.    *)
bind_to(target) ==
    [r \in Realms |-> IF r \in bound \ target THEN absent ELSE presence[r]]

-----------------------------------------------------------------------------
(* Chokepoint::enforce_use, up to the bucket.                              *)

exempt(i, kind) ==
    /\ is_layout(kind)
    /\ \E w \in open : now - w.at < Second /\ i \in w.delivered_to

preempted_by(g, kind) ==
    IF delivered_through_the_seat(kind) THEN {Table[g].realm} ELSE seat_target

preempted(g, kind) == contends_for_attention(kind) /\ owns_target(preempted_by(g, kind))

(* The code of the first gate that refuses, "None" when all pass.  `view'  *)
(* says that the realm has a surface to show or act on.                    *)
gates(g, i, kind, view) ==
    LET checked == check_use_grant(entries, g, i, verb(kind), now)
    IN  IF checked # "None" THEN checked
        ELSE IF refused_by_a_vacant_realm(kind) /\ ~(view /\ Table[g].realm \in serving)
             THEN "NoSurface"
        ELSE IF contends_for_attention(kind) /\ i \in prompted THEN "ConsentHeld"
        ELSE IF preempted(g, kind) /\ ~exempt(i, kind) THEN "Preempted"
        ELSE "None"

taken(g) ==
    LET st == states[g]
        b  == IF st.bucket = None THEN full(Table[g].rate)
              ELSE CHOOSE x \in st.bucket : TRUE
    IN  take(b, Table[g].rate, now)

(* What the wire hears of a refusal, and what the chokepoint remembers.    *)
voice_refusal(g, st, kind, code, hint) ==
    /\ states' = [states EXCEPT ![g] = muted(st, kind, code, hint)]
    /\ history' =
         [history EXCEPT
            !.last = {[grant |-> g, kind |-> kind, code |-> code,
                       voiced |-> ~suppressed(st, kind, code)]},
            !.heard[g] = IF suppressed(st, kind, code) THEN @
                         ELSE @ \cup {<<verb(kind), code>>}]

(* A handle lives on the connection of the principal its row was minted    *)
(* for; a wire id that never got a row may be anyone's.                    *)
attempting(g, i) ==
    /\ uses < MaxUses /\ uses' = uses + 1
    /\ g \in DOMAIN Table => i = Table[g].entry.principal_id

(* A use one of the gates refuses.                                         *)
enforce_use_refused(g, i, kind, view) ==
    /\ attempting(g, i)
    /\ gates(g, i, kind, view) # "None"
    /\ voice_refusal(g, states[g], kind, gates(g, i, kind, view), 0)
    /\ UNCHANGED <<now, entries, seat_vars, prompted, open, inputs>>

(* A use the bucket refuses.  An exemption it held is not spent.           *)
enforce_use_rate_limited(g, i, kind, view) ==
    /\ attempting(g, i)
    /\ gates(g, i, kind, view) = "None"
    /\ taken(g).hint > 0
    /\ voice_refusal(g, [states[g] EXCEPT !.bucket = {taken(g).bucket}], kind,
                     "RateLimited", taken(g).hint)
    /\ UNCHANGED <<now, entries, seat_vars, prompted, open, inputs>>

(* An admitted use: commit, claim, clear_mutes, then the sink.  A sink     *)
(* that fails is voiced, and the use stays spent.                          *)
claimed_never(g, kind) == open
claimed(g, kind) == IF preempted(g, kind) THEN {} ELSE open

admitted_state(g) == clear_mutes([states[g] EXCEPT !.bucket = {taken(g).bucket}])

admitted_history(g, kind, code) ==
    [history EXCEPT
        !.last = {[grant |-> g, kind |-> kind, code |-> code, voiced |-> TRUE]},
        !.heard[g] = IF code = "None" THEN {} ELSE {<<verb(kind), code>>},
        !.taken[g] = @ + 1,
        !.born[g] = IF states[g].bucket = None THEN now ELSE @,
        !.exempted = IF preempted(g, kind) THEN @ + 1 ELSE @]

(* apply_layout for a focus act: the output and the binding move together. *)
moves_focus(g, kind) ==
    /\ kind = "LayoutFocus"
    /\ Table[g].realm \in serving
    /\ focused # {Table[g].realm}

enforce_use(g, i, kind, view, code) ==
    /\ attempting(g, i)
    /\ gates(g, i, kind, view) = "None"
    /\ taken(g).hint = 0
    /\ code \in sink_outcomes(kind)
    /\ entries' = commit_use(entries, g)
    /\ open' = claimed(g, kind)
    /\ states' = [states EXCEPT ![g] = admitted_state(g)]
    /\ history' = admitted_history(g, kind, code)
    /\ IF moves_focus(g, kind)
       THEN /\ presence' = bind_to({Table[g].realm})
            /\ bound' = {Table[g].realm} /\ focused' = {Table[g].realm}
       ELSE UNCHANGED <<presence, bound, focused>>
    /\ UNCHANGED <<now, serving, prompted, inputs>>

-----------------------------------------------------------------------------
(* The human, the session and the clock.                                   *)

(* route_physical_turn, up to the window an attention press opens.         *)
turn_seat(input) ==
    LET target == IF seat_target = {} THEN bound ELSE seat_target
        kept   == bind_to(target)
    IN  /\ inputs < MaxInputs /\ inputs' = inputs + 1
        /\ bound' = target
        /\ presence' = [r \in Realms |-> IF r \in target THEN note(kept[r], input) ELSE kept[r]]

hands(input, presses) ==
    [history EXCEPT
        !.presses = @ + presses,
        !.stale = [r \in Realms |-> IF r \in bound' /\ (input = "ButtonPress" \/ presence'[r] = absent)
                                    THEN FALSE ELSE @[r]]]

route_physical_turn(input) ==
    /\ input \in {"Motion", "ButtonPress", "ButtonRelease"}
    /\ turn_seat(input)
    /\ history' = hands(input, 0)
    /\ UNCHANGED <<now, entries, states, serving, focused, prompted, open, uses>>

(* open_attention_window: only holders of a layout verb who were told of   *)
(* the press may use the window; with nobody told none opens.              *)
layout_holders ==
    {i \in Identities : \E v \in {"LAYOUT_FOCUS", "LAYOUT_ARRANGE"} :
                             holds_verb(entries, i, v, now)}

open_attention_window(delivered) ==
    /\ delivered \subseteq layout_holders
    /\ turn_seat("Key")
    /\ open' = IF delivered = {} THEN open ELSE {[at |-> now, delivered_to |-> delivered]}
    /\ history' = hands("Key", IF delivered = {} THEN 0 ELSE 1)
    /\ UNCHANGED <<now, entries, states, serving, focused, prompted, uses>>

(* A consent prompt for an identity goes up or comes down.                 *)
prompt_changes(i) ==
    /\ inputs < MaxInputs /\ inputs' = inputs + 1
    /\ prompted' = IF i \in prompted THEN prompted \ {i} ELSE prompted \cup {i}
    /\ UNCHANGED <<now, entries, states, seat_vars, open, uses, history>>

(* deadman::apply, the part that reaches the chokepoint.                   *)
apply_dead_man ==
    /\ entries' = moved(entries, DOMAIN entries, Liveness, "Revoked")
    /\ open' = {}
    /\ UNCHANGED <<now, states, seat_vars, prompted, uses, inputs, history>>

(* A realm's shim dies: InputRouter::reset_for, rebind_output_after_death. *)
realm_dies(r) ==
    /\ inputs < MaxInputs /\ inputs' = inputs + 1
    /\ r \in serving
    /\ serving' = serving \ {r}
    /\ presence' = [presence EXCEPT ![r] = absent]
    /\ bound' = bound \ {r}
    /\ focused' = IF focused = {r} THEN lowest(serving') ELSE focused
    /\ history' = [history EXCEPT !.stale[r] = FALSE]
    /\ UNCHANGED <<now, entries, states, prompted, open, uses>>

tick ==
    /\ now < MaxTime /\ now' = now + 1
    /\ history' = [history EXCEPT !.stale =
            [r \in Realms |->
                @[r] \/ (/\ presence[r].held_buttons > 0
                         /\ ~within(presence[r], HoldCeiling, now'))]]
    /\ UNCHANGED <<entries, states, seat_vars, prompted, open, uses, inputs>>

Init ==
    /\ now = 0
    /\ entries = [g \in DOMAIN Table |-> Table[g].entry]
    /\ states = [g \in Wires |-> fresh_state]
    /\ presence = [r \in Realms |-> absent]
    /\ serving = Realms /\ focused = lowest(Realms) /\ bound = {}
    /\ prompted = {} /\ open = None
    /\ uses = 0 /\ inputs = 0
    /\ history = [last |-> {}, heard |-> [g \in Wires |-> {}],
                  taken |-> [g \in Wires |-> 0], born |-> [g \in Wires |-> 0],
                  presses |-> 0, exempted |-> 0, stale |-> [r \in Realms |-> FALSE]]

Agent(grants, kinds) ==
    \E g \in grants, i \in Identities, kind \in kinds, view \in BOOLEAN :
        \/ enforce_use_refused(g, i, kind, view)
        \/ enforce_use_rate_limited(g, i, kind, view)
        \/ \E code \in {"None", "Internal", "Capacity"} : enforce_use(g, i, kind, view, code)

World ==
    \/ \E input \in {"Motion", "ButtonPress", "ButtonRelease"} : route_physical_turn(input)
    \/ \E delivered \in SUBSET Identities : open_attention_window(delivered)
    \/ \E i \in Identities : prompt_changes(i)
    \/ apply_dead_man
    \/ \E r \in Realms : realm_dies(r)
    \/ tick

Next == Agent(Wires, Kinds) \/ World

Spec == Init /\ [][Next]_vars

-----------------------------------------------------------------------------
(***************************************************************************)
(* A grant never admits more uses than a burst of one second's worth and   *)
(* its rate for the time since it was first used, to the fraction: an      *)
(* interval is rounded up (interval_ns), and refilling moves the anchor by *)
(* whole intervals and drops what a full bucket cannot hold                *)
(* (TokenBucket::take).                                                    *)
(***************************************************************************)
RateIsBounded ==
    \A g \in DOMAIN Table :
        states[g].bucket # None =>
            Second * history.taken[g]
                <= Table[g].rate * (Second + (now - history.born[g]))

(***************************************************************************)
(* The retry hint is honest: at the instant a muted agent was told to come *)
(* back, and any later one, the bucket has a token for it (take rounds the *)
(* wait up; an admission in between clears the mute).                      *)
(***************************************************************************)
RetryHintIsHonest ==
    \A g \in DOMAIN Table : \A until \in states[g].rate_muted_until :
        \A b \in states[g].bucket :
            take(b, Table[g].rate, at_least(until, now)).hint = 0

(***************************************************************************)
(* A held pointer cannot flood its own wire, nor be refused unheard:       *)
(* between two admitted uses of a grant a refusal is kept silent only if   *)
(* the agent was told the same verb and code, or that the grant is out of  *)
(* tokens, whatever the verb it was told that for; and a coalescible one   *)
(* other than a rate limit is told once (voice_refusal and clear_mutes).   *)
(***************************************************************************)
RefusalsAreHeardOnce ==
    [][uses' # uses => \A e \in history'.last :
          LET said == <<verb(e.kind), e.code>>
          IN  /\ ~e.voiced =>
                     \E p \in history'.heard[e.grant] :
                         p = said \/ (e.code = "RateLimited" /\ p[2] = "RateLimited")
              /\ (/\ e.voiced /\ coalescible(e.kind)
                  /\ e.code \notin {"None", "RateLimited"})
                     => said \notin history.heard[e.grant]]_vars

(***************************************************************************)
(* One press of the attention key admits at most one layout act over the   *)
(* human's hand, whoever of those told of it comes first; and the window   *)
(* is not spent in vain: it closes only when such an act is admitted, when *)
(* a later press replaces it, or at the dead-man switch, and a rate-       *)
(* limited act leaves it open (claim).                                     *)
(***************************************************************************)
WindowBuysOneAct ==
    [][/\ history'.exempted <= history'.presses
       /\ open # {} /\ open' # open =>
              \/ history'.exempted = history.exempted + 1
              \/ history'.presses = history.presses + 1
              \/ \A g \in DOMAIN entries' : entries'[g].liveness = "Revoked"]_vars

(***************************************************************************)
(* The hand that preempts an agent is there: only the realm the router is  *)
(* bound to is physically owned, since a focus change or a death forgets   *)
(* the realm it leaves, and a button whose release never arrived owns it   *)
(* no longer than the ceiling, whatever activity comes later (bind_to and  *)
(* note).                                                                  *)
(***************************************************************************)
OwnershipIsCurrent ==
    \A r \in Realms :
        /\ presence[r] # absent => r \in bound
        /\ history.stale[r] /\ owns_target({r}) => within(presence[r], HoldWindow, now)
=============================================================================
