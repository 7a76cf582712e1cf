------------------------------ MODULE Principal ------------------------------
(***************************************************************************)
(* One principal connection's own state (principal.rs): the handshake, the *)
(* object ids a client allocates, the caps on what it may hold, and the    *)
(* bucket that paces its petitions.  What becomes of a petition is         *)
(* SessionKernel's, what a facet may do is Chokepoint's.                   *)
(*                                                                         *)
(* The clock counts parts of a second, SECOND of them to each.  Every      *)
(* violation is fatal to the connection, and nothing but a violation, a    *)
(* failed send or the end of the connection makes it Dead.                 *)
(***************************************************************************)
EXTENDS Naturals, Sequences, SequencesExt

CONSTANTS
    CLIENT_ID_MAX,
    MAX_LIVE_REALMS,
    MAX_LIVE_PETITIONS,
    MAX_LIVE_FACETS,            \* the launcher, powerbox and egress caps; layout has twice that
    PETITION_RATE_BURST,
    PETITION_REFILL_PER_SEC,
    SECOND,
    Gaps,                       \* how far past its last id a client picks the next
    Strays,                     \* ids it may send whatever it sent before
    MaxTime                     \* bound: the clock

HANDSHAKE_ID == 1

Classes == {"Realm", "Petition", "Launcher", "Layout", "Powerbox", "Egress"}

VARIABLES c, now

vars == <<c, now>>

\* PrincipalServer::new
Init ==
    /\ c = [phase     |-> "Connected",
            watermark |-> HANDSHAKE_ID,
            principal |-> {},               \* principal_id
            objects   |-> <<>>,
            count     |-> [k \in Classes |-> 0],
            tokens    |-> PETITION_RATE_BURST,
            anchor    |-> {},               \* petition_refill_anchor
            asked     |-> <<>>,             \* history: when tokens were taken
            ceiling   |-> {}]               \*   and when there was none
    /\ now = 0

\* The funnel of handle_message: any fault leaves the connection Dead.
dies(s) == [s EXCEPT !.phase = "Dead"]

cap(class) ==
    CASE class = "Realm"    -> MAX_LIVE_REALMS
      [] class = "Petition" -> MAX_LIVE_PETITIONS
      [] class = "Layout"   -> 2 * MAX_LIVE_FACETS
      [] OTHER              -> MAX_LIVE_FACETS

-----------------------------------------------------------------------------
\* An id may be taken again.
allocate_id_again(s, id) ==
    IF s.watermark >= CLIENT_ID_MAX \/ id > CLIENT_ID_MAX THEN dies(s)
    ELSE [s EXCEPT !.watermark = id]

allocate_id(s, id) ==
    IF s.watermark >= CLIENT_ID_MAX \/ id <= s.watermark \/ id > CLIENT_ID_MAX THEN dies(s)
    ELSE [s EXCEPT !.watermark = id]

\* The first bad id of several is fatal: the ones after it are not looked at.
allocate(s, ids) ==
    FoldLeft(LAMBDA t, id : IF t.phase = "Dead" THEN t ELSE allocate_id(t, id), s, ids)

\* The object an id stands for from now on; a facet names its grant.
binds(s, id, kind, grant) == [x \in DOMAIN s.objects \cup {id} |->
    IF x = id THEN [kind |-> kind, grant |-> grant] ELSE s.objects[x]]

\* The shape the get_ handlers share: the cap, the id, the object.
mint(s, class, kind, grant, id) ==
    LET t == allocate_id(s, id)
    IN  IF s.count[class] >= cap(class) THEN dies(s)
        ELSE IF t.phase = "Dead" THEN t
        ELSE [t EXCEPT !.objects = binds(t, id, kind, grant), !.count[class] = @ + 1]

-----------------------------------------------------------------------------
\* A second that was credited is credited again.
take_petition_token_again(s) ==
    LET anchor == IF s.anchor = {} THEN now ELSE CHOOSE t \in s.anchor : TRUE
        refill == ((now - anchor) \div SECOND) * PETITION_REFILL_PER_SEC
        full   == s.tokens + refill >= PETITION_RATE_BURST
        tokens == IF full THEN PETITION_RATE_BURST ELSE s.tokens + refill
    IN  IF tokens = 0 THEN dies([s EXCEPT !.anchor = {anchor}, !.ceiling = {now}])
        ELSE [s EXCEPT !.tokens = tokens - 1, !.asked = Append(@, now),
                       !.anchor = {IF refill > 0 /\ full THEN now ELSE anchor}]

\* Refill, then take.  A full bucket restarts its clock; one that is not
\* keeps the part of a second it has not credited yet.
take_petition_token(s) ==
    LET anchor == IF s.anchor = {} THEN now ELSE CHOOSE t \in s.anchor : TRUE
        secs   == (now - anchor) \div SECOND
        refill == secs * PETITION_REFILL_PER_SEC
        full   == s.tokens + refill >= PETITION_RATE_BURST
        tokens == IF full THEN PETITION_RATE_BURST ELSE s.tokens + refill
    IN  IF tokens = 0 THEN dies([s EXCEPT !.anchor = {anchor}, !.ceiling = {now}])
        ELSE [s EXCEPT !.tokens = tokens - 1, !.asked = Append(@, now),
                       !.anchor = {IF refill = 0 THEN anchor
                                   ELSE IF full THEN now ELSE anchor + secs * SECOND}]

-----------------------------------------------------------------------------
Offered == {c.watermark + g : g \in Gaps} \cup Strays

\* Five ids in a row, or with one of them astray.
OfferedRuns ==
    LET run(g) == [i \in 1 .. 5 |-> c.watermark + g + i - 1]
    IN  {run(g) : g \in Gaps}
            \cup {[run(g) EXCEPT ![k] = x] : g \in Gaps, k \in 1 .. 5, x \in Strays}

Grants == {id \in DOMAIN c.objects : c.objects[id].kind = "Grant"}

becomes(s) == c' = s /\ UNCHANGED now

\* The credential is looked at only after the version and the id.
handle_hello(id, version_ok, verified) ==
    LET t == allocate_id(c, id)
    IN  /\ c.phase = "Connected"
        /\ becomes(IF ~version_ok THEN dies(c)
                   ELSE IF t.phase = "Dead" THEN t
                   ELSE IF ~verified THEN dies(t)
                   ELSE [t EXCEPT !.phase = "Bound", !.principal = {id}])

handle_get_realm(id) ==
    /\ c.phase = "Bound"
    /\ becomes(mint(c, "Realm", "Realm", id, id))

handle_get_launcher(grant, id) == becomes(mint(c, "Launcher", "Launcher", grant, id))

handle_get_layout_focus(grant, id) == becomes(mint(c, "Layout", "LayoutFocus", grant, id))

handle_get_layout_arrange(grant, id) == becomes(mint(c, "Layout", "LayoutArrange", grant, id))

handle_get_powerbox(grant, id) == becomes(mint(c, "Powerbox", "Powerbox", grant, id))

handle_get_egress(grant, id) == becomes(mint(c, "Egress", "Egress", grant, id))

\* The cap, the token and the five ids, in that order, before anything is
\* bound; a send that then fails leaves the objects and kills the connection.
handle_request_grant(ids, sent) ==
    LET paced   == take_petition_token(c)
        t       == IF paced.phase = "Dead" THEN paced ELSE allocate(paced, ids)
        kinds   == <<"Grant", "Consent", "View", "Pointer", "Text">>
        bound   == FoldLeft(LAMBDA s, i : [s EXCEPT !.objects = binds(s, ids[i], kinds[i], ids[1])],
                            t, <<1, 2, 3, 4, 5>>)
        counted == [bound EXCEPT !.count["Petition"] = @ + 1]
    IN  /\ c.phase = "Bound"
        /\ \E id \in DOMAIN c.objects : c.objects[id].kind = "Realm"
        /\ becomes(IF c.count["Petition"] >= MAX_LIVE_PETITIONS THEN dies(c)
                   ELSE IF t.phase = "Dead" THEN t
                   ELSE IF sent THEN counted ELSE dies(counted))

\* A request on a grant handle: it may still be pending, and the row behind it
\* may be gone.
on_grant ==
    /\ c.phase = "Bound"
    /\ \E grant \in Grants, id \in Offered :
           \/ handle_get_launcher(grant, id)
           \/ handle_get_layout_focus(grant, id)
           \/ handle_get_layout_arrange(grant, id)
           \/ handle_get_powerbox(grant, id)
           \/ handle_get_egress(grant, id)

\* Anything else a client can send is a violation, before and after the
\* handshake: another object, another opcode, a body that does not decode, a
\* second hello, a request before the first.  A use whose answer cannot be
\* sent ends the same way, and so does a connection its peer or the session
\* closes (teardown).
violates == c.phase # "Dead" /\ becomes(dies(c))

tick == now < MaxTime /\ now' = now + 1 /\ UNCHANGED c

Next ==
    \/ \E id \in Offered, version_ok, verified \in BOOLEAN : handle_hello(id, version_ok, verified)
    \/ \E id \in Offered : handle_get_realm(id)
    \/ \E ids \in OfferedRuns, sent \in BOOLEAN : handle_request_grant(ids, sent)
    \/ on_grant
    \/ violates
    \/ tick

Spec == Init /\ [][Next]_vars

-----------------------------------------------------------------------------
(* The petition bucket (take_petition_token) is exactly the ceiling it     *)
(* stands for.  Over any stretch of time it lets through no more than a    *)
(* burst and the refill of the whole seconds in it; and it refuses, which  *)
(* ends the connection, only a petition that would make some stretch       *)
(* exceed that, so a client that keeps to one petition a second after its  *)
(* burst is never killed for its pace.                                     *)
PetitionCeilingIsExact ==
    LET room(s, t) == PETITION_RATE_BURST + PETITION_REFILL_PER_SEC * ((t - s) \div SECOND)
        n == Len(c.asked)
    IN  /\ \A i, j \in 1 .. n : i <= j => j - i + 1 <= room(c.asked[i], c.asked[j])
        /\ \A t \in c.ceiling : \E i \in 1 .. n : n - i + 2 > room(c.asked[i], t)

(* An id a client has allocated stands for the same object, and a facet    *)
(* for the same grant, as long as the connection lives: whatever ids it    *)
(* sends, in one request or over several, none is bound twice.             *)
ObjectsAreNotRebound ==
    [][\A id \in DOMAIN c.objects :
           id \in DOMAIN c'.objects /\ c'.objects[id] = c.objects[id]]_vars
=============================================================================
