------------------------ MODULE SessionKernelProofs -------------------------
(***************************************************************************)
(* The safety of SessionKernel, for every set of connections, identities,  *)
(* verbs and requests, every policy and every value of the bounds: type    *)
(* correctness, one lemma per helper and one per group of actions; how a   *)
(* step may change the grant table and the registry, and what follows for  *)
(* the dead-man switch, for authority that ended, for layout_arrange and   *)
(* for the refinement of Authority.                                        *)
(***************************************************************************)
EXTENDS SessionKernel, TLAPS

(* What a petitioner has been told is a sequence: joined, compared, taken  *)
(* whole.                                                                  *)
LEMMA JoinedSequences ==
    ASSUME NEW S, NEW s \in Seq(S), NEW t \in Seq(S)
    PROVE  /\ s \o t \in Seq(S)
           /\ Len(s \o t) = Len(s) + Len(t)
           /\ \A i \in 1 .. Len(s) + Len(t) :
                 (s \o t)[i] = IF i <= Len(s) THEN s[i] ELSE t[i - Len(s)]
OBVIOUS

LEMMA SameSequence ==
    ASSUME NEW S, NEW s \in Seq(S), NEW t \in Seq(S), Len(s) = Len(t),
           \A i \in 1 .. Len(s) : s[i] = t[i]
    PROVE  s = t
OBVIOUS

LEMMA WholeSequence ==
    ASSUME NEW S, NEW s \in Seq(S)
    PROVE  SubSeq(s, 1, Len(s)) = s /\ Len(s) \in Nat
<1>1. /\ SubSeq(s, 1, Len(s)) \in Seq(S) /\ Len(SubSeq(s, 1, Len(s))) = Len(s)
      /\ Len(s) \in Nat
  OBVIOUS
<1>2. \A i \in 1 .. Len(s) : SubSeq(s, 1, Len(s))[i] = s[i]
  OBVIOUS
<1> QED BY <1>1, <1>2, SameSequence

(* A row minted from well-typed parts is a row.                            *)
LEMMA MintedType ==
    ASSUME NEW i \in Identities, NEW verbs \in SUBSET Verbs, NEW rung \in Rungs,
           NEW expiry \in Option(Nat), NEW sealed \in BOOLEAN, NEW t \in Nat
    PROVE  minted(i, verbs, rung, expiry, sealed, t) \in Entry
<1>1. {t + ms : ms \in expiry} \in Option(Nat)
  BY DEF Option
<1>2. (IF sealed THEN "Revoked" ELSE "Active") \in Liveness
  BY DEF Liveness
<1> QED BY <1>1, <1>2 DEF minted, Entry

(* Moving rows between livenesses keeps the ids and the types.             *)
LEMMA MovedType ==
    ASSUME NEW tbl, \A g \in DOMAIN tbl : tbl[g] \in Entry,
           NEW which, NEW from, NEW to \in Liveness
    PROVE  /\ DOMAIN moved(tbl, which, from, to) = DOMAIN tbl
           /\ \A g \in DOMAIN tbl : moved(tbl, which, from, to)[g] \in Entry
BY SMTT(20) DEF moved, Entry

(* Answering handles keeps their ids, connections and types.               *)
LEMMA ResolvedType ==
    ASSUME \A r \in DOMAIN handles : handles[r] \in Handle,
           NEW rs, NEW row \in Option(Nat)
    PROVE  /\ DOMAIN resolved(rs, row) = DOMAIN handles
           /\ \A r \in DOMAIN handles :
                 /\ resolved(rs, row)[r] \in Handle
                 /\ resolved(rs, row)[r].connection = handles[r].connection
BY ZenonT(20) DEF resolved, Handle

(* Telling petitioners more keeps the record's ids and types.              *)
LEMMA ToldType ==
    ASSUME NEW log, \A r \in DOMAIN log : log[r] \in Record,
           NEW rs, NEW events \in Seq(Events)
    PROVE  /\ DOMAIN told(log, rs, events) = DOMAIN log
           /\ \A r \in DOMAIN log : told(log, rs, events)[r] \in Record
<1>1. ASSUME NEW r \in DOMAIN log
      PROVE  /\ log[r].told \o events \in Seq(Events)
             /\ told(log, rs, events)[r] =
                   IF r \in rs THEN [log[r] EXCEPT !.told = log[r].told \o events] ELSE log[r]
  <2>1. log[r].told \in Seq(Events)
    BY <1>1 DEF Record
  <2>2. log[r].told \o events \in Seq(Events)
    BY <2>1, JoinedSequences
  <2> QED BY <2>2 DEF told
<1>2. ASSUME NEW r \in DOMAIN log PROVE told(log, rs, events)[r] \in Record
  <2> log[r] \in Record
    OBVIOUS
  <2> QED BY <1>1, ZenonT(20) DEF Record
<1> QED BY <1>2 DEF told

-----------------------------------------------------------------------------
(* Recording a request: what the three outcomes of handle_request_grant    *)
(* have in common keeps the types.                                         *)
LEMMA PetitioningType ==
    ASSUME TypeOK, NEW c \in Conns, NEW i \in Identities, NEW ask \in Asks,
           petitioning(c, i), NEW events \in Seq(Events), recorded(c, i, ask, events),
           NEW state \in {"Pending", "Resolved"}, NEW row \in Option(Nat),
           opened_handle(c, state, row)
    PROVE  /\ next_request' \in 1 .. MaxRequests + 1
           /\ DOMAIN ledger' = 1 .. next_request' - 1
           /\ \A r \in DOMAIN ledger' : ledger'[r] \in Record
           /\ DOMAIN handles' \subseteq DOMAIN ledger'
           /\ \A r \in DOMAIN handles' : handles'[r] \in Handle
           /\ next_request \in DOMAIN ledger'
           /\ DOMAIN ledger \subseteq DOMAIN ledger'
<1> DEFINE rec == [connection |-> c, identity |-> i, ask |-> ask,
                   choice |-> None, uses |-> 0, told |-> events]
           hnd == [connection |-> c, state |-> state, row |-> row]
<1>1. next_request \in 1 .. MaxRequests /\ next_request' = next_request + 1
  BY KernelAssumption DEF TypeOK, petitioning
<1>2. rec \in Record
  BY DEF Record, Option, None
<1>3. /\ DOMAIN ledger' = DOMAIN ledger \cup {next_request}
      /\ \A r \in DOMAIN ledger' : ledger'[r] = IF r = next_request THEN rec ELSE ledger[r]
  BY DEF recorded, insert
<1>4. hnd \in Handle
  BY DEF Handle
<1>5. /\ DOMAIN handles' = DOMAIN handles \cup {next_request}
      /\ \A r \in DOMAIN handles' : handles'[r] = IF r = next_request THEN hnd ELSE handles[r]
  BY DEF opened_handle, insert
<1>6. DOMAIN ledger' = 1 .. next_request' - 1
  BY <1>1, <1>3, KernelAssumption DEF TypeOK
<1> HIDE DEF rec, hnd
<1>7. \A r \in DOMAIN ledger' : ledger'[r] \in Record
  BY <1>2, <1>3 DEF TypeOK
<1>8. \A r \in DOMAIN handles' : handles'[r] \in Handle
  BY <1>4, <1>5 DEF TypeOK
<1> QED
  BY <1>1, <1>3, <1>5, <1>6, <1>7, <1>8, KernelAssumption DEF TypeOK

(* The round's raise keeps prompt, registry and record well typed.         *)
LEMMA SettleType ==
    ASSUME TypeOK, NEW waiting, NEW log, NEW visible \in BOOLEAN,
           DOMAIN waiting \subseteq DOMAIN pending,
           \A r \in DOMAIN waiting : waiting[r] \in Petition(Conns),
           \A r \in DOMAIN log : log[r] \in Record,
           settle_prompt(waiting, log, visible)
    PROVE  /\ prompt' \in Option(ArmedPrompt)
           /\ DOMAIN pending' = DOMAIN waiting
           /\ \A r \in DOMAIN pending' : pending'[r] \in Petition(Conns)
           /\ DOMAIN ledger' = DOMAIN log
           /\ \A r \in DOMAIN ledger' : ledger'[r] \in Record
<1> DEFINE kept  == retired(prompt, waiting)
           fresh == IF visible /\ kept = None THEN raised_front(waiting) ELSE None
           shown == {p.petition : p \in fresh}
           heard == {r \in shown : phase[waiting[r].connection] = "Bound"}
<1>1. /\ prompt' = kept \cup fresh
      /\ pending' = mark_prompt_shown(waiting, shown)
      /\ ledger' = told(log, heard, <<"shown">>)
  BY DEF settle_prompt
<1>2. kept \in Option(ArmedPrompt)
  BY DEF TypeOK, retired, Option
<1>3. DOMAIN waiting \subseteq Requests
  BY KernelAssumption DEF TypeOK, Requests
<1>4. raised_front(waiting) \in Option(ArmedPrompt)
  <2>1. \A r \in front_pending(waiting) : r \in Requests /\ waiting[r].deadline \in Nat
    BY <1>3 DEF front_pending, Petition
  <2>2. \A r, s \in front_pending(waiting) : r = s
    BY <1>3, KernelAssumption DEF front_pending, Requests
  <2>3. \A p \in raised_front(waiting) : p \in ArmedPrompt
    <3> SUFFICES ASSUME NEW r \in front_pending(waiting)
                 PROVE  [petition |-> r, deadline |-> waiting[r].deadline,
                         answered |-> FALSE] \in ArmedPrompt
      BY DEF raised_front
    <3> QED BY <2>1 DEF ArmedPrompt
  <2>4. \A p, q \in raised_front(waiting) : p = q
    BY <2>2, ZenonT(20) DEF raised_front
  <2> QED BY <2>3, <2>4 DEF Option
<1>5. prompt' \in Option(ArmedPrompt)
  BY <1>1, <1>2, <1>4 DEF Option, None
<1>6. <<"shown">> \in Seq(Events)
  BY DEF Events
<1> HIDE DEF shown, heard
<1>7. /\ DOMAIN pending' = DOMAIN waiting
      /\ \A r \in DOMAIN pending' : pending'[r] \in Petition(Conns)
  BY <1>1, ZenonT(20) DEF Petition, mark_prompt_shown
<1>8. /\ DOMAIN ledger' = DOMAIN log
      /\ \A r \in DOMAIN ledger' : ledger'[r] \in Record
  BY <1>1, <1>6, ToldType
<1> QED BY <1>5, <1>7, <1>8

(* Declining petitions keeps handles and records well typed.               *)
LEMMA DeclinedType ==
    ASSUME TypeOK, NEW rs, deliver_declined(rs)
    PROVE  /\ DOMAIN handles' = DOMAIN handles
           /\ \A r \in DOMAIN handles' : handles'[r] \in Handle
           /\ DOMAIN ledger' = DOMAIN ledger
           /\ \A r \in DOMAIN ledger' : ledger'[r] \in Record
<1>1. None \in Option(Nat)
  BY DEF None, Option
<1>2. <<"closed", "declined">> \in Seq(Events)
  BY DEF Events
<1> QED BY <1>1, <1>2, ResolvedType, ToldType, ZenonT(20) DEF deliver_declined, TypeOK

(* TypeOK is inductive: initially, and over every callback of the loop.    *)
LEMMA TypeInit == Init => TypeOK
<1> SUFFICES ASSUME Init PROVE TypeOK
  OBVIOUS
<1>1. /\ DOMAIN ledger = {} /\ DOMAIN handles = {}
      /\ DOMAIN pending = {} /\ DOMAIN entries = {}
      /\ next_request = 1 /\ next_id = 1 /\ dead_man_sealed = FALSE
  BY DEF Init
<1>2. now \in 0 .. MaxTime /\ phase \in [Conns -> Phases] /\ 1 .. 1 - 1 = {}
  BY KernelAssumption DEF Init, Phases
<1>3. identity \in [Conns -> Option(Identities)] /\ prompt \in Option(ArmedPrompt)
  BY DEF Init, Option, None
<1>4. decisions \subseteq Decision /\ DecisionBound
  BY DEF Init, DecisionBound
<1>5. /\ next_request \in 1 .. MaxRequests + 1 /\ DOMAIN ledger = 1 .. next_request - 1
      /\ next_id \in Nat \ {0}
  BY <1>1, <1>2, KernelAssumption
<1>6. dead_man_sealed \in BOOLEAN
  BY <1>1, ZenonT(20)
<1>7. policy \in ConsentPolicy
  BY DEF Init
<1> QED BY <1>1, <1>2, <1>3, <1>4, <1>5, <1>6, <1>7 DEF TypeOK

LEMMA TypeConns ==
    ASSUME TypeOK, NEW c \in Conns,
           \/ accept_principal(c)
           \/ \E i \in Identities : handle_hello(c, i)
           \/ close_principal(c)
    PROVE  TypeOK'
<1>1. CASE accept_principal(c)
  BY <1>1 DEF TypeOK, accept_principal, petition_vars, grant_vars, grab_vars, Phases,
              DecisionBound
<1>2. ASSUME NEW i \in Identities, handle_hello(c, i) PROVE TypeOK'
  <2>1. {i} \in Option(Identities)
    BY DEF Option
  <2> QED
    BY <1>2, <2>1 DEF TypeOK, handle_hello, petition_vars, grant_vars, grab_vars, Phases,
                      DecisionBound
<1>3. CASE close_principal(c)
  <2>1. /\ \A r \in DOMAIN pending' : r \in DOMAIN pending /\ pending'[r] = pending[r]
        /\ \A r \in DOMAIN handles' : r \in DOMAIN handles /\ handles'[r] = handles[r]
        /\ \A g \in DOMAIN entries' : g \in DOMAIN entries /\ entries'[g] = entries[g]
    BY <1>3 DEF close_principal, without, remove
  <2> QED
    BY <1>3, <2>1 DEF TypeOK, close_principal, grab_vars, Phases, DecisionBound
<1> QED BY <1>1, <1>2, <1>3

LEMMA TypeRequests ==
    ASSUME TypeOK, NEW c \in Conns, NEW i \in Identities, NEW ask \in Asks,
           NEW available \in BOOLEAN,
           \/ request_grant_declined(c, i, ask, available)
           \/ request_grant_auto_approved(c, i, ask, available)
           \/ request_grant_queued(c, i, ask, available)
    PROVE  TypeOK'
<1>0. /\ ask \in Ask /\ now \in Nat
      /\ None \in Option(Nat) /\ {next_id} \in Option(Nat)
      /\ <<"declined">> \in Seq(Events) /\ <<"closed", "granted">> \in Seq(Events)
      /\ <<"queued">> \in Seq(Events)
  BY KernelAssumption DEF TypeOK, None, Option, Events
<1>1. CASE request_grant_declined(c, i, ask, available)
  <2>1. petitioning(c, i) /\ recorded(c, i, ask, <<"declined">>)
        /\ opened_handle(c, "Resolved", None)
    BY <1>1 DEF request_grant_declined
  <2>2. /\ next_request' \in 1 .. MaxRequests + 1
        /\ DOMAIN ledger' = 1 .. next_request' - 1
        /\ \A r \in DOMAIN ledger' : ledger'[r] \in Record
        /\ DOMAIN handles' \subseteq DOMAIN ledger'
        /\ \A r \in DOMAIN handles' : handles'[r] \in Handle
        /\ DOMAIN ledger \subseteq DOMAIN ledger'
    BY <1>0, <2>1, PetitioningType, ZenonT(20)
  <2> QED
    BY <1>1, <2>2, Zenon DEF TypeOK, request_grant_declined, conn_vars, grant_vars, grab_vars,
                      DecisionBound
<1>2. CASE request_grant_auto_approved(c, i, ask, available)
  <2> DEFINE row == minted(i, ask.verbs, ask.persistence, ask.expiry, dead_man_sealed, now)
  <2>1. petitioning(c, i) /\ recorded(c, i, ask, <<"closed", "granted">>)
        /\ opened_handle(c, "Resolved", {next_id})
    BY <1>2 DEF request_grant_auto_approved
  <2>2. /\ next_request' \in 1 .. MaxRequests + 1
        /\ DOMAIN ledger' = 1 .. next_request' - 1
        /\ \A r \in DOMAIN ledger' : ledger'[r] \in Record
        /\ DOMAIN handles' \subseteq DOMAIN ledger'
        /\ \A r \in DOMAIN handles' : handles'[r] \in Handle
        /\ DOMAIN ledger \subseteq DOMAIN ledger'
    BY <1>0, <2>1, PetitioningType, ZenonT(20)
  <2>3. ask.persistence \in Rungs
    BY <1>2 DEF request_grant_auto_approved, admission, admit
  <2>4. row \in Entry
    BY <1>0, <2>3, MintedType DEF Ask, TypeOK
  <2>5. /\ DOMAIN entries' = DOMAIN entries \cup {next_id}
        /\ \A g \in DOMAIN entries' : entries'[g] = IF g = next_id THEN row ELSE entries[g]
        /\ next_id' = next_id + 1
    BY <1>2 DEF request_grant_auto_approved, insert
  <2> HIDE DEF row
  <2>6. /\ next_id' \in Nat \ {0}
        /\ DOMAIN entries' \subseteq 1 .. next_id' - 1
        /\ \A g \in DOMAIN entries' : entries'[g] \in Entry
    BY <2>4, <2>5 DEF TypeOK
  <2> QED
    BY <1>2, <2>2, <2>6, ZenonT(20) DEF TypeOK, request_grant_auto_approved, conn_vars, grab_vars,
                            DecisionBound
<1>3. CASE request_grant_queued(c, i, ask, available)
  <2>1. petitioning(c, i) /\ recorded(c, i, ask, <<"queued">>)
        /\ opened_handle(c, "Pending", None)
    BY <1>3 DEF request_grant_queued
  <2>2. /\ next_request' \in 1 .. MaxRequests + 1
        /\ DOMAIN ledger' = 1 .. next_request' - 1
        /\ \A r \in DOMAIN ledger' : ledger'[r] \in Record
        /\ DOMAIN handles' \subseteq DOMAIN ledger'
        /\ \A r \in DOMAIN handles' : handles'[r] \in Handle
        /\ DOMAIN ledger \subseteq DOMAIN ledger'
        /\ next_request \in DOMAIN ledger'
    BY <1>0, <2>1, PetitioningType, ZenonT(20)
  <2>3. ask.persistence \in Rungs
    BY <1>3 DEF request_grant_queued, admission, admit
  <2>4. opened(c, i, ask, now) \in Petition(Conns)
    BY <1>0, <2>3, ConfigAssumption DEF opened, Petition, Ask
  <2>5. /\ DOMAIN pending' = DOMAIN pending \cup {next_request}
        /\ \A r \in DOMAIN pending' :
              pending'[r] = IF r = next_request THEN opened(c, i, ask, now) ELSE pending[r]
    BY <1>3 DEF request_grant_queued, insert
  <2>6. /\ DOMAIN pending' \subseteq DOMAIN ledger'
        /\ \A r \in DOMAIN pending' : pending'[r] \in Petition(Conns)
    BY <2>2, <2>4, <2>5 DEF TypeOK
  <2> QED
    BY <1>3, <2>2, <2>6 DEF TypeOK, request_grant_queued, conn_vars, grant_vars, grab_vars,
                            DecisionBound
<1> QED BY <1>1, <1>2, <1>3

LEMMA TypeUses ==
    ASSUME TypeOK, NEW c \in Conns, NEW i \in Identities, NEW r \in Requests,
           NEW verb \in Verbs, NEW clear \in BOOLEAN,
           enforce_use(c, i, r, verb, clear) \/ enforce_use_refused(c, i, r, verb, clear)
    PROVE  TypeOK'
<1>1. CASE enforce_use(c, i, r, verb, clear)
  <2>1. PICK g \in handles[r].row : entries' = commit_use(entries, g)
    BY <1>1 DEF enforce_use
  <2>2. DOMAIN entries' = DOMAIN entries /\ \A h \in DOMAIN entries' : entries'[h] \in Entry
    BY <2>1, MovedType DEF commit_use, TypeOK, Liveness
  <2>3. DOMAIN ledger' = DOMAIN ledger /\ \A s \in DOMAIN ledger' : ledger'[s] \in Record
    <3>1. /\ DOMAIN ledger' = DOMAIN ledger
          /\ \A s \in DOMAIN ledger' :
                ledger'[s] = IF s = r THEN [ledger[s] EXCEPT !.uses = ledger[s].uses + 1]
                             ELSE ledger[s]
      BY <1>1 DEF enforce_use
    <3>2. ASSUME NEW s \in DOMAIN ledger
          PROVE  [ledger[s] EXCEPT !.uses = ledger[s].uses + 1] \in Record
      BY DEF TypeOK, Record
    <3> QED BY <3>1, <3>2 DEF TypeOK
  <2> QED
    BY <1>1, <2>2, <2>3, ZenonT(20) DEF enforce_use, TypeOK, conn_vars, petition_vars, grab_vars,
                            DecisionBound
<1>2. CASE enforce_use_refused(c, i, r, verb, clear)
  BY <1>2 DEF enforce_use_refused, vars, TypeOK, DecisionBound
<1> QED BY <1>1, <1>2

LEMMA TypeHuman ==
    ASSUME TypeOK, NEW p \in prompt, NEW choice \in Choice, human_answers(p, choice)
    PROVE  TypeOK'
<1> DEFINE q == [p EXCEPT !.answered = TRUE]
           d == [petition |-> p.petition, choice |-> choice]
<1>1. p \in ArmedPrompt /\ prompt = {p}
  BY DEF TypeOK, Option
<1>2. decisions = {}
  BY <1>1 DEF human_answers, TypeOK, DecisionBound
<1>3. q \in ArmedPrompt /\ q.petition = p.petition /\ q.answered
  BY <1>1, ZenonT(20) DEF ArmedPrompt
<1>4. d \in Decision /\ d.petition = p.petition
  BY <1>1 DEF ArmedPrompt, Decision
<1>5. prompt' = {q} /\ decisions' = {d}
  BY <1>2 DEF human_answers
<1>6. DOMAIN ledger' = DOMAIN ledger /\ \A s \in DOMAIN ledger' : ledger'[s] \in Record
  <2>1. {choice} \in Option(Choice)
    BY DEF Option
  <2> QED BY <2>1, ZenonT(20) DEF human_answers, TypeOK, Record
<1> HIDE DEF q, d
<1>7. prompt' \in Option(ArmedPrompt) /\ decisions' \subseteq Decision
  BY <1>3, <1>4, <1>5 DEF Option
<1>8. DecisionBound'
  BY <1>3, <1>4, <1>5 DEF DecisionBound
<1> QED
  BY <1>6, <1>7, <1>8, ZenonT(20) DEF human_answers, TypeOK, conn_vars, petition_vars, grant_vars

LEMMA TypeRound ==
    ASSUME TypeOK, NEW visible \in BOOLEAN,
           \/ consent_round_quiet(visible)
           \/ \E d \in decisions : consent_round_granted(d, visible)
           \/ \E d \in decisions : consent_round_denied(d, visible)
    PROVE  TypeOK'
<1>0. /\ None \in Option(Nat) /\ {next_id} \in Option(Nat) /\ now \in Nat
      /\ <<"closed", "granted">> \in Seq(Events) /\ <<"closed", "declined">> \in Seq(Events)
  BY KernelAssumption DEF TypeOK, None, Option, Events
<1>1. CASE consent_round_quiet(visible)
  <2>1. settle_prompt(pending, ledger, visible) /\ decisions' = {}
    BY <1>1 DEF consent_round_quiet
  <2>2. /\ prompt' \in Option(ArmedPrompt)
        /\ DOMAIN pending' = DOMAIN pending
        /\ \A r \in DOMAIN pending' : pending'[r] \in Petition(Conns)
        /\ DOMAIN ledger' = DOMAIN ledger
        /\ \A r \in DOMAIN ledger' : ledger'[r] \in Record
    BY <2>1, SettleType DEF TypeOK
  <2> QED
    BY <1>1, <2>1, <2>2 DEF consent_round_quiet, TypeOK, conn_vars, grant_vars, DecisionBound
<1>2. ASSUME NEW d \in decisions, consent_round_granted(d, visible) PROVE TypeOK'
  <2> DEFINE r     == d.petition
             taken == {p \in {r} : deliverable(p)}
             row   == granted_row(pending[r], d.choice)
             log   == told(ledger, taken, <<"closed", "granted">>)
  <2>1. /\ settle_prompt(without(pending, {r}), log, visible)
        /\ decisions' = {} /\ handles' = resolved(taken, {next_id})
        /\ entries' = (IF taken = {} THEN entries ELSE insert(entries, next_id, row))
        /\ next_id' = (IF taken = {} THEN next_id ELSE next_id + 1)
    BY <1>2 DEF consent_round_granted
  <2>2. r \in DOMAIN pending /\ d.choice \in Rungs
    BY <1>2 DEF consent_round_granted, applies, verdict, TypeOK, Decision, Choice
  <2>3. row \in Entry
    BY <1>0, <2>2, MintedType DEF TypeOK, Petition, granted_row
  <2> HIDE DEF row, taken
  <2>4. /\ next_id' \in Nat \ {0}
        /\ DOMAIN entries' \subseteq 1 .. next_id' - 1
        /\ \A g \in DOMAIN entries' : entries'[g] \in Entry
    BY <2>1, <2>3 DEF TypeOK, insert
  <2>5. DOMAIN handles' = DOMAIN handles /\ \A h \in DOMAIN handles' : handles'[h] \in Handle
    BY <1>0, <2>1, ResolvedType, ZenonT(20) DEF TypeOK
  <2>6. DOMAIN log = DOMAIN ledger /\ \A h \in DOMAIN log : log[h] \in Record
    BY <1>0, ToldType, ZenonT(20) DEF TypeOK
  <2>7. /\ DOMAIN without(pending, {r}) \subseteq DOMAIN pending
        /\ \A h \in DOMAIN without(pending, {r}) : without(pending, {r})[h] \in Petition(Conns)
    BY DEF without, TypeOK
  <2> HIDE DEF log
  <2>8. /\ prompt' \in Option(ArmedPrompt)
        /\ DOMAIN pending' = DOMAIN without(pending, {r})
        /\ \A h \in DOMAIN pending' : pending'[h] \in Petition(Conns)
        /\ DOMAIN ledger' = DOMAIN log
        /\ \A h \in DOMAIN ledger' : ledger'[h] \in Record
    BY <2>1, <2>6, <2>7, SettleType, SMTT(20)
  <2> QED
    BY <1>2, <2>1, <2>4, <2>5, <2>6, <2>7, <2>8, ZenonT(20)
       DEF consent_round_granted, TypeOK, conn_vars, DecisionBound
<1>3. ASSUME NEW d \in decisions, consent_round_denied(d, visible) PROVE TypeOK'
  <2> DEFINE r     == d.petition
             taken == {p \in {r} : deliverable(p)}
             log   == told(ledger, taken, <<"closed", "declined">>)
  <2>1. /\ settle_prompt(without(pending, {r}), log, visible)
        /\ decisions' = {} /\ handles' = resolved(taken, None)
    BY <1>3, SMTT(20) DEF consent_round_denied
  <2> HIDE DEF taken
  <2>5. DOMAIN handles' = DOMAIN handles /\ \A h \in DOMAIN handles' : handles'[h] \in Handle
    BY <1>0, <2>1, ResolvedType, ZenonT(20) DEF TypeOK
  <2>6. DOMAIN log = DOMAIN ledger /\ \A h \in DOMAIN log : log[h] \in Record
    BY <1>0, ToldType, ZenonT(20) DEF TypeOK
  <2>7. /\ DOMAIN without(pending, {r}) \subseteq DOMAIN pending
        /\ \A h \in DOMAIN without(pending, {r}) : without(pending, {r})[h] \in Petition(Conns)
    BY DEF without, TypeOK
  <2> HIDE DEF log
  <2>8. /\ prompt' \in Option(ArmedPrompt)
        /\ DOMAIN pending' = DOMAIN without(pending, {r})
        /\ \A h \in DOMAIN pending' : pending'[h] \in Petition(Conns)
        /\ DOMAIN ledger' = DOMAIN log
        /\ \A h \in DOMAIN ledger' : ledger'[h] \in Record
    BY <2>1, <2>6, <2>7, SettleType
  <2> QED
    BY <1>3, <2>1, <2>5, <2>6, <2>7, <2>8, ZenonT(20)
       DEF consent_round_denied, TypeOK, conn_vars, grant_vars, DecisionBound
<1> QED BY <1>1, <1>2, <1>3

LEMMA TypeTimers ==
    ASSUME TypeOK, sweep_at \/ apply_dead_man \/ tick
    PROVE  TypeOK'
<1>1. CASE sweep_at
  <2>1. deliver_declined(expired_petitions(pending, now)) /\ entries' = expire_due(entries, now)
        /\ pending' = without(pending, expired_petitions(pending, now))
    BY <1>1 DEF sweep_at
  <2>2. DOMAIN entries' = DOMAIN entries /\ \A h \in DOMAIN entries' : entries'[h] \in Entry
    BY <2>1, MovedType DEF expire_due, TypeOK, Liveness
  <2>3. /\ DOMAIN pending' \subseteq DOMAIN pending
        /\ \A r \in DOMAIN pending' : pending'[r] \in Petition(Conns)
    BY <2>1 DEF without, TypeOK
  <2> QED
    BY <1>1, <2>1, <2>2, <2>3, DeclinedType DEF sweep_at, TypeOK, conn_vars, grab_vars,
                                                DecisionBound
<1>2. CASE apply_dead_man
  <2>1. /\ deliver_declined(DOMAIN pending) /\ pending' = without(pending, DOMAIN pending)
        /\ entries' = moved(entries, {g \in DOMAIN entries :
                                        entries[g].principal_id \in
                                          {entries[h].principal_id : h \in DOMAIN entries}},
                            Liveness, "Revoked")
    BY <1>2 DEF apply_dead_man
  <2>2. DOMAIN entries' = DOMAIN entries /\ \A h \in DOMAIN entries' : entries'[h] \in Entry
    BY <2>1, MovedType DEF TypeOK, Liveness
  <2>3. DOMAIN pending' = {}
    BY <2>1 DEF without
  <2> QED
    BY <1>2, <2>1, <2>2, <2>3, DeclinedType, ZenonT(20) DEF apply_dead_man, TypeOK, conn_vars, grab_vars,
                                                DecisionBound
<1>3. CASE tick
  BY <1>3, KernelAssumption DEF tick, TypeOK, conn_vars, petition_vars, grant_vars, grab_vars,
                                DecisionBound
<1> QED BY <1>1, <1>2, <1>3

(* Every state vitrind's kernel reaches is well typed: ids stay below the  *)
(* counters that issue them, at most one decision waits, and it answers    *)
(* the prompt that is up.                                                  *)
THEOREM TypeCorrect == Spec => []TypeOK
<1>1. Init => TypeOK
  BY TypeInit
<1>2. TypeOK /\ [Next]_vars => TypeOK'
  <2> SUFFICES ASSUME TypeOK, [Next]_vars PROVE TypeOK'
    OBVIOUS
  <2>1. CASE Agent
    <3> PICK c \in Conns :
            \/ accept_principal(c) \/ close_principal(c)
            \/ \E i \in Identities :
                  \/ handle_hello(c, i)
                  \/ \E ask \in Asks, available \in BOOLEAN :
                        \/ request_grant_declined(c, i, ask, available)
                        \/ request_grant_auto_approved(c, i, ask, available)
                        \/ request_grant_queued(c, i, ask, available)
                  \/ \E r \in Requests, verb \in Verbs, clear \in BOOLEAN :
                        \/ enforce_use(c, i, r, verb, clear)
                        \/ enforce_use_refused(c, i, r, verb, clear)
      BY <2>1 DEF Agent
    <3> QED BY TypeConns, TypeRequests, TypeUses
  <2>2. CASE Human
    BY <2>2, TypeHuman, TypeTimers DEF Human
  <2>3. CASE Loop
    BY <2>3, TypeRound, TypeTimers DEF Loop
  <2>4. CASE UNCHANGED vars
    BY <2>4 DEF vars, TypeOK, DecisionBound
  <2> QED BY <2>1, <2>2, <2>3, <2>4 DEF Next
<1> QED BY <1>1, <1>2, PTL DEF Spec

-----------------------------------------------------------------------------
(* How one row may change in a step: only in its liveness, never back to   *)
(* Active, never away from Revoked.                                        *)
Ages(e, f) ==
    /\ f.principal_id = e.principal_id
    /\ f.verbs = e.verbs
    /\ f.persistence = e.persistence
    /\ f.deadline = e.deadline
    /\ f.liveness \in Liveness
    /\ e.liveness # "Active" => f.liveness # "Active"
    /\ e.liveness = "Revoked" => f.liveness = "Revoked"

RowsAge == \A g \in DOMAIN entries : g \in DOMAIN entries' => Ages(entries[g], entries'[g])

(* No row appears in the step.                                             *)
NoNewRow == DOMAIN entries' \subseteq DOMAIN entries /\ next_id' = next_id

(* One row appears, under the next id, born dead when the table is sealed, *)
(* and no other row changes.                                               *)
NewRow(principal, verbs) ==
    /\ next_id' = next_id + 1
    /\ DOMAIN entries' = DOMAIN entries \cup {next_id}
    /\ \A g \in DOMAIN entries : entries'[g] = entries[g]
    /\ entries'[next_id].principal_id = principal
    /\ entries'[next_id].verbs = verbs
    /\ entries'[next_id].liveness = IF dead_man_sealed THEN "Revoked" ELSE "Active"

(* A row that stays as it is ages, and so does one that moved off Active.  *)
LEMMA AgesMoved ==
    ASSUME NEW tbl, \A g \in DOMAIN tbl : tbl[g] \in Entry, NEW which,
           NEW from, NEW to \in Liveness,
           to # "Active", to = "Revoked" \/ "Revoked" \notin from
    PROVE  \A g \in DOMAIN tbl : Ages(tbl[g], moved(tbl, which, from, to)[g])
BY DEF Ages, moved, Entry

LEMMA AgesSelf == \A e \in Entry : Ages(e, e)
BY DEF Ages, Entry

(* The id the table mints next is held by no row.                          *)
LEMMA NextIdIsFresh ==
    ASSUME TypeOK
    PROVE  next_id \in Nat /\ next_id \notin DOMAIN entries
BY DEF TypeOK

(* What each callback does to the grant table.                             *)
LEMMA TableStep ==
    ASSUME TypeOK, [Next]_vars
    PROVE  /\ RowsAge
           /\ \/ NoNewRow
              \/ /\ now' = now /\ dead_man_sealed' = dead_man_sealed
                 /\ \/ \E c \in Conns, i \in Identities, ask \in Asks, available \in BOOLEAN :
                          /\ request_grant_auto_approved(c, i, ask, available)
                          /\ NewRow(i, ask.verbs)
                    \/ \E d \in decisions, visible \in BOOLEAN :
                          /\ consent_round_granted(d, visible)
                          /\ deliverable(d.petition)
                          /\ NewRow(pending[d.petition].identity, pending[d.petition].verbs)
           /\ dead_man_sealed => dead_man_sealed'
           /\ dead_man_sealed' =>
                 \/ dead_man_sealed
                 \/ \A g \in DOMAIN entries' : entries'[g].liveness = "Revoked"
           /\ now' >= now
<1> USE DEF RowsAge, NoNewRow
<1>0. \A g \in DOMAIN entries : Ages(entries[g], entries[g])
  BY AgesSelf DEF TypeOK
<1>t. now \in Nat
  BY KernelAssumption DEF TypeOK
<1>1. ASSUME UNCHANGED <<now, grant_vars>> PROVE RowsAge /\ NoNewRow /\ dead_man_sealed' = dead_man_sealed /\ now' >= now
  BY <1>0, <1>1, <1>t DEF grant_vars
<1>2. CASE \E c \in Conns : accept_principal(c)
  BY <1>1, <1>2 DEF accept_principal
<1>3. CASE \E c \in Conns, i \in Identities : handle_hello(c, i)
  BY <1>1, <1>3 DEF handle_hello
<1>4. CASE \E c \in Conns : close_principal(c)
  BY <1>0, <1>4, <1>t DEF close_principal, remove
<1>5. CASE \E c \in Conns, i \in Identities, ask \in Asks, available \in BOOLEAN :
              \/ request_grant_declined(c, i, ask, available)
              \/ request_grant_queued(c, i, ask, available)
  BY <1>1, <1>5 DEF request_grant_declined, request_grant_queued
<1>6. ASSUME NEW c \in Conns, NEW i \in Identities, NEW ask \in Asks, NEW available \in BOOLEAN,
             request_grant_auto_approved(c, i, ask, available)
      PROVE  RowsAge /\ NewRow(i, ask.verbs)
             /\ now' = now /\ dead_man_sealed' = dead_man_sealed
  <2>1. next_id \notin DOMAIN entries
    BY DEF TypeOK
  <2>2. \A g \in DOMAIN entries : entries'[g] = entries[g]
    BY <1>6, <2>1 DEF request_grant_auto_approved, insert
  <2>3. /\ DOMAIN entries' = DOMAIN entries \cup {next_id}
        /\ entries'[next_id] = minted(i, ask.verbs, ask.persistence, ask.expiry,
                                      dead_man_sealed, now)
        /\ next_id' = next_id + 1
    BY <1>6 DEF request_grant_auto_approved, insert
  <2>4. NewRow(i, ask.verbs)
    BY <2>2, <2>3 DEF NewRow, minted
  <2> QED BY <1>0, <1>6, <2>2, <2>4 DEF request_grant_auto_approved
<1>7. CASE \E c \in Conns, i \in Identities, r \in Requests, verb \in Verbs, clear \in BOOLEAN :
              enforce_use(c, i, r, verb, clear)
  <2> PICK c \in Conns, i \in Identities, r \in Requests, verb \in Verbs, clear \in BOOLEAN :
              enforce_use(c, i, r, verb, clear)
    BY <1>7
  <2>1. PICK g \in handles[r].row : entries' = commit_use(entries, g)
    BY DEF enforce_use
  <2>2. \A h \in DOMAIN entries : Ages(entries[h], moved(entries, {g}, {"Active"}, "Spent")[h])
    BY AgesMoved DEF TypeOK, Liveness
  <2>3. DOMAIN moved(entries, {g}, {"Active"}, "Spent") = DOMAIN entries
    BY DEF moved
  <2>4. RowsAge /\ DOMAIN entries' = DOMAIN entries
    BY <1>0, <2>1, <2>2, <2>3 DEF commit_use
  <2>5. now' = now /\ next_id' = next_id /\ dead_man_sealed' = dead_man_sealed
    BY DEF enforce_use
  <2> QED BY <1>t, <2>4, <2>5
<1>8. CASE \E c \in Conns, i \in Identities, r \in Requests, verb \in Verbs, clear \in BOOLEAN :
              enforce_use_refused(c, i, r, verb, clear)
  BY <1>1, <1>8 DEF enforce_use_refused, vars, grant_vars
<1>9. CASE \E p \in prompt, choice \in Choice : human_answers(p, choice)
  BY <1>1, <1>9 DEF human_answers
<1>10. CASE apply_dead_man
  <2> DEFINE all == {g \in DOMAIN entries : entries[g].principal_id \in
                                   {entries[h].principal_id : h \in DOMAIN entries}}
  <2>1. entries' = moved(entries, all, Liveness, "Revoked")
    BY <1>10 DEF apply_dead_man
  <2>2. \A h \in DOMAIN entries : Ages(entries[h], moved(entries, all, Liveness, "Revoked")[h])
    BY AgesMoved DEF TypeOK, Liveness
  <2>3. DOMAIN moved(entries, all, Liveness, "Revoked") = DOMAIN entries
    BY DEF moved
  <2>4. RowsAge /\ DOMAIN entries' = DOMAIN entries
    BY <2>1, <2>2, <2>3
  <2>5. now' = now /\ next_id' = next_id /\ dead_man_sealed'
    BY <1>10 DEF apply_dead_man
  <2>6. \A g \in DOMAIN entries' : entries'[g].liveness = "Revoked"
    BY <2>1 DEF moved, TypeOK, Entry
  <2> QED BY <1>t, <2>4, <2>5, <2>6
<1>11. CASE \E visible \in BOOLEAN : consent_round_quiet(visible)
  BY <1>1, <1>11 DEF consent_round_quiet
<1>12. CASE \E d \in decisions, visible \in BOOLEAN : consent_round_denied(d, visible)
  BY <1>1, <1>12 DEF consent_round_denied
<1>13. ASSUME NEW d \in decisions, NEW visible \in BOOLEAN, consent_round_granted(d, visible)
       PROVE  /\ now' = now /\ dead_man_sealed' = dead_man_sealed
              /\ RowsAge
              /\ \/ NoNewRow
                 \/ /\ deliverable(d.petition)
                    /\ NewRow(pending[d.petition].identity, pending[d.petition].verbs)
  <2>1. CASE deliverable(d.petition)
    <3>1. {p \in {d.petition} : deliverable(p)} # {}
      BY <2>1
    <3>2. next_id \notin DOMAIN entries
      BY DEF TypeOK
    <3>3. /\ entries' = insert(entries, next_id,
                               granted_row(pending[d.petition], d.choice))
          /\ next_id' = next_id + 1
      BY <1>13, <3>1 DEF consent_round_granted
    <3>4. \A g \in DOMAIN entries : entries'[g] = entries[g]
      BY <3>2, <3>3 DEF insert
    <3>5. NewRow(pending[d.petition].identity, pending[d.petition].verbs)
      BY <3>3, <3>4 DEF NewRow, insert, granted_row, minted
    <3> QED BY <1>0, <1>13, <2>1, <3>4, <3>5 DEF consent_round_granted
  <2>2. CASE ~deliverable(d.petition)
    <3>1. {p \in {d.petition} : deliverable(p)} = {}
      BY <2>2
    <3> QED BY <1>0, <1>13, <3>1 DEF consent_round_granted
  <2> QED BY <2>1, <2>2
<1>14. CASE sweep_at
  <2> DEFINE over == {g \in DOMAIN entries : due(entries[g].deadline, now)}
  <2>1. entries' = moved(entries, over, {"Active"}, "Expired")
    BY <1>14 DEF sweep_at, expire_due
  <2>2. \A h \in DOMAIN entries : Ages(entries[h], moved(entries, over, {"Active"}, "Expired")[h])
    BY AgesMoved DEF TypeOK, Liveness
  <2>3. DOMAIN moved(entries, over, {"Active"}, "Expired") = DOMAIN entries
    BY DEF moved
  <2>4. RowsAge /\ DOMAIN entries' = DOMAIN entries
    BY <2>1, <2>2, <2>3
  <2>5. now' = now /\ next_id' = next_id /\ dead_man_sealed' = dead_man_sealed
    BY <1>14 DEF sweep_at
  <2> QED BY <1>t, <2>4, <2>5
<1>15. CASE tick
  BY <1>0, <1>15, <1>t DEF tick, grant_vars
<1>16. CASE UNCHANGED vars
  BY <1>1, <1>16, SMTT(20) DEF vars, grant_vars
<1>17. CASE \E c \in Conns, i \in Identities, ask \in Asks, available \in BOOLEAN :
               request_grant_auto_approved(c, i, ask, available)
  BY <1>6, <1>17, <1>t
<1>18. CASE \E d \in decisions, visible \in BOOLEAN : consent_round_granted(d, visible)
  BY <1>13, <1>18, <1>t
<1>19. CASE Agent
  BY <1>19, <1>2, <1>3, <1>4, <1>5, <1>17, <1>7, <1>8, ZenonT(20) DEF Agent
<1>20. CASE Loop
  BY <1>20, <1>11, <1>12, <1>18, <1>14, <1>15, ZenonT(20) DEF Loop
<1> QED BY <1>9, <1>10, <1>16, <1>19, <1>20, ZenonT(20) DEF Next, Human

-----------------------------------------------------------------------------
(* The dead-man switch is final, for every run of the kernel: after it no  *)
(* row of the table is ever live again, whoever is granted what.           *)
THEOREM DeadManIsFinal == Spec => []SealedMeansNoAuthority
<1>1. Init => SealedMeansNoAuthority
  BY DEF Init, SealedMeansNoAuthority
<1>2. TypeOK /\ SealedMeansNoAuthority /\ [Next]_vars => SealedMeansNoAuthority'
  <2> SUFFICES ASSUME TypeOK, SealedMeansNoAuthority, [Next]_vars, dead_man_sealed',
                      NEW g \in DOMAIN entries'
               PROVE  entries'[g].liveness = "Revoked"
    BY DEF SealedMeansNoAuthority
  <2>1. CASE dead_man_sealed
    <3>1. CASE g \in DOMAIN entries
      BY <2>1, <3>1, TableStep DEF SealedMeansNoAuthority, RowsAge, Ages
    <3>2. CASE g \notin DOMAIN entries
      BY <2>1, <3>2, TableStep DEF NoNewRow, NewRow
    <3> QED BY <3>1, <3>2
  <2>2. CASE ~dead_man_sealed
    BY <2>2, TableStep, Zenon
  <2> QED BY <2>1, <2>2
<1> QED BY <1>1, <1>2, TypeCorrect, PTL DEF Spec

(* A row that is over at one instant is over at every later one, whatever  *)
(* the step did to it.                                                     *)
LEMMA OverStaysOver ==
    ASSUME NEW e \in Entry, NEW f, Ages(e, f), NEW t \in Nat, NEW u \in Nat, u >= t,
           state_at(e, t) # "Active"
    PROVE  state_at(f, u) # "Active"
<1>1. CASE due(e.deadline, t)
  <2>1. due(f.deadline, u)
    BY <1>1 DEF due, Ages, Entry, Option
  <2> QED BY <2>1 DEF state_at
<1>2. CASE ~due(e.deadline, t)
  BY <1>2 DEF state_at, Ages
<1> QED BY <1>1, <1>2

(* Ended authority never returns: uses, sweeps, revocations, grants and    *)
(* teardowns leave a dead row dead, a removed row gone and its id unused.  *)
THEOREM EndedAuthorityStaysEnded == Spec => AuthorityNeverReturns
<1> DEFINE Step ==
        /\ \A g \in DOMAIN entries \cap DOMAIN entries' :
              state_at(entries[g], now) # "Active" => state_at(entries'[g], now') # "Active"
        /\ \A g \in 1 .. next_id - 1 : g \in DOMAIN entries' => g \in DOMAIN entries
<1>1. TypeOK /\ TypeOK' /\ [Next]_vars => Step
  <2> SUFFICES ASSUME TypeOK, TypeOK', [Next]_vars PROVE Step
    OBVIOUS
  <2>1. now \in Nat /\ now' \in Nat /\ now' >= now /\ next_id \in Nat
    BY TableStep, KernelAssumption DEF TypeOK
  <2>2. ASSUME NEW g \in DOMAIN entries \cap DOMAIN entries',
               state_at(entries[g], now) # "Active"
        PROVE  state_at(entries'[g], now') # "Active"
    <3>1. entries[g] \in Entry /\ Ages(entries[g], entries'[g])
      BY TableStep DEF TypeOK, RowsAge
    <3> QED BY <2>1, <2>2, <3>1, OverStaysOver
  <2>3. ASSUME NEW g \in 1 .. next_id - 1, g \in DOMAIN entries' PROVE g \in DOMAIN entries
    BY <2>1, <2>3, TableStep DEF NoNewRow, NewRow
  <2> QED BY <2>2, <2>3
<1>2. TypeOK /\ TypeOK' /\ [Next]_vars => [Step]_vars
  BY <1>1
<1> QED BY <1>2, TypeCorrect, PTL DEF Spec, AuthorityNeverReturns

-----------------------------------------------------------------------------
(* Petitions only leave the registry, keeping what was asked; the prompt   *)
(* mark is all that may change on one that stays.                          *)
PetitionsKept ==
    \A r \in DOMAIN pending' :
        /\ r \in DOMAIN pending
        /\ pending'[r].connection = pending[r].connection
        /\ pending'[r].identity = pending[r].identity
        /\ pending'[r].verbs = pending[r].verbs
        /\ pending'[r].persistence = pending[r].persistence

LEMMA SettleKeeps ==
    ASSUME \A r \in DOMAIN pending : pending[r] \in Petition(Conns),
           NEW waiting, NEW log, NEW visible,
           DOMAIN waiting \subseteq DOMAIN pending,
           \A r \in DOMAIN waiting : waiting[r] = pending[r],
           settle_prompt(waiting, log, visible)
    PROVE  PetitionsKept /\ DOMAIN pending' = DOMAIN waiting
<1>1. PICK shown : pending' = mark_prompt_shown(waiting, shown)
  BY DEF settle_prompt
<1>2. DOMAIN pending' = DOMAIN waiting
  BY <1>1 DEF mark_prompt_shown
<1>3. ASSUME NEW r \in DOMAIN waiting
      PROVE  /\ pending'[r].connection = waiting[r].connection
             /\ pending'[r].identity = waiting[r].identity
             /\ pending'[r].verbs = waiting[r].verbs
             /\ pending'[r].persistence = waiting[r].persistence
  <2>1. waiting[r] \in Petition(Conns)
    OBVIOUS
  <2> QED BY <1>1, <2>1 DEF Petition, mark_prompt_shown
<1> QED BY <1>2, <1>3 DEF PetitionsKept

(* What each callback does to the registry.                                *)
LEMMA RegistryStep ==
    ASSUME TypeOK, [Next]_vars
    PROVE  /\ \/ PetitionsKept
              \/ \E c \in Conns, i \in Identities, ask \in Asks, available \in BOOLEAN :
                    request_grant_queued(c, i, ask, available)
           /\ \A d \in decisions, visible \in BOOLEAN :
                 consent_round_granted(d, visible) => /\ PetitionsKept
                                                      /\ d.petition \notin DOMAIN pending'
<1>1. ASSUME UNCHANGED pending PROVE PetitionsKept
  BY <1>1 DEF PetitionsKept
<1>2. ASSUME NEW gone, pending' = without(pending, gone) PROVE PetitionsKept
  BY <1>2 DEF PetitionsKept, without
<1>3. ASSUME NEW visible \in BOOLEAN, consent_round_quiet(visible) PROVE PetitionsKept
  <2>1. settle_prompt(pending, ledger, visible)
    BY <1>3 DEF consent_round_quiet
  <2> QED BY <2>1, SettleKeeps DEF TypeOK
<1>4. ASSUME NEW d \in decisions, NEW visible \in BOOLEAN,
             consent_round_granted(d, visible) \/ consent_round_denied(d, visible)
      PROVE  PetitionsKept /\ d.petition \notin DOMAIN pending'
  <2>1. PICK log : settle_prompt(without(pending, {d.petition}), log, visible)
    BY <1>4 DEF consent_round_granted, consent_round_denied
  <2>2. /\ DOMAIN without(pending, {d.petition}) = DOMAIN pending \ {d.petition}
        /\ \A r \in DOMAIN without(pending, {d.petition}) :
              without(pending, {d.petition})[r] = pending[r]
    BY DEF without
  <2> QED BY <2>1, <2>2, SettleKeeps, ZenonT(20) DEF TypeOK
<1>5. CASE Agent
  BY <1>1, <1>2, <1>4, <1>5 DEF Agent, accept_principal, handle_hello, close_principal,
        request_grant_declined, request_grant_auto_approved, enforce_use, enforce_use_refused,
        petition_vars, vars
<1>6. CASE Human
  BY <1>1, <1>2, <1>4, <1>6, ZenonT(20) DEF Human, human_answers, apply_dead_man, petition_vars
<1>7. CASE Loop
  BY <1>1, <1>2, <1>3, <1>4, <1>7 DEF Loop, sweep_at, tick, petition_vars
<1>8. CASE UNCHANGED vars
  BY <1>1, <1>4, <1>8 DEF vars
<1> QED BY <1>5, <1>6, <1>7, <1>8 DEF Next

(* A live row of the next state, unless just minted, is live now.          *)
LEMMA ArrangersShrink ==
    ASSUME TypeOK, TypeOK', [Next]_vars, NEW g \in arranging_rows', g \in DOMAIN entries
    PROVE  g \in arranging_rows
<1>1. now \in Nat /\ now' \in Nat /\ now' >= now
  BY TableStep, KernelAssumption DEF TypeOK
<1>2. entries[g] \in Entry /\ Ages(entries[g], entries'[g])
  BY TableStep, SMTT(20) DEF TypeOK, RowsAge, arranging_rows
<1>3. LayoutArrange \in entries'[g].verbs /\ state_at(entries'[g], now') = "Active"
  BY DEF arranging_rows
<1> QED BY <1>1, <1>2, <1>3, OverStaysOver DEF arranging_rows, Ages

(* layout_arrange never has two holders: the ladder turns a petition for   *)
(* it away while a live row or another petition carries it, and a petition *)
(* leaves the registry in the same turn as its row is minted.              *)
THEOREM OneArranger == Spec => []SingleArranger
<1>1. Init => SingleArranger
  BY DEF Init, SingleArranger, arranging_rows, arranging_petitions
<1>2. TypeOK /\ TypeOK' /\ SingleArranger /\ [Next]_vars => SingleArranger'
  <2> SUFFICES ASSUME TypeOK, TypeOK', SingleArranger, [Next]_vars PROVE SingleArranger'
    OBVIOUS
  <2> USE DEF SingleArranger
  <2>1. \A g \in arranging_rows' : g \in DOMAIN entries => g \in arranging_rows
    BY ArrangersShrink
  <2>2. ASSUME PetitionsKept PROVE arranging_petitions' \subseteq arranging_petitions
    BY <2>2 DEF PetitionsKept, arranging_petitions
  <2>3. ASSUME NoNewRow PROVE arranging_rows' \subseteq arranging_rows
    BY <2>1, <2>3 DEF NoNewRow, arranging_rows
  <2>4. ASSUME NEW c \in Conns, NEW i \in Identities, NEW ask \in Asks,
               NEW available \in BOOLEAN, admission(i, ask, available) = "Admitted",
               LayoutArrange \in ask.verbs
        PROVE  arranging_rows = {} /\ arranging_petitions = {}
    BY <2>4 DEF admission, admit, any_live_holder_of, pending_names, arranging_rows,
                arranging_petitions
  <2>5. CASE \E c \in Conns, i \in Identities, ask \in Asks, available \in BOOLEAN :
                request_grant_queued(c, i, ask, available)
    <3> PICK c \in Conns, i \in Identities, ask \in Asks, available \in BOOLEAN :
                request_grant_queued(c, i, ask, available)
      BY <2>5
    <3>1. arranging_rows' = arranging_rows
      <4>1. entries' = entries /\ now' = now
        BY DEF request_grant_queued, grant_vars
      <4> QED BY <4>1 DEF arranging_rows
    <3>2. /\ DOMAIN pending' = DOMAIN pending \cup {next_request}
          /\ pending'[next_request].verbs = ask.verbs
          /\ \A r \in DOMAIN pending : r # next_request => pending'[r] = pending[r]
      BY DEF request_grant_queued, insert, opened
    <3>3. arranging_petitions' \subseteq arranging_petitions \cup {next_request}
      BY <3>2, SMTT(20) DEF arranging_petitions
    <3>4. CASE LayoutArrange \in ask.verbs
      BY <2>4, <3>1, <3>3, <3>4 DEF request_grant_queued
    <3>5. CASE LayoutArrange \notin ask.verbs
      <4>1. next_request \notin arranging_petitions'
        BY <3>2, <3>5 DEF arranging_petitions
      <4> QED BY <3>1, <3>3, <4>1
    <3> QED BY <3>4, <3>5
  <2>6. CASE PetitionsKept /\ NoNewRow
    BY <2>2, <2>3, <2>6
  <2>7. ASSUME NEW c \in Conns, NEW i \in Identities, NEW ask \in Asks,
               NEW available \in BOOLEAN,
               request_grant_auto_approved(c, i, ask, available), NewRow(i, ask.verbs)
        PROVE  SingleArranger'
    <3>1. arranging_petitions' = arranging_petitions
      BY <2>7 DEF request_grant_auto_approved, arranging_petitions
    <3>2. arranging_rows' \subseteq arranging_rows \cup {next_id}
      BY <2>1, <2>7 DEF NewRow, arranging_rows
    <3>3. CASE LayoutArrange \in ask.verbs
      BY <2>4, <2>7, <3>1, <3>2, <3>3 DEF request_grant_auto_approved
    <3>4. CASE LayoutArrange \notin ask.verbs
      <4>1. next_id \notin arranging_rows'
        BY <2>7, <3>4 DEF NewRow, arranging_rows
      <4> QED BY <3>1, <3>2, <4>1
    <3> QED BY <3>3, <3>4
  <2>8. ASSUME NEW d \in decisions, NEW visible \in BOOLEAN,
               consent_round_granted(d, visible), deliverable(d.petition),
               NewRow(pending[d.petition].identity, pending[d.petition].verbs)
        PROVE  SingleArranger'
    <3>0. d.petition \in DOMAIN pending
      BY <2>8 DEF consent_round_granted, applies, verdict
    <3>1. PetitionsKept /\ d.petition \notin DOMAIN pending'
      BY <2>8, RegistryStep
    <3>2. /\ arranging_petitions' \subseteq arranging_petitions
          /\ d.petition \notin arranging_petitions'
      BY <2>2, <3>1 DEF arranging_petitions
    <3>3. arranging_rows' \subseteq arranging_rows \cup {next_id}
      BY <2>1, <2>8 DEF NewRow, arranging_rows
    <3>4. CASE LayoutArrange \in pending[d.petition].verbs
      <4>1. d.petition \in arranging_petitions
        BY <3>0, <3>4 DEF arranging_petitions
      <4> QED BY <3>2, <3>3, <4>1
    <3>5. CASE LayoutArrange \notin pending[d.petition].verbs
      <4>1. next_id \notin arranging_rows'
        BY <2>8, <3>5 DEF NewRow, arranging_rows
      <4> QED BY <3>2, <3>3, <4>1
    <3> QED BY <3>4, <3>5
  <2>9. CASE PetitionsKept /\ ~NoNewRow
    BY <2>7, <2>8, <2>9, TableStep
  <2> QED BY <2>5, <2>6, <2>9, RegistryStep
<1> QED BY <1>1, <1>2, TypeCorrect, PTL DEF Spec

-----------------------------------------------------------------------------
(* SessionKernel implements Authority.                                     *)

(* A row that is live after a step, unless the step minted it, was live    *)
(* before and carries what it carried.                                     *)
LEMMA RightsOnlyEnd ==
    ASSUME TypeOK, TypeOK', [Next]_vars, NEW g \in live_rows', g \in DOMAIN entries
    PROVE  g \in live_rows /\ rights'[g] = rights[g]
<1>1. now \in Nat /\ now' \in Nat /\ now' >= now
  BY TableStep, KernelAssumption DEF TypeOK
<1>2. entries[g] \in Entry /\ Ages(entries[g], entries'[g])
  <2>1. RowsAge /\ g \in DOMAIN entries'
    BY TableStep, Zenon DEF live_rows
  <2> QED BY <2>1 DEF TypeOK, RowsAge
<1>3. state_at(entries'[g], now') = "Active"
  BY DEF live_rows
<1>4. g \in live_rows
  BY <1>1, <1>2, <1>3, OverStaysOver DEF live_rows
<1> QED BY <1>2, <1>4 DEF rights, Ages

(* A minted row is one Grant of Authority, or a GrantDead when the table   *)
(* was sealed or the row is born past its deadline.                        *)
LEMMA MintingIsGranting ==
    ASSUME TypeOK, TypeOK', SingleArranger', NEW i \in Identities, NEW verbs,
           NewRow(i, verbs), now' = now, dead_man_sealed' = dead_man_sealed
    PROVE  A!Next
<1> DEFINE right == [holder |-> i, verbs |-> verbs]
<1>1. /\ next_id \notin DOMAIN entries /\ next_id \in Nat
      /\ next_id' - 1 = (next_id - 1) + 1 /\ next_id' - 1 = next_id
  <2>1. next_id \notin DOMAIN entries /\ next_id \in Nat
    BY NextIdIsFresh
  <2>2. next_id' = next_id + 1
    BY DEF NewRow
  <2> QED BY <2>1, <2>2
<1>2. right \in A!Right
  <2>1. entries'[next_id] \in Entry
    <3>1. next_id \in DOMAIN entries'
      BY DEF NewRow
    <3> QED BY <3>1 DEF TypeOK
  <2> QED BY <2>1 DEF A!Right, NewRow, Entry
<1>3. live_rows' \subseteq live_rows \cup {next_id} /\ live_rows \subseteq live_rows'
  BY DEF live_rows, NewRow
<1>4. \A g \in live_rows : rights'[g] = rights[g]
  BY <1>3 DEF rights, NewRow, live_rows
<1>5. DOMAIN rights = live_rows /\ DOMAIN rights' = live_rows'
  BY DEF rights
<1>6. CASE next_id \in live_rows'
  <2>1. live_rows' = live_rows \cup {next_id}
    BY <1>3, <1>6
  <2>2. ~dead_man_sealed
    BY <1>6 DEF live_rows, NewRow, state_at
  <2>3. rights'[next_id] = right
    BY <1>6 DEF rights, NewRow
  <2>4. LayoutArrange \in verbs => \A g \in DOMAIN rights : LayoutArrange \notin rights[g].verbs
    <3> SUFFICES ASSUME LayoutArrange \in verbs, NEW g \in live_rows,
                        LayoutArrange \in entries[g].verbs
                 PROVE  FALSE
      BY <1>5 DEF rights
    <3>1. g \in arranging_rows' /\ next_id \in arranging_rows' /\ g # next_id
      BY <1>1, <1>3, <1>6 DEF live_rows, arranging_rows, NewRow
    <3> QED BY <3>1 DEF SingleArranger
  <2>5. rights' = [g \in DOMAIN rights \cup {next_id' - 1} |->
                      IF g = next_id' - 1 THEN right ELSE rights[g]]
    <3>1. \A g \in live_rows' : rights'[g] = IF g = next_id THEN right ELSE rights[g]
      BY <1>4, <2>1, <2>3
    <3>2. rights' = [g \in live_rows' |-> rights'[g]]
      BY DEF rights
    <3> HIDE DEF right
    <3> QED BY <1>1, <1>5, <2>1, <3>1, <3>2
  <2>6. A!Grant(right)
    BY <1>1, <2>2, <2>4, <2>5 DEF A!Grant
  <2> QED BY <1>2, <2>6 DEF A!Next
<1>7. CASE next_id \notin live_rows'
  <2>1. live_rows' = live_rows
    BY <1>3, <1>7
  <2>2. rights' = rights
    <3>1. rights' = [g \in live_rows' |-> rights'[g]] /\ rights = [g \in live_rows |-> rights[g]]
      BY DEF rights
    <3> QED BY <1>4, <2>1, <3>1
  <2> QED BY <1>1, <2>2 DEF A!Next, A!GrantDead
<1> QED BY <1>6, <1>7

(* Every callback of the loop grants one right, ends some, seals the table *)
(* or leaves the rights as they are: the kernel implements Authority.      *)
THEOREM KernelImplementsAuthority == Spec => ImplementsAuthority
<1>1. Init => A!Init
  <2> SUFFICES ASSUME Init PROVE A!Init
    OBVIOUS
  <2>1. live_rows = {} /\ next_id - 1 = 0 /\ dead_man_sealed = FALSE
    BY DEF Init, live_rows
  <2>2. rights = [g \in {} |-> {}]
    BY <2>1 DEF rights
  <2> QED BY <2>1, <2>2 DEF A!Init
<1>2. TypeOK /\ TypeOK' /\ SingleArranger' /\ [Next]_vars => [A!Next]_A!avars
  <2> SUFFICES ASSUME TypeOK, TypeOK', SingleArranger', [Next]_vars PROVE [A!Next]_A!avars
    OBVIOUS
  <2>1. CASE NoNewRow
    <3>1. live_rows' \subseteq live_rows /\ \A g \in live_rows' : rights'[g] = rights[g]
      BY <2>1, RightsOnlyEnd DEF NoNewRow, live_rows
    <3>2. rights' = [g \in live_rows' |-> rights[g]]
      <4>1. rights' = [g \in live_rows' |-> rights'[g]]
        BY DEF rights
      <4> QED BY <3>1, <4>1
    <3>3. DOMAIN rights = live_rows
      BY DEF rights
    <3>4. CASE dead_man_sealed' = dead_man_sealed
      <4>1. DOMAIN rights \ (live_rows \ live_rows') = live_rows'
        BY <3>1, <3>3
      <4>2. A!End(live_rows \ live_rows')
        BY <2>1, <3>2, <3>4, <4>1 DEF A!End, NoNewRow
      <4> QED BY <3>3, <4>2 DEF A!Next
    <3>5. CASE dead_man_sealed' # dead_man_sealed
      <4>1. ~dead_man_sealed /\ dead_man_sealed'
        <5>1. dead_man_sealed \in BOOLEAN /\ dead_man_sealed' \in BOOLEAN
          BY DEF TypeOK
        <5>2. dead_man_sealed => dead_man_sealed'
          BY TableStep, Zenon
        <5> QED BY <3>5, <5>1, <5>2
      <4>2. \A g \in DOMAIN entries' : entries'[g].liveness = "Revoked"
        BY <4>1, TableStep, Zenon
      <4>3. live_rows' = {}
        BY <4>2 DEF live_rows, state_at
      <4>4. rights' = [g \in {} |-> {}]
        BY <3>2, <4>3
      <4>5. dead_man_sealed' = TRUE
        BY <4>1 DEF TypeOK
      <4> QED BY <2>1, <4>4, <4>5 DEF A!Seal, A!Next, NoNewRow
    <3> QED BY <3>4, <3>5
  <2>2. CASE ~NoNewRow
    <3>1. \E i \in Identities, verbs \in SUBSET Verbs :
             NewRow(i, verbs) /\ now' = now /\ dead_man_sealed' = dead_man_sealed
      <4>1. ASSUME NEW c \in Conns, NEW i \in Identities, NEW ask \in Asks,
                   NewRow(i, ask.verbs)
            PROVE  \E j \in Identities, verbs \in SUBSET Verbs : NewRow(j, verbs)
        BY <4>1, KernelAssumption DEF Ask
      <4>2. ASSUME NEW d \in decisions, NEW visible \in BOOLEAN,
                   consent_round_granted(d, visible),
                   NewRow(pending[d.petition].identity, pending[d.petition].verbs)
            PROVE  \E j \in Identities, verbs \in SUBSET Verbs : NewRow(j, verbs)
        <5>1. d.petition \in DOMAIN pending
          BY <4>2, Zenon DEF consent_round_granted, applies, verdict
        <5> QED BY <4>2, <5>1 DEF TypeOK, Petition
      <4> QED BY <2>2, <4>1, <4>2, TableStep
    <3> QED BY <3>1, MintingIsGranting
  <2> QED BY <2>1, <2>2
<1> QED BY <1>1, <1>2, TypeCorrect, OneArranger, PTL DEF Spec, ImplementsAuthority, A!Spec

=============================================================================
