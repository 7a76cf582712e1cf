----------------------- MODULE SessionKernelConsent -------------------------
(***************************************************************************)
(* What SessionKernel owes to the human and tells the petitioner, for      *)
(* every value of its constants: a row carries the consent that was given, *)
(* and a petitioner hears one story from first to last.                    *)
(***************************************************************************)
EXTENDS SessionKernelTies

(* RowsCarryConsent is inductive together with where its parts come from:  *)
(* a petition carries what was asked, a decision what was chosen, a prompt *)
(* never asks about a request that has its row already (so the choice made *)
(* on it is not made again), and nothing is used before there is a row.    *)
PetitionsAsAsked ==
    \A r \in DOMAIN pending :
        /\ pending[r].verbs = ledger[r].ask.verbs
        /\ pending[r].persistence = ledger[r].ask.persistence
        /\ pending[r].verbs \subseteq ServedVerbs

DecisionsAsChosen == \A d \in decisions : ledger[d.petition].choice = {d.choice}

PromptsAskFirst ==
    \A p \in prompt :
        /\ p.petition \in DOMAIN ledger
        /\ p.petition \in DOMAIN handles => handles[p.petition].row = None

UnusedWithoutRow == \A r \in DOMAIN handles : handles[r].row = None => ledger[r].uses = 0

ConsentInv ==
    /\ PetitionsAsAsked
    /\ DecisionsAsChosen
    /\ PromptsAskFirst
    /\ UnusedWithoutRow
    /\ RowsCarryConsent

(* What may happen to the record of a request when events are sent for it. *)
RecordsKept ==
    /\ DOMAIN ledger' = DOMAIN ledger
    /\ \A r \in DOMAIN ledger : /\ ledger'[r].ask = ledger[r].ask
                                /\ ledger'[r].choice = ledger[r].choice
                                /\ ledger'[r].uses = ledger[r].uses

LEMMA ToldKeeps ==
    ASSUME NEW log, \A r \in DOMAIN log : log[r] \in Record, NEW rs, NEW events
    PROVE  /\ DOMAIN told(log, rs, events) = DOMAIN log
           /\ \A r \in DOMAIN log :
                 /\ told(log, rs, events)[r].ask = log[r].ask
                 /\ told(log, rs, events)[r].choice = log[r].choice
                 /\ told(log, rs, events)[r].uses = log[r].uses
<1>1. DOMAIN told(log, rs, events) = DOMAIN log
  BY DEF told
<1>2. ASSUME NEW r \in DOMAIN log
      PROVE  /\ told(log, rs, events)[r].ask = log[r].ask
             /\ told(log, rs, events)[r].choice = log[r].choice
             /\ told(log, rs, events)[r].uses = log[r].uses
  <2>1. log[r] \in Record
    OBVIOUS
  <2>2. told(log, rs, events)[r] =
           IF r \in rs THEN [log[r] EXCEPT !.told = log[r].told \o events] ELSE log[r]
    BY DEF told
  <2> QED BY <2>1, <2>2, ZenonT(20) DEF Record
<1> QED BY <1>1, <1>2

(* Callbacks that mint no row, admit no use, record no choice and open no  *)
(* request: rows and petitions may only go, prompts come up for petitions. *)
LEMMA ConsentUntouched ==
    ASSUME TypeOK, ConsentInv, TiedToConnections, TiedToConnections',
           RowsAge, PetitionsKept, RecordsKept, policy' = policy,
           \A r \in DOMAIN handles' : r \in DOMAIN handles /\ handles'[r].row = handles[r].row,
           decisions' \subseteq decisions,
           \A p \in prompt' : \/ \E q \in prompt : q.petition = p.petition
                              \/ p.petition \in DOMAIN pending
    PROVE  ConsentInv'
<1>1. PetitionsAsAsked'
  BY DEF ConsentInv, PetitionsAsAsked, PetitionsKept, RecordsKept, TypeOK
<1>2. DecisionsAsChosen'
  <2> SUFFICES ASSUME NEW d \in decisions' PROVE ledger'[d.petition].choice = {d.choice}
    BY DEF DecisionsAsChosen
  <2>1. d \in decisions /\ ledger[d.petition].choice = {d.choice}
    BY DEF ConsentInv, DecisionsAsChosen
  <2>2. PICK p \in prompt : p.petition = d.petition
    BY <2>1 DEF TypeOK, DecisionBound
  <2>3. d.petition \in DOMAIN ledger
    BY <2>2 DEF ConsentInv, PromptsAskFirst
  <2> QED BY <2>1, <2>3 DEF RecordsKept
<1>3. PromptsAskFirst'
  <2> SUFFICES ASSUME NEW p \in prompt'
               PROVE  /\ p.petition \in DOMAIN ledger'
                      /\ p.petition \in DOMAIN handles' => handles'[p.petition].row = None
    BY DEF PromptsAskFirst
  <2>1. CASE \E q \in prompt : q.petition = p.petition
    BY <2>1 DEF ConsentInv, PromptsAskFirst, RecordsKept
  <2>2. CASE p.petition \in DOMAIN pending
    BY <2>2 DEF TypeOK, RecordsKept, TiedToConnections, PendingIsDeliverable, deliverable,
                RowsBelongToLiveHandles
  <2> QED BY <2>1, <2>2
<1>4. UnusedWithoutRow'
  BY DEF ConsentInv, UnusedWithoutRow, RecordsKept, TypeOK
<1>5. RowsCarryConsent'
  <2> SUFFICES ASSUME NEW r \in DOMAIN handles', NEW g \in handles'[r].row
               PROVE  /\ entries'[g].verbs = ledger'[r].ask.verbs
                      /\ entries'[g].verbs \subseteq ServedVerbs
                      /\ narrows(entries'[g].persistence, ledger'[r].ask.persistence)
                      /\ policy' = "Interactive" => ledger'[r].choice = {entries'[g].persistence}
                      /\ entries'[g].persistence = "Once" =>
                            /\ ledger'[r].uses <= 1
                            /\ ledger'[r].uses = 1 => entries'[g].liveness # "Active"
    BY DEF RowsCarryConsent
  <2>1. r \in DOMAIN handles /\ g \in handles[r].row /\ r \in DOMAIN ledger
    BY DEF TypeOK
  <2>2. g \in DOMAIN entries /\ g \in DOMAIN entries'
    BY <2>1 DEF TiedToConnections, RowsBelongToLiveHandles
  <2>3. Ages(entries[g], entries'[g])
    BY <2>2 DEF RowsAge
  <2> QED BY <2>1, <2>3 DEF ConsentInv, RowsCarryConsent, Ages, RecordsKept
<1> QED BY <1>1, <1>2, <1>3, <1>4, <1>5 DEF ConsentInv

(* handle_request_grant: the request is new, so no prompt or decision is   *)
(* about it, and its row, if it has one at once, is what it asked for.     *)
LEMMA ConsentRequests ==
    ASSUME TypeOK, ConsentInv, TiedToConnections, NEW c \in Conns, NEW i \in Identities,
           NEW ask \in Asks, NEW available \in BOOLEAN,
           \/ request_grant_declined(c, i, ask, available)
           \/ request_grant_auto_approved(c, i, ask, available)
           \/ request_grant_queued(c, i, ask, available)
    PROVE  ConsentInv'
<1>1. /\ next_request \notin DOMAIN ledger /\ next_request \notin DOMAIN handles
      /\ next_request \notin DOMAIN pending /\ next_id \notin DOMAIN entries
  BY DEF TypeOK
<1>2. PICK state, row, events :
         /\ opened_handle(c, state, row)
         /\ recorded(c, i, ask, events)
         /\ row = None \/ (row = {next_id} /\ request_grant_auto_approved(c, i, ask, available))
  BY Zenon DEF request_grant_declined, request_grant_auto_approved, request_grant_queued
<1>3. /\ DOMAIN ledger' = DOMAIN ledger \cup {next_request}
      /\ \A r \in DOMAIN ledger : ledger'[r] = ledger[r]
      /\ ledger'[next_request].ask = ask /\ ledger'[next_request].uses = 0
  BY <1>1, <1>2 DEF recorded, insert
<1>4. /\ DOMAIN handles' = DOMAIN handles \cup {next_request}
      /\ \A r \in DOMAIN handles : handles'[r] = handles[r]
      /\ handles'[next_request].row = row
  BY <1>1, <1>2 DEF opened_handle, insert
<1>5. UNCHANGED <<policy, prompt, decisions>>
  BY DEF request_grant_declined, request_grant_auto_approved, request_grant_queued,
         conn_vars, grab_vars
<1>6. \A p \in prompt : p.petition \in DOMAIN ledger
  BY DEF ConsentInv, PromptsAskFirst
<1>7. PetitionsAsAsked'
  <2>1. CASE request_grant_queued(c, i, ask, available)
    <3>1. /\ DOMAIN pending' = DOMAIN pending \cup {next_request}
          /\ \A r \in DOMAIN pending : pending'[r] = pending[r]
          /\ pending'[next_request].verbs = ask.verbs
          /\ pending'[next_request].persistence = ask.persistence
      BY <1>1, <2>1 DEF request_grant_queued, insert, opened
    <3>2. ask.verbs \subseteq ServedVerbs
      BY <2>1 DEF request_grant_queued, admission, admit
    <3> QED BY <1>3, <3>1, <3>2 DEF ConsentInv, PetitionsAsAsked, TypeOK
  <2>2. CASE pending' = pending
    BY <1>3, <2>2 DEF ConsentInv, PetitionsAsAsked, TypeOK
  <2> QED BY <2>1, <2>2 DEF request_grant_declined, request_grant_auto_approved
<1>8. DecisionsAsChosen'
  BY <1>3, <1>5, <1>6 DEF ConsentInv, DecisionsAsChosen, TypeOK, DecisionBound
<1>9. PromptsAskFirst'
  BY <1>1, <1>3, <1>4, <1>5, <1>6 DEF ConsentInv, PromptsAskFirst
<1>10. UnusedWithoutRow'
  BY <1>3, <1>4 DEF ConsentInv, UnusedWithoutRow, TypeOK
<1>11. RowsCarryConsent'
  <2> SUFFICES ASSUME NEW r \in DOMAIN handles', NEW g \in handles'[r].row
               PROVE  /\ entries'[g].verbs = ledger'[r].ask.verbs
                      /\ entries'[g].verbs \subseteq ServedVerbs
                      /\ narrows(entries'[g].persistence, ledger'[r].ask.persistence)
                      /\ policy' = "Interactive" => ledger'[r].choice = {entries'[g].persistence}
                      /\ entries'[g].persistence = "Once" =>
                            /\ ledger'[r].uses <= 1
                            /\ ledger'[r].uses = 1 => entries'[g].liveness # "Active"
    BY DEF RowsCarryConsent
  <2>1. CASE r = next_request
    <3>1. g = next_id /\ request_grant_auto_approved(c, i, ask, available)
      BY <1>2, <1>4, <2>1 DEF None
    <3>2. entries'[g].verbs = ask.verbs /\ entries'[g].persistence = ask.persistence
      BY <3>1 DEF request_grant_auto_approved, insert, minted
    <3>3. ask.verbs \subseteq ServedVerbs /\ policy = "AutoApprove"
      BY <3>1 DEF request_grant_auto_approved, admission, admit
    <3>4. narrows(ask.persistence, ask.persistence)
      BY DEF narrows, rank
    <3> QED BY <1>3, <1>5, <2>1, <3>2, <3>3, <3>4
  <2>2. CASE r \in DOMAIN handles
    <3>1. handles'[r] = handles[r] /\ ledger'[r] = ledger[r] /\ g \in handles[r].row
      BY <1>3, <1>4, <2>2 DEF TypeOK
    <3>2. g \in DOMAIN entries
      BY <2>2, <3>1 DEF TiedToConnections, RowsBelongToLiveHandles
    <3>3. entries'[g] = entries[g]
      BY <1>1, <3>2 DEF request_grant_declined, request_grant_auto_approved,
                        request_grant_queued, insert, grant_vars
    <3> QED BY <1>5, <2>2, <3>1, <3>3 DEF ConsentInv, RowsCarryConsent
  <2> QED BY <1>4, <2>1, <2>2
<1> QED BY <1>7, <1>8, <1>9, <1>10, <1>11 DEF ConsentInv

(* enforce_use: a `once` row that admits a use was Active, so this is its  *)
(* first, and commit_use spends it in the same turn.                       *)
LEMMA ConsentUses ==
    ASSUME TypeOK, TypeOK', ConsentInv, TiedToConnections, TiedToConnections', RowsAge,
           NEW c \in Conns, NEW i \in Identities, NEW r \in Requests, NEW verb \in Verbs,
           NEW clear \in BOOLEAN, enforce_use(c, i, r, verb, clear)
    PROVE  ConsentInv'
<1>1. /\ r \in DOMAIN handles /\ r \in DOMAIN ledger
      /\ UNCHANGED <<policy, handles, pending, prompt, decisions>>
  BY DEF enforce_use, TypeOK, conn_vars, petition_vars, grab_vars
<1>2. PICK g \in handles[r].row : entries' = commit_use(entries, g)
  BY DEF enforce_use
<1>3. handles[r].row = {g} /\ g \in DOMAIN entries /\ entries[g] \in Entry
  BY <1>1, <1>2, SMTT(20) DEF TypeOK, Handle, Option, TiedToConnections, RowsBelongToLiveHandles
<1>4. entries[g].liveness = "Active"
  <2>1. check_use_grant(entries, g, i, verb, now) = "None"
    <3>1. (CHOOSE h \in handles[r].row : TRUE) = g /\ handles[r].row # None
      BY <1>3 DEF None
    <3> QED BY <3>1, Zenon DEF enforce_use, use_verdict
  <2> QED BY <1>3, <2>1 DEF check_use_grant, refusal_for, Entry, Liveness
<1>5. /\ DOMAIN ledger' = DOMAIN ledger
      /\ \A s \in DOMAIN ledger : /\ ledger'[s].ask = ledger[s].ask
                                  /\ ledger'[s].choice = ledger[s].choice
                                  /\ s # r => ledger'[s].uses = ledger[s].uses
      /\ ledger'[r].uses = ledger[r].uses + 1
  <2>1. /\ DOMAIN ledger' = DOMAIN ledger
        /\ \A s \in DOMAIN ledger :
              ledger'[s] = IF s = r THEN [ledger[s] EXCEPT !.uses = ledger[s].uses + 1]
                           ELSE ledger[s]
    BY DEF enforce_use
  <2>2. \A s \in DOMAIN ledger : ledger[s] \in Record
    BY DEF TypeOK
  <2> QED BY <1>1, <2>1, <2>2 DEF Record
<1>6. PetitionsAsAsked' /\ DecisionsAsChosen' /\ PromptsAskFirst'
  <2>1. PetitionsAsAsked'
    BY <1>1, <1>5, SMTT(20) DEF ConsentInv, PetitionsAsAsked, TypeOK
  <2>2. PromptsAskFirst'
    BY <1>1, <1>5 DEF ConsentInv, PromptsAskFirst
  <2>3. \A d \in decisions : d.petition \in DOMAIN ledger
    BY SMTT(20) DEF ConsentInv, PromptsAskFirst, TypeOK, DecisionBound
  <2>4. DecisionsAsChosen'
    BY <1>1, <1>5, <2>3 DEF ConsentInv, DecisionsAsChosen
  <2> QED BY <2>1, <2>2, <2>4
<1>7. UnusedWithoutRow'
  BY <1>1, <1>3, <1>5, ZenonT(20) DEF ConsentInv, UnusedWithoutRow, TypeOK, None
<1>8. RowsCarryConsent'
  <2> SUFFICES ASSUME NEW s \in DOMAIN handles, NEW h \in handles[s].row
               PROVE  /\ entries'[h].verbs = ledger'[s].ask.verbs
                      /\ entries'[h].verbs \subseteq ServedVerbs
                      /\ narrows(entries'[h].persistence, ledger'[s].ask.persistence)
                      /\ policy = "Interactive" => ledger'[s].choice = {entries'[h].persistence}
                      /\ entries'[h].persistence = "Once" =>
                            /\ ledger'[s].uses <= 1
                            /\ ledger'[s].uses = 1 => entries'[h].liveness # "Active"
    BY <1>1 DEF RowsCarryConsent
  <2>1. s \in DOMAIN ledger /\ h \in DOMAIN entries /\ h \in DOMAIN entries'
    BY <1>1, SMTT(20) DEF TypeOK, TiedToConnections, RowsBelongToLiveHandles
  <2>2. Ages(entries[h], entries'[h])
    BY <2>1 DEF RowsAge
  <2>3. /\ entries[h].verbs = ledger[s].ask.verbs
        /\ entries[h].verbs \subseteq ServedVerbs
        /\ narrows(entries[h].persistence, ledger[s].ask.persistence)
        /\ policy = "Interactive" => ledger[s].choice = {entries[h].persistence}
        /\ entries[h].persistence = "Once" =>
              /\ ledger[s].uses <= 1
              /\ ledger[s].uses = 1 => entries[h].liveness # "Active"
    BY DEF ConsentInv, RowsCarryConsent
  <2>4. CASE s # r
    BY <1>5, <2>1, <2>2, <2>3, <2>4, SMTT(20) DEF Ages
  <2>5. CASE s = r
    <3>1. h = g
      BY <1>3, <2>5
    <3>2. ASSUME entries[g].persistence = "Once"
          PROVE  /\ ledger'[r].uses <= 1 /\ entries'[g].liveness = "Spent"
      <4>1. ledger[r].uses \in Nat
        BY <1>1 DEF TypeOK, Record
      <4>2. ledger'[r].uses <= 1
        BY <1>4, <1>5, <2>3, <2>5, <3>1, <3>2, <4>1
      <4>3. entries'[g] = [entries[g] EXCEPT !.liveness = "Spent"]
        BY <1>2, <1>3, <1>4, <3>2 DEF commit_use, moved
      <4> QED BY <1>3, <4>2, <4>3 DEF Entry
    <3> QED BY <1>5, <2>1, <2>2, <2>3, <2>5, <3>1, <3>2 DEF Ages
  <2> QED BY <2>4, <2>5
<1> QED BY <1>6, <1>7, <1>8 DEF ConsentInv

(* ConsentGrab::commit: the choice recorded is the decision's, and the     *)
(* petition it is about has no row yet.                                    *)
LEMMA ConsentHuman ==
    ASSUME TypeOK, ConsentInv, NEW p \in prompt, NEW choice \in Choice, human_answers(p, choice)
    PROVE  ConsentInv'
<1>1. p \in ArmedPrompt /\ prompt = {p} /\ decisions = {}
  BY DEF TypeOK, Option, human_answers, DecisionBound
<1>2. prompt' = {[p EXCEPT !.answered = TRUE]}
      /\ decisions' = {[petition |-> p.petition, choice |-> choice]}
  BY <1>1 DEF human_answers
<1>3. \A q \in prompt' : q.petition = p.petition
  BY <1>1, <1>2, ZenonT(20) DEF ArmedPrompt
<1>4. /\ p.petition \in DOMAIN ledger
      /\ p.petition \in DOMAIN handles => handles[p.petition].row = None
  BY DEF ConsentInv, PromptsAskFirst
<1>5. UNCHANGED <<policy, handles, pending, entries>>
  BY DEF human_answers, conn_vars, petition_vars, grant_vars
<1>6. /\ DOMAIN ledger' = DOMAIN ledger
      /\ \A s \in DOMAIN ledger : /\ ledger'[s].ask = ledger[s].ask
                                  /\ ledger'[s].uses = ledger[s].uses
                                  /\ s # p.petition => ledger'[s].choice = ledger[s].choice
      /\ ledger'[p.petition].choice = {choice}
  <2>1. /\ DOMAIN ledger' = DOMAIN ledger
        /\ \A s \in DOMAIN ledger :
              ledger'[s] = IF s = p.petition THEN [ledger[s] EXCEPT !.choice = {choice}]
                           ELSE ledger[s]
    BY DEF human_answers
  <2>2. \A s \in DOMAIN ledger : ledger[s] \in Record
    BY DEF TypeOK
  <2> QED BY <1>4, <2>1, <2>2, ZenonT(20) DEF Record
<1>7. PetitionsAsAsked'
  BY <1>5, <1>6 DEF ConsentInv, PetitionsAsAsked, TypeOK
<1>8. DecisionsAsChosen'
  BY <1>2, <1>6 DEF DecisionsAsChosen
<1>9. PromptsAskFirst'
  BY <1>3, <1>4, <1>5, <1>6 DEF PromptsAskFirst
<1>10. UnusedWithoutRow'
  BY <1>5, <1>6 DEF ConsentInv, UnusedWithoutRow, TypeOK
<1>11. RowsCarryConsent'
  <2>1. \A r \in DOMAIN handles : handles[r].row # None => r # p.petition /\ r \in DOMAIN ledger
    BY <1>4 DEF TypeOK
  <2> QED BY <1>5, <1>6, <2>1 DEF ConsentInv, RowsCarryConsent, None
<1> QED BY <1>7, <1>8, <1>9, <1>10, <1>11 DEF ConsentInv

(* The prompts the round leaves up are those it found, or of petitions.    *)
LEMMA SettledPrompts ==
    ASSUME NEW waiting, NEW log, NEW visible, settle_prompt(waiting, log, visible)
    PROVE  /\ \A p \in prompt' : p.petition \in DOMAIN waiting
           /\ \E rs : ledger' = told(log, rs, <<"shown">>)
<1>1. \A p \in raised_front(waiting) : p.petition \in DOMAIN waiting
  BY DEF raised_front, front_pending
<1> QED BY <1>1, Zenon DEF settle_prompt, retired, None

(* service_consent_round with a grant: the row has the petition's verbs    *)
(* and the rung the human chose, and the prompt it answers is lowered.     *)
LEMMA ConsentGranted ==
    ASSUME TypeOK, ConsentInv, TiedToConnections, NEW d \in decisions, NEW visible \in BOOLEAN,
           consent_round_granted(d, visible), PetitionsKept
    PROVE  ConsentInv'
<1> DEFINE r   == d.petition
           log == told(ledger, {r}, <<"closed", "granted">>)
<1>1. /\ r \in DOMAIN pending /\ d.choice \in Rungs
      /\ narrows(d.choice, pending[r].persistence)
  BY DEF consent_round_granted, applies, verdict, TypeOK, Decision, Choice
<1>2. deliverable(r)
  BY <1>1 DEF TiedToConnections, PendingIsDeliverable
<1>3. {p \in {r} : deliverable(p)} = {r}
  BY <1>2
<1>4. /\ entries' = insert(entries, next_id, granted_row(pending[r], d.choice))
      /\ handles' = resolved({r}, {next_id})
      /\ decisions' = {}
      /\ settle_prompt(without(pending, {r}), log, visible)
      /\ policy' = policy
  BY <1>3, ZenonT(20) DEF consent_round_granted, conn_vars
<1>5. r \in DOMAIN handles /\ r \in DOMAIN ledger /\ next_id \notin DOMAIN entries
  BY <1>1, <1>2 DEF deliverable, TypeOK
<1>6. /\ \A g \in DOMAIN entries : entries'[g] = entries[g]
      /\ entries'[next_id].verbs = pending[r].verbs
      /\ entries'[next_id].persistence = d.choice
  BY <1>4, <1>5 DEF insert, granted_row, minted
<1>7. /\ DOMAIN handles' = DOMAIN handles
      /\ \A h \in DOMAIN handles : h # r => handles'[h] = handles[h]
      /\ handles'[r].row = {next_id}
  <2>1. handles[r] \in Handle
    BY <1>5 DEF TypeOK
  <2>2. handles'[r] = [handles[r] EXCEPT !.state = "Resolved", !.row = {next_id}]
    BY <1>4, <1>5, Zenon DEF resolved
  <2> QED BY <1>4, <2>1, <2>2, ZenonT(20) DEF resolved, Handle
<1>8. /\ DOMAIN log = DOMAIN ledger
      /\ \A h \in DOMAIN ledger : log[h] \in Record
  <2>1. <<"closed", "granted">> \in Seq(Events)
    BY DEF Events
  <2> QED BY <2>1, ToldType, ZenonT(20) DEF TypeOK
<1>9. \A h \in DOMAIN ledger : /\ log[h].ask = ledger[h].ask
                               /\ log[h].choice = ledger[h].choice
                               /\ log[h].uses = ledger[h].uses
  <2>1. \A h \in DOMAIN ledger : ledger[h] \in Record
    BY DEF TypeOK
  <2> QED BY <2>1, ToldKeeps
<1> HIDE DEF log
<1>10. RecordsKept
  <2>1. PICK rs : ledger' = told(log, rs, <<"shown">>)
    BY <1>4, SettledPrompts
  <2> QED BY <1>8, <1>9, <2>1, ToldKeeps DEF RecordsKept
<1>11. PetitionsAsAsked'
  BY <1>10, ZenonT(20) DEF ConsentInv, PetitionsAsAsked, PetitionsKept, RecordsKept, TypeOK
<1>12. DecisionsAsChosen'
  BY <1>4 DEF DecisionsAsChosen
<1>13. PromptsAskFirst'
  <2> SUFFICES ASSUME NEW p \in prompt'
               PROVE  /\ p.petition \in DOMAIN ledger'
                      /\ p.petition \in DOMAIN handles' => handles'[p.petition].row = None
    BY DEF PromptsAskFirst
  <2>1. p.petition \in DOMAIN pending /\ p.petition # r
    BY <1>4, SettledPrompts DEF without
  <2> QED BY <1>7, <1>10, <2>1 DEF RecordsKept, TypeOK, TiedToConnections, PendingIsDeliverable,
                                   RowsBelongToLiveHandles, deliverable
<1>14. UnusedWithoutRow'
  BY <1>7, <1>10, Zenon DEF ConsentInv, UnusedWithoutRow, RecordsKept, TypeOK, None
<1>15. ledger[r].uses = 0 /\ ledger[r].choice = {d.choice}
  BY <1>1, <1>2 DEF ConsentInv, UnusedWithoutRow, DecisionsAsChosen, deliverable,
                    TiedToConnections, RowsBelongToLiveHandles
<1>16. RowsCarryConsent'
  <2> SUFFICES ASSUME NEW s \in DOMAIN handles', NEW g \in handles'[s].row
               PROVE  /\ entries'[g].verbs = ledger'[s].ask.verbs
                      /\ entries'[g].verbs \subseteq ServedVerbs
                      /\ narrows(entries'[g].persistence, ledger'[s].ask.persistence)
                      /\ policy' = "Interactive" => ledger'[s].choice = {entries'[g].persistence}
                      /\ entries'[g].persistence = "Once" =>
                            /\ ledger'[s].uses <= 1
                            /\ ledger'[s].uses = 1 => entries'[g].liveness # "Active"
    BY DEF RowsCarryConsent
  <2>1. CASE s = r
    <3>1. g = next_id
      BY <1>7, <2>1
    <3>2. /\ pending[r].verbs = ledger[r].ask.verbs
          /\ pending[r].persistence = ledger[r].ask.persistence
          /\ pending[r].verbs \subseteq ServedVerbs
      BY <1>1 DEF ConsentInv, PetitionsAsAsked
    <3> QED BY <1>1, <1>5, <1>6, <1>10, <1>15, <2>1, <3>1, <3>2 DEF RecordsKept
  <2>2. CASE s # r
    <3>1. s \in DOMAIN handles /\ g \in handles[s].row /\ s \in DOMAIN ledger
      BY <1>7, <2>2 DEF TypeOK
    <3>2. entries'[g] = entries[g]
      BY <1>6, <3>1 DEF TiedToConnections, RowsBelongToLiveHandles
    <3> QED BY <1>4, <1>10, <3>1, <3>2 DEF ConsentInv, RowsCarryConsent, RecordsKept
  <2> QED BY <2>1, <2>2
<1> QED BY <1>11, <1>12, <1>13, <1>14, <1>16 DEF ConsentInv

(* An answer without a row changes no handle's row: it had none.           *)
LEMMA DeclinedRows ==
    ASSUME TypeOK, TiedToConnections, NEW rs, \A r \in rs : deliverable(r),
           handles' = resolved(rs, None)
    PROVE  \A r \in DOMAIN handles' : r \in DOMAIN handles /\ handles'[r].row = handles[r].row
<1>1. DOMAIN handles' = DOMAIN handles
  BY Zenon DEF resolved
<1> SUFFICES ASSUME NEW r \in DOMAIN handles PROVE handles'[r].row = handles[r].row
  BY <1>1
<1>2. handles[r] \in Handle
  BY DEF TypeOK
<1>3. CASE r \in rs
  <2>1. handles[r].row = None
    BY <1>3 DEF deliverable, TiedToConnections, RowsBelongToLiveHandles
  <2>2. handles'[r] = [handles[r] EXCEPT !.state = "Resolved", !.row = None]
    BY <1>3, Zenon DEF resolved
  <2> QED BY <1>2, <2>1, <2>2 DEF Handle
<1>4. CASE r \notin rs
  BY <1>4, Zenon DEF resolved
<1> QED BY <1>3, <1>4

(* The timers, the dead-man switch and the rounds that grant nothing.      *)
LEMMA ConsentDeclined ==
    ASSUME TypeOK, ConsentInv, TiedToConnections, TiedToConnections', RowsAge,
           \/ sweep_at
           \/ apply_dead_man
           \/ \E visible \in BOOLEAN : consent_round_quiet(visible)
           \/ \E d \in decisions, visible \in BOOLEAN : consent_round_denied(d, visible),
           PetitionsKept
    PROVE  ConsentInv'
<1>0. \A r \in DOMAIN ledger : ledger[r] \in Record
  BY DEF TypeOK
<1>1. ASSUME NEW over \in SUBSET DOMAIN pending, deliver_declined(over),
             UNCHANGED <<conn_vars, grab_vars>>
      PROVE  ConsentInv'
  <2>1. \A r \in DOMAIN handles' : r \in DOMAIN handles /\ handles'[r].row = handles[r].row
    BY <1>1, DeclinedRows DEF deliver_declined
  <2>2. RecordsKept
    BY <1>0, <1>1, ToldKeeps DEF deliver_declined, RecordsKept
  <2> QED BY <1>1, <2>1, <2>2, ConsentUntouched DEF conn_vars, grab_vars
<1>2. CASE sweep_at
  <2>1. deliver_declined(expired_petitions(pending, now)) /\ UNCHANGED <<conn_vars, grab_vars>>
    BY <1>2 DEF sweep_at
  <2>2. expired_petitions(pending, now) \in SUBSET DOMAIN pending
    BY DEF expired_petitions
  <2> QED BY <1>1, <2>1, <2>2
<1>3. CASE apply_dead_man
  BY <1>1, <1>3 DEF apply_dead_man
<1>4. ASSUME NEW visible \in BOOLEAN, consent_round_quiet(visible) PROVE ConsentInv'
  <2>1. /\ settle_prompt(pending, ledger, visible) /\ decisions' = {}
        /\ UNCHANGED <<policy, handles>>
    BY <1>4 DEF consent_round_quiet, conn_vars
  <2>2. RecordsKept
    BY <1>0, <2>1, SettledPrompts, ToldKeeps DEF RecordsKept
  <2>3. \A p \in prompt' : p.petition \in DOMAIN pending
    BY <2>1, SettledPrompts
  <2> QED BY <2>1, <2>2, <2>3, ConsentUntouched
<1>5. ASSUME NEW d \in decisions, NEW visible \in BOOLEAN, consent_round_denied(d, visible)
      PROVE  ConsentInv'
  <2> DEFINE rs  == {p \in {d.petition} : deliverable(p)}
             log == told(ledger, rs, <<"closed", "declined">>)
  <2>1. /\ settle_prompt(without(pending, {d.petition}), log, visible) /\ decisions' = {}
        /\ handles' = resolved(rs, None) /\ policy' = policy
    BY <1>5, ZenonT(20) DEF consent_round_denied, conn_vars
  <2>2. \A r \in DOMAIN handles' : r \in DOMAIN handles /\ handles'[r].row = handles[r].row
    BY <2>1, DeclinedRows
  <2>3. DOMAIN log = DOMAIN ledger /\ \A r \in DOMAIN ledger : log[r] \in Record
    <3>1. <<"closed", "declined">> \in Seq(Events)
      BY DEF Events
    <3> QED BY <1>0, <3>1, ToldType, ZenonT(20)
  <2>4. \A r \in DOMAIN ledger : /\ log[r].ask = ledger[r].ask
                                 /\ log[r].choice = ledger[r].choice
                                 /\ log[r].uses = ledger[r].uses
    BY <1>0, ToldKeeps
  <2> HIDE DEF log
  <2>5. RecordsKept
    <3>1. PICK shown : ledger' = told(log, shown, <<"shown">>)
      BY <2>1, SettledPrompts
    <3> QED BY <2>3, <2>4, <3>1, ToldKeeps DEF RecordsKept
  <2>6. \A p \in prompt' : p.petition \in DOMAIN pending
    BY <2>1, SettledPrompts DEF without
  <2> QED BY <2>1, <2>2, <2>5, <2>6, ConsentUntouched
<1> QED BY <1>2, <1>3, <1>4, <1>5

LEMMA ConsentHolds == Spec => []ConsentInv
<1>1. Init => ConsentInv
  BY DEF Init, ConsentInv, PetitionsAsAsked, DecisionsAsChosen, PromptsAskFirst,
         UnusedWithoutRow, RowsCarryConsent, None
<1>2. /\ TypeOK /\ TypeOK' /\ TiedToConnections /\ TiedToConnections'
      /\ ConsentInv /\ [Next]_vars
      => ConsentInv'
  <2> SUFFICES ASSUME TypeOK, TypeOK', TiedToConnections, TiedToConnections', ConsentInv,
                      [Next]_vars
               PROVE  ConsentInv'
    OBVIOUS
  <2>0. RowsAge
    BY TableStep
  <2>0a. next_request' = next_request => PetitionsKept
    <3>1. next_request \in Nat
      BY DEF TypeOK
    <3>2. ASSUME NEW c \in Conns, NEW i \in Identities, NEW ask \in Asks,
                 NEW available \in BOOLEAN, request_grant_queued(c, i, ask, available)
          PROVE  next_request' = next_request + 1
      BY <3>2, Zenon DEF request_grant_queued, petitioning
    <3> QED BY <3>1, <3>2, RegistryStep
  <2>1. ASSUME UNCHANGED <<policy, handles, pending, prompt, decisions, ledger>>
        PROVE  ConsentInv'
    BY <2>0, <2>1, ConsentUntouched DEF PetitionsKept, RecordsKept
  <2>2. CASE Agent
    <3> PICK c \in Conns :
            \/ accept_principal(c) \/ close_principal(c)
            \/ \E i \in Identities :
                  \/ handle_hello(c, i)
                  \/ \E ask \in Asks, available \in BOOLEAN :
                        \/ request_grant_declined(c, i, ask, available)
                        \/ request_grant_auto_approved(c, i, ask, available)
                        \/ request_grant_queued(c, i, ask, available)
                  \/ \E r \in Requests, verb \in Verbs, clear \in BOOLEAN :
                        \/ enforce_use(c, i, r, verb, clear)
                        \/ enforce_use_refused(c, i, r, verb, clear)
      BY <2>2 DEF Agent
    <3>1. CASE accept_principal(c) \/ \E i \in Identities : handle_hello(c, i)
      BY <2>1, <3>1 DEF accept_principal, handle_hello, petition_vars, grab_vars
    <3>2. CASE close_principal(c)
      <4>1. PetitionsKept /\ RecordsKept /\ UNCHANGED <<policy, prompt, decisions>>
        BY <3>2 DEF close_principal, without, PetitionsKept, RecordsKept, grab_vars
      <4>2. \A r \in DOMAIN handles' : r \in DOMAIN handles /\ handles'[r].row = handles[r].row
        BY <3>2 DEF close_principal, without
      <4> QED BY <2>0, <4>1, <4>2, ConsentUntouched
    <3>3. CASE \E i \in Identities, r \in Requests, verb \in Verbs, clear \in BOOLEAN :
                  enforce_use_refused(c, i, r, verb, clear)
      <4>1. UNCHANGED vars
        BY <3>3 DEF enforce_use_refused
      <4> QED BY <2>1, <4>1 DEF vars
    <3> QED BY <2>0, <3>1, <3>2, <3>3, ConsentRequests, ConsentUses
  <2>3. CASE \E p \in prompt, choice \in Choice : human_answers(p, choice)
    BY <2>3, ConsentHuman
  <2>4. CASE apply_dead_man
    <3>1. PetitionsKept
      BY <2>4 DEF apply_dead_man, without, PetitionsKept
    <3> QED BY <2>0, <2>4, <3>1, ConsentDeclined
  <2>5. CASE sweep_at
    <3>1. PetitionsKept
      BY <2>5 DEF sweep_at, without, PetitionsKept
    <3> QED BY <2>0, <2>5, <3>1, ConsentDeclined
  <2>6. CASE tick
    BY <2>1, <2>6 DEF tick, conn_vars, petition_vars, grab_vars
  <2>7. CASE \E visible \in BOOLEAN : consent_round_quiet(visible)
    <3>1. next_request' = next_request
      BY <2>7, Zenon DEF consent_round_quiet
    <3> QED BY <2>0, <2>0a, <2>7, <3>1, ConsentDeclined
  <2>8. CASE \E d \in decisions, visible \in BOOLEAN : consent_round_denied(d, visible)
    <3>1. next_request' = next_request
      BY <2>8, Zenon DEF consent_round_denied
    <3> QED BY <2>0, <2>0a, <2>8, <3>1, ConsentDeclined
  <2>9. CASE \E d \in decisions, visible \in BOOLEAN : consent_round_granted(d, visible)
    BY <2>9, RegistryStep, ConsentGranted
  <2>10. CASE UNCHANGED vars
    BY <2>1, <2>10 DEF vars
  <2> QED
    BY <2>2, <2>3, <2>4, <2>5, <2>6, <2>7, <2>8, <2>9, <2>10 DEF Next, Human, Loop
<1> QED BY <1>1, <1>2, TypeCorrect, AuthorityIsTiedToConnections, PTL DEF Spec

(* A row never says more than the human did: for every interleaving of     *)
(* requests, prompts, answers, sweeps, uses and teardowns it has the verbs *)
(* asked for, the rung chosen, and one use if that rung is `once`.         *)
THEOREM ConsentIsCarried == Spec => []RowsCarryConsent
<1>1. ConsentInv => RowsCarryConsent
  BY DEF ConsentInv
<1> QED BY <1>1, ConsentHolds, PTL

-----------------------------------------------------------------------------
(* WireOrder speaks of the ends of stories; what is inductive is where in  *)
(* its story a request stands.  One that waits has been told no more than  *)
(* that it is queued and, once its prompt came up, shown; one that has     *)
(* been answered has heard a whole story.                                  *)
Asking == {<<"queued">>, <<"queued", "shown">>}

StoriesSoFar ==
    /\ \A r \in DOMAIN ledger :
          /\ ledger[r].told \in Asking \cup WireStories
          /\ r \in DOMAIN handles => (handles[r].state = "Resolved" <=> ledger[r].told \in WireStories)
    /\ \A r \in DOMAIN pending :
          /\ ledger[r].told = IF pending[r].prompt_shown THEN <<"queued", "shown">>
                              ELSE <<"queued">>
          /\ pending[r].prompt_shown <=> \E p \in prompt : p.petition = r

(* Appending events, for the lengths that occur.                           *)
LEMMA AppendedEvents ==
    ASSUME NEW a \in Events, NEW b \in Events, NEW c \in Events, NEW d \in Events
    PROVE  /\ <<a>> \o <<b>> = <<a, b>>
           /\ <<a>> \o <<b, c>> = <<a, b, c>>
           /\ <<a, b>> \o <<c, d>> = <<a, b, c, d>>
<1>1. <<a>> \o <<b>> = <<a, b>>
  <2>1. /\ <<a>> \o <<b>> \in Seq(Events) /\ <<a, b>> \in Seq(Events)
        /\ Len(<<a>> \o <<b>>) = 2
        /\ \A i \in 1 .. 2 : (<<a>> \o <<b>>)[i] = <<a, b>>[i]
    BY JoinedSequences
  <2> QED BY <2>1, SameSequence, Zenon
<1>2. <<a>> \o <<b, c>> = <<a, b, c>>
  <2>1. /\ <<a>> \o <<b, c>> \in Seq(Events) /\ <<a, b, c>> \in Seq(Events)
        /\ Len(<<a>> \o <<b, c>>) = 3
        /\ \A i \in 1 .. 3 : (<<a>> \o <<b, c>>)[i] = <<a, b, c>>[i]
    BY JoinedSequences
  <2> QED BY <2>1, SameSequence, Zenon
<1>3. <<a, b>> \o <<c, d>> = <<a, b, c, d>>
  <2>1. /\ <<a, b>> \o <<c, d>> \in Seq(Events) /\ <<a, b, c, d>> \in Seq(Events)
        /\ Len(<<a, b>> \o <<c, d>>) = 4
        /\ \A i \in 1 .. 4 : (<<a, b>> \o <<c, d>>)[i] = <<a, b, c, d>>[i]
    BY JoinedSequences
  <2> QED BY <2>1, SameSequence, Zenon
<1> QED BY <1>1, <1>2, <1>3

(* The stories, written out.                                               *)
LEMMA StoriesListed ==
    WireStories = {<<"declined">>, <<"closed", "granted">>,
                   <<"queued", "closed", "granted">>, <<"queued", "closed", "declined">>,
                   <<"queued", "shown", "closed", "granted">>,
                   <<"queued", "shown", "closed", "declined">>}
<1>1. ASSUME NEW o \in Events
      PROVE  /\ (<<"queued">> \o <<>>) \o <<"closed", o>> = <<"queued", "closed", o>>
             /\ (<<"queued">> \o <<"shown">>) \o <<"closed", o>>
                   = <<"queued", "shown", "closed", o>>
  <2>1. <<"queued">> \o <<>> = <<"queued">>
    OBVIOUS
  <2>2. <<"queued">> \o <<"shown">> = <<"queued", "shown">>
    BY AppendedEvents DEF Events
  <2>3. <<"queued">> \o <<"closed", o>> = <<"queued", "closed", o>>
    BY AppendedEvents DEF Events
  <2>4. <<"queued", "shown">> \o <<"closed", o>> = <<"queued", "shown", "closed", o>>
    BY AppendedEvents DEF Events
  <2> QED BY <2>1, <2>2, <2>3, <2>4, Zenon
<1> QED BY <1>1 DEF WireStories, Events

(* An answer makes a story whole, and a story that waits is not whole.     *)
LEMMA AnswersEndStories ==
    /\ Asking \cap WireStories = {}
    /\ \A t \in Asking, o \in {"granted", "declined"} : t \o <<"closed", o>> \in WireStories
    /\ <<"queued">> \o <<"shown">> = <<"queued", "shown">>
<1>1. Asking \cap WireStories = {}
  BY StoriesListed DEF Asking
<1>2. ASSUME NEW o \in {"granted", "declined"}
      PROVE  /\ <<"queued">> \o <<"closed", o>> \in WireStories
             /\ <<"queued", "shown">> \o <<"closed", o>> \in WireStories
  <2>1. o \in Events
    BY DEF Events
  <2>2. <<"queued">> \o <<"closed", o>> = <<"queued", "closed", o>>
    BY <2>1, AppendedEvents, SMTT(20) DEF Events
  <2>3. <<"queued", "shown">> \o <<"closed", o>> = <<"queued", "shown", "closed", o>>
    BY <2>1, AppendedEvents DEF Events
  <2> QED BY <2>2, <2>3, StoriesListed
<1>3. <<"queued">> \o <<"shown">> = <<"queued", "shown">>
  BY AppendedEvents DEF Events
<1> QED BY <1>1, <1>2, <1>3, Zenon DEF Asking

LEMMA StoriesGiveWireOrder ==
    ASSUME TypeOK, StoriesSoFar
    PROVE  WireOrder
<1>1. ASSUME NEW t \in Seq(Events), t \in Asking \cup WireStories
      PROVE  \E story \in WireStories : /\ Len(t) <= Len(story)
                                        /\ t = SubSeq(story, 1, Len(t))
                                        /\ t \in WireStories <=> t = story
  <2>1. CASE t \in WireStories
    BY <2>1, WholeSequence
  <2>2. CASE t \in Asking
    <3> DEFINE s == <<"queued", "shown", "closed", "granted">>
    <3>1. s \in WireStories /\ Len(s) = 4
      BY StoriesListed
    <3>2. <<"queued">> = SubSeq(s, 1, 1) /\ <<"queued", "shown">> = SubSeq(s, 1, 2)
      OBVIOUS
    <3>3. Len(<<"queued">>) = 1 /\ Len(<<"queued", "shown">>) = 2
      OBVIOUS
    <3>4. t # s /\ t \notin WireStories
      BY <2>2, <3>1, AnswersEndStories, Zenon
    <3> HIDE DEF s
    <3>5. CASE t = <<"queued">>
      BY <3>1, <3>2, <3>3, <3>4, <3>5
    <3>6. CASE t = <<"queued", "shown">>
      BY <3>1, <3>2, <3>3, <3>4, <3>6
    <3> QED BY <2>2, <3>5, <3>6 DEF Asking
  <2> QED BY <1>1, <2>1, <2>2
<1>2. ASSUME NEW r \in DOMAIN ledger
      PROVE  \E story \in WireStories :
                /\ Len(ledger[r].told) <= Len(story)
                /\ ledger[r].told = SubSeq(story, 1, Len(ledger[r].told))
                /\ r \in DOMAIN handles =>
                      (handles[r].state = "Resolved" <=> ledger[r].told = story)
  <2>1. ledger[r].told \in Seq(Events)
    BY DEF TypeOK, Record
  <2>2. PICK story \in WireStories :
           /\ Len(ledger[r].told) <= Len(story)
           /\ ledger[r].told = SubSeq(story, 1, Len(ledger[r].told))
           /\ ledger[r].told \in WireStories <=> ledger[r].told = story
    BY <1>1, <2>1 DEF StoriesSoFar
  <2> QED BY <2>2 DEF StoriesSoFar
<1> QED BY <1>2, ZenonT(20) DEF WireOrder, StoriesSoFar

LEMMA ToldAppends ==
    ASSUME NEW log, \A r \in DOMAIN log : log[r] \in Record, NEW rs, NEW events
    PROVE  \A r \in DOMAIN log :
              /\ r \in rs => told(log, rs, events)[r].told = log[r].told \o events
              /\ r \notin rs => told(log, rs, events)[r] = log[r]
<1> SUFFICES ASSUME NEW r \in DOMAIN log
             PROVE  /\ r \in rs => told(log, rs, events)[r].told = log[r].told \o events
                    /\ r \notin rs => told(log, rs, events)[r] = log[r]
  OBVIOUS
<1>1. r \in rs => told(log, rs, events)[r] = [log[r] EXCEPT !.told = log[r].told \o events]
  BY Zenon DEF told
<1>2. log[r] \in Record
  OBVIOUS
<1> DEFINE longer == log[r].told \o events
<1>3. [log[r] EXCEPT !.told = longer].told = longer
  <2> HIDE DEF longer
  <2> QED BY <1>2, ZenonT(20) DEF Record
<1>4. r \notin rs => told(log, rs, events)[r] = log[r]
  BY Zenon DEF told
<1> QED BY <1>1, <1>3, <1>4, Zenon

(* What a callback that opens no request does to the stories: those of rs  *)
(* are answered, those of shown get their prompt, the others stand where   *)
(* they stood.                                                             *)
StoryStep(rs, shown) ==
    /\ DOMAIN handles' \subseteq DOMAIN handles
    /\ \A r \in DOMAIN handles' :
          handles'[r].state = IF r \in rs THEN "Resolved" ELSE handles[r].state
    /\ DOMAIN ledger' = DOMAIN ledger
    /\ \A r \in DOMAIN ledger :
          /\ r \in rs => ledger'[r].told \in WireStories
          /\ r \in shown => ledger'[r].told = <<"queued", "shown">>
          /\ r \notin rs /\ r \notin shown => ledger'[r].told = ledger[r].told
    /\ rs \cap shown = {}
    /\ shown \subseteq DOMAIN pending
    /\ DOMAIN pending' \subseteq DOMAIN pending \ rs
    /\ \A r \in DOMAIN pending' :
          /\ pending'[r].prompt_shown <=> pending[r].prompt_shown \/ r \in shown
          /\ (\E p \in prompt' : p.petition = r)
                <=> r \in shown \/ \E p \in prompt : p.petition = r

LEMMA StoriesStep ==
    ASSUME TypeOK, StoriesSoFar, NEW rs, NEW shown, StoryStep(rs, shown)
    PROVE  StoriesSoFar'
<1> USE DEF StoryStep
<1>1. \A r \in DOMAIN pending : ledger[r].told \in Asking
  BY DEF StoriesSoFar, Asking
<1>2. ASSUME NEW r \in DOMAIN ledger'
      PROVE  /\ ledger'[r].told \in Asking \cup WireStories
             /\ r \in DOMAIN handles' =>
                   (handles'[r].state = "Resolved" <=> ledger'[r].told \in WireStories)
  <2>1. CASE r \in rs
    BY <2>1
  <2>2. CASE r \in shown
    <3>1. ledger'[r].told \in Asking /\ ledger[r].told \in Asking
      <4>1. <<"queued", "shown">> \in Asking
        BY DEF Asking
      <4> QED BY <1>1, <2>2, <4>1
    <3>2. r \notin rs /\ ledger[r].told \notin WireStories /\ ledger'[r].told \notin WireStories
      BY <2>2, <3>1, AnswersEndStories
    <3>3. r \in DOMAIN handles' =>
             /\ handles'[r].state = handles[r].state
             /\ handles[r].state # "Resolved"
      BY <3>2 DEF StoriesSoFar
    <3> QED BY <3>1, <3>2, <3>3
  <2>3. CASE r \notin rs /\ r \notin shown
    BY <2>3 DEF StoriesSoFar
  <2> QED BY <2>1, <2>2, <2>3
<1>3. ASSUME NEW r \in DOMAIN pending'
      PROVE  /\ ledger'[r].told = IF pending'[r].prompt_shown THEN <<"queued", "shown">>
                                  ELSE <<"queued">>
             /\ pending'[r].prompt_shown <=> \E p \in prompt' : p.petition = r
  <2>1. r \in DOMAIN pending /\ r \in DOMAIN ledger /\ r \notin rs
    BY DEF TypeOK
  <2>2. CASE r \in shown
    BY <2>1, <2>2
  <2>3. CASE r \notin shown
    BY <2>1, <2>3 DEF StoriesSoFar
  <2> QED BY <2>2, <2>3
<1> QED BY <1>2, <1>3, Zenon DEF StoriesSoFar

(* Handles and records after the requests of rs, and no others, have been  *)
(* answered; and what resolved and told make of them.                      *)
Answered(rs, hs, log) ==
    /\ DOMAIN hs = DOMAIN handles
    /\ \A r \in DOMAIN handles : hs[r].state = IF r \in rs THEN "Resolved" ELSE handles[r].state
    /\ DOMAIN log = DOMAIN ledger
    /\ \A r \in DOMAIN ledger : /\ log[r] \in Record
                                /\ r \in rs => log[r].told \in WireStories
                                /\ r \notin rs => log[r] = ledger[r]

LEMMA StoriesAnswered ==
    ASSUME TypeOK, StoriesSoFar, NEW rs \in SUBSET DOMAIN pending,
           NEW outcome \in {"granted", "declined"}, NEW row
    PROVE  Answered(rs, resolved(rs, row), told(ledger, rs, <<"closed", outcome>>))
<1> DEFINE log == told(ledger, rs, <<"closed", outcome>>)
<1>1. /\ DOMAIN resolved(rs, row) = DOMAIN handles
      /\ \A r \in DOMAIN handles :
            resolved(rs, row)[r].state = IF r \in rs THEN "Resolved" ELSE handles[r].state
  <2>1. \A r \in DOMAIN handles : handles[r] \in Handle
    BY DEF TypeOK
  <2> QED BY <2>1, ZenonT(20) DEF resolved, Handle
<1>2. \A r \in DOMAIN ledger : ledger[r] \in Record
  BY DEF TypeOK
<1>3. DOMAIN log = DOMAIN ledger /\ \A r \in DOMAIN ledger : log[r] \in Record
  <2>1. <<"closed", outcome>> \in Seq(Events)
    BY DEF Events
  <2> QED BY <1>2, <2>1, ToldType, ZenonT(20)
<1>4. ASSUME NEW r \in DOMAIN ledger
      PROVE  /\ r \in rs => log[r].told \in WireStories
             /\ r \notin rs => log[r] = ledger[r]
  <2>1. /\ r \in rs => log[r].told = ledger[r].told \o <<"closed", outcome>>
        /\ r \notin rs => log[r] = ledger[r]
    <3>1. ASSUME NEW events
          PROVE  /\ r \in rs => told(ledger, rs, events)[r].told = ledger[r].told \o events
                 /\ r \notin rs => told(ledger, rs, events)[r] = ledger[r]
      BY <1>2, ToldAppends
    <3> QED BY <3>1, Zenon
  <2>2. r \in rs => ledger[r].told \in Asking
    BY DEF StoriesSoFar, Asking
  <2>3. ASSUME NEW t \in Asking PROVE t \o <<"closed", outcome>> \in WireStories
    BY AnswersEndStories, Zenon
  <2> HIDE DEF log
  <2> QED BY <2>1, <2>2, <2>3, Zenon
<1> QED BY <1>1, <1>3, <1>4, Zenon DEF Answered

(* The tail of the round: a prompt is kept while its petition waits, and   *)
(* the one that replaces it is of a petition that had none.                *)
LEMMA StoriesSettled ==
    ASSUME TypeOK, StoriesSoFar, TiedToConnections, NEW visible \in BOOLEAN,
           NEW rs \in SUBSET DOMAIN pending, NEW waiting, NEW log,
           DOMAIN waiting = DOMAIN pending \ rs,
           \A r \in DOMAIN waiting : waiting[r] = pending[r],
           Answered(rs, handles', log), settle_prompt(waiting, log, visible)
    PROVE  StoriesSoFar'
<1> DEFINE kept  == retired(prompt, waiting)
           fresh == IF visible /\ kept = None THEN raised_front(waiting) ELSE None
           shown == {p.petition : p \in fresh}
<1>1. /\ prompt' = kept \cup fresh
      /\ pending' = mark_prompt_shown(waiting, shown)
      /\ ledger' = told(log, {r \in shown : phase[waiting[r].connection] = "Bound"}, <<"shown">>)
  BY Zenon DEF settle_prompt
<1>2. shown \subseteq DOMAIN waiting
  <2>1. \A p \in raised_front(waiting) : p.petition \in DOMAIN waiting
    BY DEF raised_front, front_pending
  <2> QED BY <2>1, Zenon DEF None
<1> USE DEF Answered
<1>3. {r \in shown : phase[waiting[r].connection] = "Bound"} = shown
  BY <1>2 DEF TiedToConnections, PendingIsDeliverable, deliverable
<1>4. ASSUME NEW r \in DOMAIN waiting
      PROVE  (\E p \in prompt' : p.petition = r) <=> r \in shown \/ \E p \in prompt : p.petition = r
  BY <1>1, Zenon DEF retired
<1>5. \A r \in shown : ~pending[r].prompt_shown
  <2> SUFFICES ASSUME NEW r \in shown PROVE ~pending[r].prompt_shown
    OBVIOUS
  <2>1. kept = {} /\ r \in DOMAIN waiting
    BY <1>2 DEF None
  <2>2. ~ \E p \in prompt : p.petition = r
    BY <2>1 DEF retired
  <2> QED BY <2>1, <2>2 DEF StoriesSoFar
<1> HIDE DEF kept, fresh, shown
<1>6. /\ DOMAIN pending' = DOMAIN waiting
      /\ \A r \in DOMAIN waiting :
            pending'[r].prompt_shown <=> pending[r].prompt_shown \/ r \in shown
  <2>1. \A r \in DOMAIN waiting : waiting[r] \in Petition(Conns)
    BY DEF TypeOK
  <2> QED BY <1>1, <2>1, ZenonT(20) DEF mark_prompt_shown, Petition
<1>7. /\ DOMAIN ledger' = DOMAIN ledger
      /\ \A r \in DOMAIN ledger : /\ r \in shown => ledger'[r].told = log[r].told \o <<"shown">>
                                  /\ r \notin shown => ledger'[r] = log[r]
  <2>1. ledger' = told(log, shown, <<"shown">>)
    BY <1>1, <1>3, Zenon
  <2>2. ASSUME NEW events, NEW r \in DOMAIN log
        PROVE  /\ r \in shown => told(log, shown, events)[r].told = log[r].told \o events
               /\ r \notin shown => told(log, shown, events)[r] = log[r]
    <3>1. \A h \in DOMAIN log : log[h] \in Record
      OBVIOUS
    <3> QED BY <3>1, ToldAppends
  <2> QED BY <2>1, <2>2, Zenon DEF told
<1>8. ASSUME NEW r \in shown PROVE ledger'[r].told = <<"queued", "shown">> /\ r \notin rs
  <2>1. r \in DOMAIN pending /\ r \in DOMAIN ledger /\ r \notin rs
    BY <1>2 DEF TypeOK
  <2>2. log[r].told = <<"queued">>
    BY <1>5, <2>1 DEF StoriesSoFar
  <2> QED BY <1>7, <2>1, <2>2, AnswersEndStories, Zenon
<1>9. \A r \in DOMAIN ledger :
         /\ r \in rs => ledger'[r].told \in WireStories
         /\ r \in shown => ledger'[r].told = <<"queued", "shown">>
         /\ r \notin rs /\ r \notin shown => ledger'[r].told = ledger[r].told
  BY <1>7, <1>8
<1>10. /\ rs \cap shown = {} /\ shown \subseteq DOMAIN pending
       /\ DOMAIN pending' \subseteq DOMAIN pending \ rs
  BY <1>2, <1>6
<1>11. \A r \in DOMAIN pending' :
          /\ pending'[r].prompt_shown <=> pending[r].prompt_shown \/ r \in shown
          /\ (\E p \in prompt' : p.petition = r)
                <=> r \in shown \/ \E p \in prompt : p.petition = r
  BY <1>4, <1>6
<1>12. /\ DOMAIN handles' \subseteq DOMAIN handles
       /\ \A r \in DOMAIN handles' :
             handles'[r].state = IF r \in rs THEN "Resolved" ELSE handles[r].state
  OBVIOUS
<1>13. StoryStep(rs, shown)
  BY <1>7, <1>9, <1>10, <1>11, <1>12, Zenon DEF StoryStep
<1> QED BY <1>13, StoriesStep

(* handle_request_grant: the new story begins, or is told at once.         *)
LEMMA StoriesRequests ==
    ASSUME TypeOK, StoriesSoFar, PromptsAskFirst, NEW c \in Conns, NEW i \in Identities,
           NEW ask \in Asks, NEW available \in BOOLEAN,
           \/ request_grant_declined(c, i, ask, available)
           \/ request_grant_auto_approved(c, i, ask, available)
           \/ request_grant_queued(c, i, ask, available)
    PROVE  StoriesSoFar'
<1>1. /\ next_request \notin DOMAIN ledger /\ next_request \notin DOMAIN handles
      /\ next_request \notin DOMAIN pending
  BY DEF TypeOK
<1>2. PICK state, row, events :
         /\ opened_handle(c, state, row)
         /\ recorded(c, i, ask, events)
         /\ \/ state = "Resolved" /\ events \in {<<"declined">>, <<"closed", "granted">>}
                 /\ pending' = pending
            \/ state = "Pending" /\ events = <<"queued">>
                 /\ pending' = insert(pending, next_request, opened(c, i, ask, now))
  BY Zenon DEF request_grant_declined, request_grant_auto_approved, request_grant_queued
<1>3. /\ DOMAIN ledger' = DOMAIN ledger \cup {next_request}
      /\ \A r \in DOMAIN ledger : ledger'[r] = ledger[r]
      /\ ledger'[next_request].told = events
  BY <1>1, <1>2 DEF recorded, insert
<1>4. /\ DOMAIN handles' = DOMAIN handles \cup {next_request}
      /\ \A r \in DOMAIN handles : handles'[r] = handles[r]
      /\ handles'[next_request].state = state
  BY <1>1, <1>2 DEF opened_handle, insert
<1>5. prompt' = prompt
  BY DEF request_grant_declined, request_grant_auto_approved, request_grant_queued, grab_vars
<1>6. /\ events \in Asking \cup WireStories
      /\ state = "Resolved" <=> events \in WireStories
  <2>1. <<"declined">> \in WireStories /\ <<"closed", "granted">> \in WireStories
    BY DEF WireStories
  <2>2. <<"queued">> \in Asking
    BY DEF Asking
  <2> QED BY <1>2, <2>1, <2>2, AnswersEndStories
<1>7. ASSUME NEW r \in DOMAIN ledger'
      PROVE  /\ ledger'[r].told \in Asking \cup WireStories
             /\ r \in DOMAIN handles' =>
                   (handles'[r].state = "Resolved" <=> ledger'[r].told \in WireStories)
  <2>1. CASE r = next_request
    BY <1>3, <1>4, <1>6, <2>1
  <2>2. CASE r \in DOMAIN ledger
    BY <1>1, <1>3, <1>4, <2>2 DEF StoriesSoFar
  <2> QED BY <1>3, <2>1, <2>2
<1>8. ASSUME NEW r \in DOMAIN pending'
      PROVE  /\ ledger'[r].told = IF pending'[r].prompt_shown THEN <<"queued", "shown">>
                                  ELSE <<"queued">>
             /\ pending'[r].prompt_shown <=> \E p \in prompt' : p.petition = r
  <2>1. CASE r \in DOMAIN pending
    <3>1. pending'[r] = pending[r] /\ ledger'[r] = ledger[r]
      BY <1>1, <1>2, <1>3, <2>1 DEF insert, TypeOK
    <3> QED BY <1>5, <2>1, <3>1 DEF StoriesSoFar
  <2>2. CASE r \notin DOMAIN pending
    <3>1. r = next_request /\ events = <<"queued">> /\ ~pending'[r].prompt_shown
      BY <1>2, <2>2 DEF insert, opened
    <3>2. \A p \in prompt : p.petition # r
      BY <1>1, <3>1 DEF PromptsAskFirst
    <3> QED BY <1>3, <1>5, <3>1, <3>2
  <2> QED BY <2>1, <2>2
<1> QED BY <1>7, <1>8, Zenon DEF StoriesSoFar

(* The sweep and the dead-man switch answer petitions as they remove them. *)
LEMMA StoriesDeclined ==
    ASSUME TypeOK, StoriesSoFar, NEW over \in SUBSET DOMAIN pending,
           deliver_declined(over), pending' = without(pending, over), prompt' = prompt
    PROVE  StoriesSoFar'
<1> DEFINE rs == {r \in over : deliverable(r)}
<1>1. /\ handles' = resolved(rs, None)
      /\ ledger' = told(ledger, rs, <<"closed", "declined">>)
  BY DEF deliver_declined
<1>2. /\ DOMAIN pending' = DOMAIN pending \ over
      /\ \A r \in DOMAIN pending' : pending'[r] = pending[r]
  BY DEF without
<1>3. rs \in SUBSET DOMAIN pending /\ rs \subseteq over
  OBVIOUS
<1> HIDE DEF rs
<1>4. Answered(rs, handles', ledger')
  <2>1. "declined" \in {"granted", "declined"}
    OBVIOUS
  <2> QED BY <1>1, <1>3, <2>1, StoriesAnswered, Zenon
<1>5. StoryStep(rs, {})
  BY <1>2, <1>3, <1>4 DEF StoryStep, Answered
<1> QED BY <1>5, StoriesStep

(* The round: a decision is delivered to the petition it is about, if it   *)
(* is about one, and the prompt is settled on the registry that leaves.    *)
LEMMA StoriesRounds ==
    ASSUME TypeOK, StoriesSoFar, TiedToConnections, NEW visible \in BOOLEAN,
           \/ consent_round_quiet(visible)
           \/ \E d \in decisions : \/ consent_round_granted(d, visible)
                                   \/ consent_round_denied(d, visible)
    PROVE  StoriesSoFar'
<1>1. CASE consent_round_quiet(visible)
  <2>1. settle_prompt(pending, ledger, visible) /\ handles' = handles
    BY <1>1 DEF consent_round_quiet
  <2>2. Answered({}, handles', ledger)
    BY <2>1 DEF Answered, TypeOK
  <2>3. /\ {} \in SUBSET DOMAIN pending /\ DOMAIN pending = DOMAIN pending \ {}
        /\ \A r \in DOMAIN pending : pending[r] = pending[r]
    OBVIOUS
  <2> QED BY <2>1, <2>2, <2>3, StoriesSettled
<1>2. ASSUME NEW d \in decisions,
             consent_round_granted(d, visible) \/ consent_round_denied(d, visible)
      PROVE  StoriesSoFar'
  <2> DEFINE r       == d.petition
             waiting == without(pending, {r})
  <2>1. r \in DOMAIN pending
    BY <1>2 DEF consent_round_granted, consent_round_denied, applies, verdict
  <2>2. {p \in {r} : deliverable(p)} = {r}
    BY <2>1 DEF TiedToConnections, PendingIsDeliverable
  <2>3. PICK outcome \in {"granted", "declined"}, row \in {{next_id}, None} :
           /\ handles' = resolved({r}, row)
           /\ settle_prompt(waiting, told(ledger, {r}, <<"closed", outcome>>), visible)
    <3>1. CASE consent_round_granted(d, visible)
      <4>1. /\ handles' = resolved({r}, {next_id})
            /\ settle_prompt(waiting, told(ledger, {r}, <<"closed", "granted">>), visible)
        BY <2>2, <3>1, ZenonT(20) DEF consent_round_granted
      <4> QED BY <4>1, Zenon
    <3>2. CASE consent_round_denied(d, visible)
      <4>1. /\ handles' = resolved({r}, None)
            /\ settle_prompt(waiting, told(ledger, {r}, <<"closed", "declined">>), visible)
        BY <2>2, <3>2, ZenonT(20) DEF consent_round_denied
      <4> QED BY <4>1, Zenon
    <3> QED BY <1>2, <3>1, <3>2
  <2> DEFINE log == told(ledger, {r}, <<"closed", outcome>>)
  <2>4. /\ {r} \in SUBSET DOMAIN pending /\ DOMAIN waiting = DOMAIN pending \ {r}
        /\ \A h \in DOMAIN waiting : waiting[h] = pending[h]
    BY <2>1 DEF without
  <2>5. Answered({r}, handles', log)
    BY <2>3, <2>4, StoriesAnswered, Zenon
  <2>6. settle_prompt(waiting, log, visible)
    BY <2>3
  <2> HIDE DEF log, waiting, r
  <2> QED BY <2>4, <2>5, <2>6, StoriesSettled
<1> QED BY <1>1, <1>2

(* Whatever is interleaved with it (sweeps, the dead-man switch, prompts   *)
(* that come and go, a connection that closes), a request is told one of   *)
(* the stories of WireStories in order and never past its end, its handle  *)
(* is resolved exactly when the story is whole, and prompt_shown says      *)
(* exactly whose prompt is up.                                             *)
THEOREM PetitionersHearOneStory == Spec => []WireOrder
<1>1. Init => StoriesSoFar
  BY DEF Init, StoriesSoFar
<1>2. /\ TypeOK /\ TiedToConnections /\ ConsentInv /\ StoriesSoFar /\ [Next]_vars
      => StoriesSoFar'
  <2> SUFFICES ASSUME TypeOK, TiedToConnections, ConsentInv, StoriesSoFar, [Next]_vars
               PROVE  StoriesSoFar'
    OBVIOUS
  <2>1. ASSUME UNCHANGED <<handles, pending, prompt, ledger>> PROVE StoriesSoFar'
    BY <2>1 DEF StoriesSoFar
  <2>2. CASE Agent
    <3> PICK c \in Conns :
            \/ accept_principal(c) \/ close_principal(c)
            \/ \E i \in Identities :
                  \/ handle_hello(c, i)
                  \/ \E ask \in Asks, available \in BOOLEAN :
                        \/ request_grant_declined(c, i, ask, available)
                        \/ request_grant_auto_approved(c, i, ask, available)
                        \/ request_grant_queued(c, i, ask, available)
                  \/ \E r \in Requests, verb \in Verbs, clear \in BOOLEAN :
                        \/ enforce_use(c, i, r, verb, clear)
                        \/ enforce_use_refused(c, i, r, verb, clear)
      BY <2>2 DEF Agent
    <3>1. CASE accept_principal(c) \/ \E i \in Identities : handle_hello(c, i)
      BY <2>1, <3>1 DEF accept_principal, handle_hello, petition_vars, grab_vars
    <3>2. CASE close_principal(c)
      <4>1. StoryStep({}, {})
        <5>1. /\ DOMAIN handles' \subseteq DOMAIN handles
              /\ \A r \in DOMAIN handles' : handles'[r] = handles[r]
          BY <3>2 DEF close_principal, without
        <5>2. /\ DOMAIN pending' \subseteq DOMAIN pending
              /\ \A r \in DOMAIN pending' : pending'[r] = pending[r]
          BY <3>2 DEF close_principal, without
        <5>3. UNCHANGED <<ledger, prompt>>
          BY <3>2 DEF close_principal, grab_vars
        <5> QED BY <5>1, <5>2, <5>3, Zenon DEF StoryStep
      <4> QED BY <4>1, StoriesStep
    <3>3. CASE \E i \in Identities, r \in Requests, verb \in Verbs, clear \in BOOLEAN :
                  enforce_use_refused(c, i, r, verb, clear)
      <4>1. UNCHANGED vars
        BY <3>3 DEF enforce_use_refused
      <4> QED BY <2>1, <4>1 DEF vars
    <3>4. ASSUME NEW i \in Identities, NEW r \in Requests, NEW verb \in Verbs,
                 NEW clear \in BOOLEAN, enforce_use(c, i, r, verb, clear)
          PROVE  StoriesSoFar'
      <4>1. UNCHANGED <<handles, pending, prompt>>
        BY <3>4 DEF enforce_use, conn_vars, petition_vars, grab_vars
      <4>2. /\ DOMAIN ledger' = DOMAIN ledger
            /\ \A s \in DOMAIN ledger :
                  ledger'[s] = IF s = r THEN [ledger[s] EXCEPT !.uses = ledger[s].uses + 1]
                               ELSE ledger[s]
        BY <3>4 DEF enforce_use
      <4>3. \A s \in DOMAIN ledger : ledger[s] \in Record
        BY DEF TypeOK
      <4>4. \A s \in DOMAIN ledger : ledger'[s].told = ledger[s].told
        BY <4>2, <4>3 DEF Record
      <4>5. StoryStep({}, {})
        BY <4>1, <4>2, <4>4 DEF StoryStep
      <4> QED BY <4>5, StoriesStep
    <3>5. PromptsAskFirst
      BY DEF ConsentInv
    <3> QED BY <3>1, <3>2, <3>3, <3>4, <3>5, StoriesRequests
  <2>3. ASSUME NEW p \in prompt, NEW choice \in Choice, human_answers(p, choice)
        PROVE  StoriesSoFar'
    <3>1. /\ UNCHANGED <<handles, pending>> /\ prompt = {p} /\ p \in ArmedPrompt
          /\ prompt' = {[p EXCEPT !.answered = TRUE]}
      BY <2>3 DEF human_answers, conn_vars, petition_vars, TypeOK, Option
    <3>2. \A r : (\E q \in prompt' : q.petition = r) <=> (\E q \in prompt : q.petition = r)
      BY <3>1, ZenonT(20) DEF ArmedPrompt
    <3>3. /\ DOMAIN ledger' = DOMAIN ledger
          /\ \A s \in DOMAIN ledger :
                ledger'[s] = IF s = p.petition THEN [ledger[s] EXCEPT !.choice = {choice}]
                             ELSE ledger[s]
      BY <2>3 DEF human_answers
    <3>4. \A s \in DOMAIN ledger : ledger[s] \in Record
      BY DEF TypeOK
    <3>5. \A s \in DOMAIN ledger : ledger'[s].told = ledger[s].told
      BY <3>3, <3>4, ZenonT(20) DEF Record
    <3>6. StoryStep({}, {})
      BY <3>1, <3>2, <3>3, <3>5 DEF StoryStep
    <3> QED BY <3>6, StoriesStep
  <2>4. CASE apply_dead_man
    BY <2>4, StoriesDeclined DEF apply_dead_man, grab_vars
  <2>5. CASE sweep_at
    <3>1. expired_petitions(pending, now) \in SUBSET DOMAIN pending
      BY DEF expired_petitions
    <3> QED BY <2>5, <3>1, StoriesDeclined DEF sweep_at, grab_vars
  <2>6. CASE tick
    BY <2>1, <2>6 DEF tick, petition_vars, grab_vars
  <2>7. CASE UNCHANGED vars
    BY <2>1, <2>7 DEF vars
  <2> QED
    BY <2>2, <2>3, <2>4, <2>5, <2>6, <2>7, StoriesRounds DEF Next, Human, Loop
<1>3. TypeOK /\ StoriesSoFar => WireOrder
  BY StoriesGiveWireOrder
<1> QED
  BY <1>1, <1>2, <1>3, TypeCorrect, AuthorityIsTiedToConnections, ConsentHolds, PTL DEF Spec
=============================================================================
