------------------------- MODULE SessionKernelTies --------------------------
(***************************************************************************)
(* What ties rows, handles, petitions and connections of SessionKernel     *)
(* together, for every value of its constants.                             *)
(***************************************************************************)
EXTENDS SessionKernelProofs

(* The two halves of TiedToConnections are inductive only together: a      *)
(* grant is delivered to the handle its petition waits on, and teardown    *)
(* removes a row because its only handle names it.                         *)

(* The row an existing id carries keeps its principal.                     *)
SameHolders == \A g \in DOMAIN entries' : /\ g \in DOMAIN entries
                                          /\ entries'[g].principal_id = entries[g].principal_id

(* Callbacks that touch no handle and no connection.                       *)
LEMMA TiesUntouched ==
    ASSUME TiedToConnections, PetitionsKept, SameHolders, DOMAIN entries' = DOMAIN entries,
           UNCHANGED <<phase, identity, handles>>
    PROVE  TiedToConnections'
<1>1. PendingIsDeliverable'
  BY DEF TiedToConnections, PetitionsKept, PendingIsDeliverable, deliverable
<1>2. RowsBelongToLiveHandles'
  <2>1. \A r \in DOMAIN handles' : /\ handles'[r].row \subseteq DOMAIN entries'
                                   /\ handles'[r].state = "Pending" => handles'[r].row = None
    BY DEF TiedToConnections, RowsBelongToLiveHandles
  <2>2. ASSUME NEW g \in DOMAIN entries'
        PROVE  \E r \in DOMAIN handles' :
                  /\ handles'[r].row = {g}
                  /\ \A other \in DOMAIN handles' \ {r} : g \notin handles'[other].row
                  /\ phase'[handles'[r].connection] = "Bound"
                  /\ identity'[handles'[r].connection] = {entries'[g].principal_id}
    BY DEF TiedToConnections, RowsBelongToLiveHandles, SameHolders
  <2> QED BY <2>1, <2>2, ZenonT(20) DEF RowsBelongToLiveHandles
<1> QED BY <1>1, <1>2 DEF TiedToConnections

(* Callbacks that decline petitions as they leave the registry.            *)
LEMMA TiesDeclined ==
    ASSUME TypeOK, TiedToConnections, PetitionsKept, SameHolders, DOMAIN entries' = DOMAIN entries,
           UNCHANGED <<phase, identity>>,
           NEW rs, handles' = resolved(rs, None), DOMAIN pending' \cap rs = {},
           \A r \in rs : deliverable(r)
    PROVE  TiedToConnections'
<1>1. /\ DOMAIN handles' = DOMAIN handles
      /\ \A r \in DOMAIN handles : r \notin rs => handles'[r] = handles[r]
  BY Zenon DEF resolved
<1>2. \A r \in DOMAIN handles : /\ handles'[r].connection = handles[r].connection
                                /\ r \in rs => handles'[r].state = "Resolved"
                                /\ handles'[r].row = handles[r].row
  <2> TAKE r \in DOMAIN handles
  <2>1. handles[r] \in Handle
    BY DEF TypeOK
  <2>2. CASE r \in rs
    <3>1. handles[r].row = None
      BY <2>2 DEF deliverable, TiedToConnections, RowsBelongToLiveHandles
    <3>2. handles'[r] = [handles[r] EXCEPT !.state = "Resolved", !.row = None]
      BY <2>2, Zenon DEF resolved
    <3> QED BY <2>1, <3>1, <3>2 DEF Handle
  <2>3. CASE r \notin rs
    BY <1>1, <2>3
  <2> QED BY <2>2, <2>3
<1>3. PendingIsDeliverable'
  BY <1>1, <1>2 DEF TiedToConnections, PetitionsKept, PendingIsDeliverable, deliverable
<1>4. RowsBelongToLiveHandles'
  <2>1. \A r \in DOMAIN handles' : /\ handles'[r].row \subseteq DOMAIN entries'
                                   /\ handles'[r].state = "Pending" => handles'[r].row = None
    BY <1>1, <1>2 DEF TiedToConnections, RowsBelongToLiveHandles
  <2>2. ASSUME NEW g \in DOMAIN entries'
        PROVE  \E r \in DOMAIN handles' :
                  /\ handles'[r].row = {g}
                  /\ \A other \in DOMAIN handles' \ {r} : g \notin handles'[other].row
                  /\ phase'[handles'[r].connection] = "Bound"
                  /\ identity'[handles'[r].connection] = {entries'[g].principal_id}
    <3>1. g \in DOMAIN entries /\ entries'[g].principal_id = entries[g].principal_id
      BY DEF SameHolders
    <3>2. PICK r \in DOMAIN handles :
             /\ handles[r].row = {g}
             /\ \A other \in DOMAIN handles \ {r} : g \notin handles[other].row
             /\ phase[handles[r].connection] = "Bound"
             /\ identity[handles[r].connection] = {entries[g].principal_id}
      BY <3>1 DEF TiedToConnections, RowsBelongToLiveHandles
    <3>3. /\ handles'[r].row = {g} /\ handles'[r].connection = handles[r].connection
          /\ \A other \in DOMAIN handles' \ {r} : g \notin handles'[other].row
      BY <1>1, <1>2, <3>2
    <3> QED BY <1>1, <3>1, <3>2, <3>3
  <2> QED BY <2>1, <2>2, SMTT(20) DEF RowsBelongToLiveHandles
<1> QED BY <1>3, <1>4 DEF TiedToConnections

LEMMA TiesConns ==
    ASSUME TypeOK, TiedToConnections, NEW c \in Conns,
           \/ accept_principal(c)
           \/ \E i \in Identities : handle_hello(c, i)
    PROVE  TiedToConnections'
<1>1. phase[c] # "Bound" /\ UNCHANGED <<handles, pending, entries>>
  BY DEF accept_principal, handle_hello, petition_vars, grant_vars
<1>2. \A k \in Conns : phase[k] = "Bound" => phase'[k] = "Bound" /\ identity'[k] = identity[k]
  BY <1>1 DEF accept_principal, handle_hello, TypeOK
<1>3. \A r \in DOMAIN handles : handles[r].connection \in Conns
  BY DEF TypeOK, Handle
<1>4. PendingIsDeliverable'
  BY <1>1, <1>2, <1>3 DEF TiedToConnections, PendingIsDeliverable, deliverable
<1>5. RowsBelongToLiveHandles'
  BY <1>1, <1>2, <1>3 DEF TiedToConnections, RowsBelongToLiveHandles
<1> QED BY <1>4, <1>5 DEF TiedToConnections

LEMMA TiesClose ==
    ASSUME TypeOK, TiedToConnections, NEW c \in Conns, close_principal(c)
    PROVE  TiedToConnections'
<1>1. /\ DOMAIN handles' = {r \in DOMAIN handles : handles[r].connection # c}
      /\ \A r \in DOMAIN handles' : handles'[r] = handles[r]
  BY DEF close_principal, without
<1>2. /\ DOMAIN pending' = {r \in DOMAIN pending : pending[r].connection # c}
      /\ \A r \in DOMAIN pending' : pending'[r] = pending[r]
  BY DEF close_principal, without, petitions_of
<1>3. /\ DOMAIN entries' = DOMAIN entries \ rows_of(c)
      /\ \A g \in DOMAIN entries' : entries'[g] = entries[g]
  BY DEF close_principal, remove
<1>4. \A k \in Conns : k # c => phase'[k] = phase[k]
  BY DEF close_principal, TypeOK
<1>5. identity' = identity
  BY DEF close_principal
<1>6. \A r \in DOMAIN handles : handles[r].connection \in Conns /\ handles[r].row \in Option(Nat)
  BY DEF TypeOK, Handle
<1>7. \A g : g \in rows_of(c) <=> \E r \in DOMAIN handles : /\ handles[r].connection = c
                                                            /\ g \in handles[r].row
  BY DEF rows_of
<1>8. PendingIsDeliverable'
  BY <1>1, <1>2, <1>4, <1>5, <1>6, SMTT(20) DEF TiedToConnections, PendingIsDeliverable, deliverable
<1>9. ASSUME NEW r \in DOMAIN handles' PROVE handles'[r].row \subseteq DOMAIN entries'
  <2> SUFFICES ASSUME NEW g \in handles[r].row PROVE g \in DOMAIN entries'
    BY <1>1, <1>9
  <2>1. r \in DOMAIN handles /\ handles[r].connection # c
    BY <1>1, <1>9
  <2>2. g \in DOMAIN entries
    BY <2>1 DEF TiedToConnections, RowsBelongToLiveHandles
  <2>3. PICK s \in DOMAIN handles : /\ handles[s].row = {g}
                                    /\ \A other \in DOMAIN handles \ {s} :
                                          g \notin handles[other].row
    BY <2>2 DEF TiedToConnections, RowsBelongToLiveHandles
  <2>4. s = r
    BY <2>1, <2>3
  <2> QED BY <1>3, <1>7, <2>1, <2>2, <2>3, <2>4
<1>10. ASSUME NEW g \in DOMAIN entries'
       PROVE  \E r \in DOMAIN handles' :
                 /\ handles'[r].row = {g}
                 /\ \A other \in DOMAIN handles' \ {r} : g \notin handles'[other].row
                 /\ phase'[handles'[r].connection] = "Bound"
                 /\ identity'[handles'[r].connection] = {entries'[g].principal_id}
  <2>1. g \in DOMAIN entries /\ g \notin rows_of(c)
    BY <1>3
  <2>2. PICK r \in DOMAIN handles :
           /\ handles[r].row = {g}
           /\ \A other \in DOMAIN handles \ {r} : g \notin handles[other].row
           /\ phase[handles[r].connection] = "Bound"
           /\ identity[handles[r].connection] = {entries[g].principal_id}
    BY <2>1 DEF TiedToConnections, RowsBelongToLiveHandles
  <2>3. handles[r].connection # c
    BY <1>7, <2>1, <2>2
  <2> QED BY <1>1, <1>3, <1>4, <1>5, <1>6, <2>2, <2>3
<1>11. RowsBelongToLiveHandles'
  BY <1>1, <1>9, <1>10, SMTT(20) DEF TiedToConnections, RowsBelongToLiveHandles
<1> QED BY <1>8, <1>11 DEF TiedToConnections

LEMMA TiesRequests ==
    ASSUME TypeOK, TiedToConnections, NEW c \in Conns, NEW i \in Identities, NEW ask \in Asks,
           NEW available \in BOOLEAN,
           \/ request_grant_declined(c, i, ask, available)
           \/ request_grant_auto_approved(c, i, ask, available)
           \/ request_grant_queued(c, i, ask, available)
    PROVE  TiedToConnections'
<1>1. /\ phase[c] = "Bound" /\ identity[c] = {i} /\ UNCHANGED <<phase, identity>>
      /\ next_request \notin DOMAIN handles /\ next_request \notin DOMAIN pending
      /\ next_id \notin DOMAIN entries
  BY DEF request_grant_declined, request_grant_auto_approved, request_grant_queued,
         petitioning, conn_vars, TypeOK, Option
<1>2. PICK state, row :
         /\ opened_handle(c, state, row)
         /\ \/ request_grant_queued(c, i, ask, available) /\ state = "Pending" /\ row = None
            \/ request_grant_declined(c, i, ask, available) /\ state = "Resolved" /\ row = None
            \/ /\ request_grant_auto_approved(c, i, ask, available)
               /\ state = "Resolved" /\ row = {next_id}
  BY Zenon DEF request_grant_declined, request_grant_auto_approved, request_grant_queued
<1>3. /\ DOMAIN handles' = DOMAIN handles \cup {next_request}
      /\ handles'[next_request] = [connection |-> c, state |-> state, row |-> row]
      /\ \A r \in DOMAIN handles : handles'[r] = handles[r]
  BY <1>1, <1>2 DEF opened_handle, insert
<1>3a. /\ handles'[next_request].connection = c
      /\ handles'[next_request].state = state
      /\ handles'[next_request].row = row
  BY <1>3
<1>3b. /\ ~(request_grant_queued(c, i, ask, available)
             /\ request_grant_auto_approved(c, i, ask, available))
      /\ ~(request_grant_declined(c, i, ask, available)
             /\ request_grant_auto_approved(c, i, ask, available))
      /\ ~(request_grant_declined(c, i, ask, available)
             /\ request_grant_queued(c, i, ask, available))
  BY DEF request_grant_declined, request_grant_auto_approved, request_grant_queued
<1>4. PendingIsDeliverable'
  <2>1. CASE request_grant_queued(c, i, ask, available)
    <3>1. /\ DOMAIN pending' = DOMAIN pending \cup {next_request}
          /\ pending'[next_request].connection = c /\ pending'[next_request].identity = i
          /\ \A r \in DOMAIN pending : pending'[r] = pending[r]
      BY <1>1, <2>1 DEF request_grant_queued, insert, opened
    <3>2. state = "Pending"
      BY <1>2, <1>3b, <2>1
    <3>3. ASSUME NEW r \in DOMAIN pending'
          PROVE  /\ deliverable(r)'
                 /\ handles'[r].connection = pending'[r].connection
                 /\ identity'[handles'[r].connection] = {pending'[r].identity}
      <4>1. CASE r = next_request
        BY <1>1, <1>3, <1>3a, <3>1, <3>2, <4>1 DEF deliverable
      <4>2. CASE r \in DOMAIN pending
        <5>1. /\ deliverable(r) /\ handles[r].connection = pending[r].connection
              /\ identity[handles[r].connection] = {pending[r].identity}
          BY <4>2 DEF TiedToConnections, PendingIsDeliverable
        <5> QED BY <1>1, <1>3, <3>1, <4>2, <5>1 DEF deliverable
      <4> QED BY <3>1, <4>1, <4>2
    <3> QED BY <3>3 DEF PendingIsDeliverable
  <2>2. CASE pending' = pending
    BY <1>1, <1>3, <2>2 DEF TiedToConnections, PendingIsDeliverable, deliverable
  <2> QED BY <2>1, <2>2 DEF request_grant_declined, request_grant_auto_approved
<1>5. RowsBelongToLiveHandles'
  <2>1. CASE request_grant_auto_approved(c, i, ask, available)
    <3>1. row = {next_id} /\ state = "Resolved"
      BY <1>2, <1>3b, <2>1
    <3>2. /\ DOMAIN entries' = DOMAIN entries \cup {next_id}
          /\ entries'[next_id].principal_id = i
          /\ \A g \in DOMAIN entries : entries'[g] = entries[g]
      BY <1>1, <2>1 DEF request_grant_auto_approved, insert, minted
    <3>3. \A r \in DOMAIN handles : next_id \notin handles[r].row
      BY <1>1 DEF TiedToConnections, RowsBelongToLiveHandles
    <3>4. \A r \in DOMAIN handles' : /\ handles'[r].row \subseteq DOMAIN entries'
                                     /\ handles'[r].state = "Pending" => handles'[r].row = None
      BY <1>3, <1>3a, <3>1, <3>2 DEF TiedToConnections, RowsBelongToLiveHandles
    <3>5. ASSUME NEW g \in DOMAIN entries'
          PROVE  \E r \in DOMAIN handles' :
                    /\ handles'[r].row = {g}
                    /\ \A other \in DOMAIN handles' \ {r} : g \notin handles'[other].row
                    /\ phase'[handles'[r].connection] = "Bound"
                    /\ identity'[handles'[r].connection] = {entries'[g].principal_id}
      <4>1. CASE g = next_id
        BY <1>1, <1>3, <1>3a, <3>1, <3>2, <3>3, <4>1
      <4>2. CASE g # next_id
        <5>1. g \in DOMAIN entries /\ entries'[g] = entries[g]
          BY <3>2, <4>2
        <5>2. PICK r \in DOMAIN handles :
                 /\ handles[r].row = {g}
                 /\ \A other \in DOMAIN handles \ {r} : g \notin handles[other].row
                 /\ phase[handles[r].connection] = "Bound"
                 /\ identity[handles[r].connection] = {entries[g].principal_id}
          BY <5>1 DEF TiedToConnections, RowsBelongToLiveHandles
        <5>3. \A other \in DOMAIN handles' \ {r} : g \notin handles'[other].row
          BY <1>3, <1>3a, <3>1, <4>2, <5>2
        <5> QED BY <1>1, <1>3, <5>1, <5>2, <5>3
      <4> QED BY <4>1, <4>2
    <3> QED BY <3>4, <3>5 DEF RowsBelongToLiveHandles
  <2>2. CASE ~request_grant_auto_approved(c, i, ask, available)
    <3>1. entries' = entries
      BY <2>2 DEF request_grant_declined, request_grant_queued, grant_vars
    <3>2. row = None
      BY <1>2, <2>2
    <3>3. \A r \in DOMAIN handles' : /\ handles'[r].row \subseteq DOMAIN entries'
                                     /\ handles'[r].state = "Pending" => handles'[r].row = None
      BY <1>3, <1>3a, <3>1, <3>2 DEF TiedToConnections, RowsBelongToLiveHandles, None
    <3>4. ASSUME NEW g \in DOMAIN entries'
          PROVE  \E r \in DOMAIN handles' :
                    /\ handles'[r].row = {g}
                    /\ \A other \in DOMAIN handles' \ {r} : g \notin handles'[other].row
                    /\ phase'[handles'[r].connection] = "Bound"
                    /\ identity'[handles'[r].connection] = {entries'[g].principal_id}
      <4>1. PICK r \in DOMAIN handles :
               /\ handles[r].row = {g}
               /\ \A other \in DOMAIN handles \ {r} : g \notin handles[other].row
               /\ phase[handles[r].connection] = "Bound"
               /\ identity[handles[r].connection] = {entries[g].principal_id}
        BY <3>1 DEF TiedToConnections, RowsBelongToLiveHandles
      <4>2. \A other \in DOMAIN handles' \ {r} : g \notin handles'[other].row
        BY <1>3, <1>3a, <3>2, <4>1 DEF None
      <4> QED BY <1>1, <1>3, <3>1, <4>1, <4>2
    <3> QED BY <3>3, <3>4 DEF RowsBelongToLiveHandles
  <2> QED BY <2>1, <2>2
<1> QED BY <1>4, <1>5 DEF TiedToConnections

(* The human's grant reaches the handle that waits for it.                 *)
LEMMA TiesGranted ==
    ASSUME TypeOK, TiedToConnections, NEW d \in decisions, NEW visible \in BOOLEAN,
           consent_round_granted(d, visible), [Next]_vars
    PROVE  TiedToConnections'
<1> DEFINE r == d.petition
<1>1. /\ r \in DOMAIN pending /\ PetitionsKept /\ r \notin DOMAIN pending'
      /\ UNCHANGED <<phase, identity>>
  <2>1. applies(d) = "Granted" /\ UNCHANGED conn_vars
    BY DEF consent_round_granted
  <2>2. r \in DOMAIN pending
    BY <2>1 DEF applies, verdict
  <2>3. PetitionsKept /\ r \notin DOMAIN pending'
    BY RegistryStep
  <2> QED BY <2>1, <2>2, <2>3 DEF conn_vars
<1>2. /\ deliverable(r) /\ handles[r].connection = pending[r].connection
      /\ identity[handles[r].connection] = {pending[r].identity}
      /\ handles[r].row = None
  BY <1>1 DEF TiedToConnections, PendingIsDeliverable, RowsBelongToLiveHandles, deliverable
<1>3. {p \in {r} : deliverable(p)} = {r}
  BY <1>2
<1>4. handles' = resolved({r}, {next_id})
  BY <1>3 DEF consent_round_granted
<1>5. /\ DOMAIN handles' = DOMAIN handles
      /\ \A h \in DOMAIN handles : h # r => handles'[h] = handles[h]
      /\ handles'[r].state = "Resolved" /\ handles'[r].row = {next_id}
      /\ handles'[r].connection = handles[r].connection
  <2>1. handles[r] \in Handle
    BY <1>2 DEF TypeOK, deliverable
  <2>2. handles'[r] = [handles[r] EXCEPT !.state = "Resolved", !.row = {next_id}]
    BY <1>2, <1>4, Zenon DEF resolved, deliverable
  <2> QED BY <1>4, <2>1, <2>2, ZenonT(20) DEF resolved, Handle
<1>6. next_id \notin DOMAIN entries
  BY DEF TypeOK
<1>7. /\ DOMAIN entries' = DOMAIN entries \cup {next_id}
      /\ entries'[next_id].principal_id = pending[r].identity
      /\ \A g \in DOMAIN entries : entries'[g] = entries[g]
  BY <1>3, <1>6 DEF consent_round_granted, insert, granted_row, minted
<1>8. PendingIsDeliverable'
  <2> SUFFICES ASSUME NEW h \in DOMAIN pending'
               PROVE  /\ deliverable(h)'
                      /\ handles'[h].connection = pending'[h].connection
                      /\ identity'[handles'[h].connection] = {pending'[h].identity}
    BY DEF PendingIsDeliverable
  <2>1. /\ h \in DOMAIN pending /\ h # r
        /\ pending'[h].connection = pending[h].connection
        /\ pending'[h].identity = pending[h].identity
    BY <1>1 DEF PetitionsKept
  <2>2. /\ deliverable(h) /\ handles[h].connection = pending[h].connection
        /\ identity[handles[h].connection] = {pending[h].identity}
    BY <2>1 DEF TiedToConnections, PendingIsDeliverable
  <2> QED BY <1>1, <1>5, <2>1, <2>2 DEF deliverable
<1>9. \A h \in DOMAIN handles : next_id \notin handles[h].row
  BY <1>6 DEF TiedToConnections, RowsBelongToLiveHandles
<1>10. RowsBelongToLiveHandles'
  <2>0. r \in DOMAIN handles /\ phase[handles[r].connection] = "Bound"
    BY <1>2 DEF deliverable
  <2>1. \A h \in DOMAIN handles' : /\ handles'[h].row \subseteq DOMAIN entries'
                                   /\ handles'[h].state = "Pending" => handles'[h].row = None
    BY <1>5, <1>7 DEF TiedToConnections, RowsBelongToLiveHandles
  <2>2. ASSUME NEW g \in DOMAIN entries'
        PROVE  \E h \in DOMAIN handles' :
                  /\ handles'[h].row = {g}
                  /\ \A other \in DOMAIN handles' \ {h} : g \notin handles'[other].row
                  /\ phase'[handles'[h].connection] = "Bound"
                  /\ identity'[handles'[h].connection] = {entries'[g].principal_id}
    <3>1. CASE g = next_id
      BY <1>1, <1>2, <1>5, <1>7, <1>9, <2>0, <3>1
    <3>2. CASE g # next_id
      <4>1. g \in DOMAIN entries /\ entries'[g] = entries[g]
        BY <1>7, <3>2
      <4>2. PICK h \in DOMAIN handles :
               /\ handles[h].row = {g}
               /\ \A other \in DOMAIN handles \ {h} : g \notin handles[other].row
               /\ phase[handles[h].connection] = "Bound"
               /\ identity[handles[h].connection] = {entries[g].principal_id}
        BY <4>1 DEF TiedToConnections, RowsBelongToLiveHandles
      <4>3. h # r
        BY <1>2, <4>2 DEF None
      <4> QED BY <1>1, <1>5, <3>2, <4>1, <4>2, <4>3
    <3> QED BY <3>1, <3>2
  <2> QED BY <2>1, <2>2 DEF RowsBelongToLiveHandles
<1> QED BY <1>8, <1>10 DEF TiedToConnections

(* An answer is never lost and authority never outlives its connection:    *)
(* a pending petition always has its waiting handle, a row always has      *)
(* exactly one handle on a bound connection of its holder.                 *)
THEOREM AuthorityIsTiedToConnections == Spec => []TiedToConnections
<1>1. Init => TiedToConnections
  BY DEF Init, TiedToConnections, PendingIsDeliverable, RowsBelongToLiveHandles
<1>2. TypeOK /\ TypeOK' /\ TiedToConnections /\ [Next]_vars => TiedToConnections'
  <2> SUFFICES ASSUME TypeOK, TypeOK', TiedToConnections, [Next]_vars PROVE TiedToConnections'
    OBVIOUS
  <2>0. ASSUME UNCHANGED <<phase, identity, handles, pending, entries>> PROVE TiedToConnections'
    BY <2>0, TiesUntouched DEF PetitionsKept, SameHolders
  <2>1. CASE Agent
    <3> PICK c \in Conns :
            \/ accept_principal(c) \/ close_principal(c)
            \/ \E i \in Identities :
                  \/ handle_hello(c, i)
                  \/ \E ask \in Asks, available \in BOOLEAN :
                        \/ request_grant_declined(c, i, ask, available)
                        \/ request_grant_auto_approved(c, i, ask, available)
                        \/ request_grant_queued(c, i, ask, available)
                  \/ \E r \in Requests, verb \in Verbs, clear \in BOOLEAN :
                        \/ enforce_use(c, i, r, verb, clear)
                        \/ enforce_use_refused(c, i, r, verb, clear)
      BY <2>1 DEF Agent
    <3>1. ASSUME NEW i \in Identities, NEW r \in Requests, NEW verb \in Verbs,
                 NEW clear \in BOOLEAN, enforce_use(c, i, r, verb, clear)
          PROVE  TiedToConnections'
      <4>1. PICK g : entries' = commit_use(entries, g)
        BY <3>1 DEF enforce_use
      <4>2. DOMAIN entries' = DOMAIN entries
        BY <4>1 DEF commit_use, moved
      <4>3. SameHolders /\ PetitionsKept
        BY <3>1, <4>2, TableStep
           DEF SameHolders, RowsAge, Ages, enforce_use, petition_vars, PetitionsKept
      <4> QED BY <3>1, <4>2, <4>3, TiesUntouched DEF enforce_use, conn_vars, petition_vars
    <3>2. ASSUME NEW i \in Identities, NEW r \in Requests, NEW verb \in Verbs,
                 NEW clear \in BOOLEAN, enforce_use_refused(c, i, r, verb, clear)
          PROVE  TiedToConnections'
      <4>1. UNCHANGED vars
        BY <3>2 DEF enforce_use_refused
      <4> QED BY <2>0, <4>1 DEF vars
    <3> QED BY <3>1, <3>2, TiesConns, TiesClose, TiesRequests
  <2>2. CASE \E p \in prompt, choice \in Choice : human_answers(p, choice)
    BY <2>0, <2>2 DEF human_answers, conn_vars, petition_vars, grant_vars
  <2>3. CASE apply_dead_man
    <3> DEFINE rs == {r \in DOMAIN pending : deliverable(r)}
    <3>1. DOMAIN pending' = {} /\ PetitionsKept /\ DOMAIN entries' = DOMAIN entries
      BY <2>3 DEF apply_dead_man, without, PetitionsKept, moved
    <3>2. SameHolders
      BY <3>1, TableStep DEF SameHolders, RowsAge, Ages
    <3>3. handles' = resolved(rs, None) /\ UNCHANGED <<phase, identity>>
      BY <2>3 DEF apply_dead_man, deliver_declined, conn_vars
    <3> QED BY <3>1, <3>2, <3>3, TiesDeclined
  <2>4. CASE sweep_at
    <3> DEFINE rs == {r \in expired_petitions(pending, now) : deliverable(r)}
    <3>1. /\ DOMAIN pending' \cap rs = {} /\ PetitionsKept /\ DOMAIN entries' = DOMAIN entries
      BY <2>4 DEF sweep_at, without, PetitionsKept, expire_due, moved
    <3>2. SameHolders
      BY <3>1, TableStep DEF SameHolders, RowsAge, Ages
    <3>3. handles' = resolved(rs, None) /\ UNCHANGED <<phase, identity>>
      BY <2>4 DEF sweep_at, deliver_declined, conn_vars
    <3> QED BY <3>1, <3>2, <3>3, TiesDeclined
  <2>5. CASE tick
    BY <2>0, <2>5 DEF tick, conn_vars, petition_vars, grant_vars
  <2>6. ASSUME NEW visible \in BOOLEAN, consent_round_quiet(visible) PROVE TiedToConnections'
    <3>1. settle_prompt(pending, ledger, visible) /\ UNCHANGED <<phase, identity, handles, entries>>
      BY <2>6 DEF consent_round_quiet, conn_vars, grant_vars
    <3>2. PetitionsKept
      BY <3>1, SettleKeeps DEF TypeOK
    <3> QED BY <3>1, <3>2, TiesUntouched DEF SameHolders
  <2>7. ASSUME NEW d \in decisions, NEW visible \in BOOLEAN, consent_round_denied(d, visible)
        PROVE  TiedToConnections'
    <3> DEFINE rs == {p \in {d.petition} : deliverable(p)}
    <3>1. PICK log : settle_prompt(without(pending, {d.petition}), log, visible)
      BY <2>7 DEF consent_round_denied
    <3>2. /\ DOMAIN without(pending, {d.petition}) = DOMAIN pending \ {d.petition}
          /\ \A r \in DOMAIN without(pending, {d.petition}) :
                without(pending, {d.petition})[r] = pending[r]
      BY DEF without
    <3>3. PetitionsKept /\ DOMAIN pending' \cap rs = {}
      BY <3>1, <3>2, SettleKeeps, ZenonT(20) DEF TypeOK
    <3>4. handles' = resolved(rs, None) /\ UNCHANGED <<phase, identity, entries>>
      BY <2>7 DEF consent_round_denied, conn_vars, grant_vars
    <3> QED BY <3>3, <3>4, TiesDeclined DEF SameHolders
  <2>8. CASE Loop
    BY <2>4, <2>5, <2>6, <2>7, <2>8, TiesGranted DEF Loop
  <2>9. CASE UNCHANGED vars
    BY <2>0, <2>9 DEF vars
  <2> QED BY <2>1, <2>2, <2>3, <2>8, <2>9 DEF Next, Human
<1> QED BY <1>1, <1>2, TypeCorrect, PTL DEF Spec

=============================================================================
