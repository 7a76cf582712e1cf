-------------------------- MODULE ChokepointProofs --------------------------
(***************************************************************************)
(* What the chokepoint promises, for any table of rows, any number of      *)
(* realms and principals and any clock: the pace of a grant, the honesty   *)
(* of its retry hint, the refusals an agent hears, the price of a press of *)
(* the attention key and whose hands preempt an agent.                     *)
(***************************************************************************)
EXTENDS Chokepoint, TLAPS

-----------------------------------------------------------------------------
(* Whole division, as TokenBucket does it.                                 *)

(* x \div n is the number of times n goes into x.                          *)
LEMMA DivisionRoundsDown ==
    ASSUME NEW x \in Nat, NEW n \in Nat \ {0}
    PROVE  /\ x \div n \in Nat
           /\ n * (x \div n) <= x
           /\ x < n * (x \div n) + n
BY SMT

(* A multiple of n that x reaches counts towards x \div n.                 *)
LEMMA MultipleBelow ==
    ASSUME NEW x \in Nat, NEW n \in Nat \ {0}, NEW k \in Nat, n * k <= x
    PROVE  k <= x \div n
<1> DEFINE q == x \div n
           d == k - (q + 1)
<1>1. q \in Nat /\ x < n * q + n
  BY DivisionRoundsDown
<1>2. SUFFICES ASSUME q + 1 <= k PROVE FALSE
  BY <1>1, SMT
<1>3. d \in Nat /\ k = q + 1 + d
  BY <1>1, <1>2, SMT
<1> HIDE DEF q, d
<1>4. n * k = n * q + n + n * d /\ n * d \in Nat /\ n * q \in Nat
  BY <1>1, <1>3, SMT
<1> QED BY <1>1, <1>4, SMT

(* div_ceil never rounds below.                                            *)
LEMMA CeilingIsEnough ==
    ASSUME NEW x \in Nat \ {0}, NEW n \in Nat \ {0}
    PROVE  div_ceil(x, n) \in Nat \ {0} /\ x <= n * div_ceil(x, n)
<1>1. x + n - 1 \in Nat
  OBVIOUS
<1>2. /\ div_ceil(x, n) \in Nat
      /\ x + n - 1 < n * div_ceil(x, n) + n
  BY <1>1, DivisionRoundsDown DEF div_ceil
<1>3. 1 <= div_ceil(x, n)
  BY <1>1, MultipleBelow DEF div_ceil
<1>4. n * div_ceil(x, n) \in Nat
  BY <1>2, SMT
<1> QED BY <1>2, <1>3, <1>4, SMT

(* TokenBucket::interval_ns: a grant with a ceiling earns a token in some  *)
(* positive time.                                                          *)
LEMMA IntervalIsPositive ==
    ASSUME NEW rate \in Nat \ {0}
    PROVE  interval(rate) \in Nat \ {0}
BY CeilingIsEnough, ChokepointAssumption DEF interval

(* Rounded up, rate intervals take a second or more, so the whole intervals *)
(* of a time are no more than the rate allows in it.                        *)
LEMMA IntervalsKeepTheRate ==
    ASSUME NEW rate \in Nat \ {0}, NEW x \in Nat
    PROVE  Second * (x \div interval(rate)) <= rate * x
<1> DEFINE n == interval(rate)
           k == x \div n
           r == rate * n - Second
           s == x - n * k
<1>1. n \in Nat /\ n # 0 /\ Second \in Nat /\ Second <= rate * n
  BY CeilingIsEnough, ChokepointAssumption DEF interval
<1>2. k \in Nat /\ n * k <= x
  BY <1>1, DivisionRoundsDown
<1> HIDE DEF n, k
<1>3. r \in Nat /\ s \in Nat /\ Second = rate * n - r /\ x = n * k + s
  BY <1>1, <1>2, SMT
<1> HIDE DEF r, s
<1>4. rate * x = (rate * n) * k + rate * s
  BY <1>1, <1>2, <1>3, SMT
<1>5. Second * k = (rate * n) * k - r * k
  BY <1>1, <1>2, <1>3, SMT
<1>6. rate * s \in Nat /\ r * k \in Nat /\ (rate * n) * k \in Nat
  BY <1>1, <1>2, <1>3, SMT
<1>7. Second * k <= rate * x
  BY <1>4, <1>5, <1>6, SMT
<1> QED BY <1>7 DEF k, n

-----------------------------------------------------------------------------
(* TokenBucket::take.                                                      *)

Bucket == [tokens : Nat, anchor : Nat]

(* Refilling hands out k tokens for at least k intervals of the anchor and *)
(* never more than the ceiling; it leaves an empty bucket only before the  *)
(* next token is due, and then as it was.                                  *)
LEMMA RefillPaysForTokens ==
    ASSUME NEW rate \in Nat \ {0}, NEW b \in Bucket, NEW at \in Nat,
           b.anchor <= at, b.tokens <= rate
    PROVE  LET c == credited(b, rate, at)
           IN  /\ c \in Bucket /\ c.tokens <= rate
               /\ b.anchor <= c.anchor /\ c.anchor <= at
               /\ \E k \in Nat : /\ c.tokens <= b.tokens + k
                                 /\ b.anchor + interval(rate) * k <= c.anchor
               /\ c.tokens = 0 => c = b /\ at < b.anchor + interval(rate)
<1> DEFINE n == interval(rate)
           credit == (at - b.anchor) \div n
           c == credited(b, rate, at)
<1>1. n \in Nat \ {0}
  BY IntervalIsPositive
<1>2. at - b.anchor \in Nat /\ b.anchor \in Nat /\ b.tokens \in Nat
  BY DEF Bucket
<1>3. /\ credit \in Nat
      /\ n * credit <= at - b.anchor
      /\ at - b.anchor < n * credit + n
  BY <1>1, <1>2, DivisionRoundsDown, Zenon
<1>4. c = IF credit = 0 THEN b
          ELSE IF b.tokens + credit >= rate THEN [tokens |-> rate, anchor |-> at]
          ELSE [tokens |-> b.tokens + credit, anchor |-> b.anchor + credit * n]
  BY DEF credited
<1>5. n * credit \in Nat /\ credit * n = n * credit /\ (credit = 0 => n * credit = 0)
  BY <1>1, <1>3, SMT
<1> HIDE DEF n, credit, c
<1>6. c \in Bucket /\ c.tokens <= rate /\ b.anchor <= c.anchor /\ c.anchor <= at
  BY <1>2, <1>3, <1>4, <1>5 DEF Bucket
<1>7. c.tokens <= b.tokens + credit /\ b.anchor + n * credit <= c.anchor
  BY <1>2, <1>3, <1>4, <1>5
<1>8. c.tokens = 0 => c = b /\ at < b.anchor + n
  BY <1>1, <1>2, <1>3, <1>4, <1>5
<1> QED BY <1>3, <1>6, <1>7, <1>8 DEF n, c

(* A token is taken from the refilled bucket; or there is none, the bucket *)
(* is as it was, and the hint reaches the instant the next one is due.     *)
LEMMA TakeSpendsOrWaits ==
    ASSUME NEW rate \in Nat \ {0}, NEW b \in Bucket, NEW at \in Nat,
           b.anchor <= at, b.tokens <= rate
    PROVE  LET t == take(b, rate, at)
               c == credited(b, rate, at)
           IN  /\ t.hint \in Nat /\ t.bucket \in Bucket
               /\ t.hint = 0 => /\ c.tokens > 0
                                /\ t.bucket.tokens = c.tokens - 1
                                /\ t.bucket.anchor = c.anchor
               /\ t.hint # 0 => /\ t.bucket = b
                                /\ b.anchor + interval(rate) <= at + t.hint * Milli
<1> DEFINE c == credited(b, rate, at)
           n == interval(rate)
           due_in == b.anchor + n - at
           t == take(b, rate, at)
<1>1. c \in Bucket /\ (c.tokens = 0 => c = b /\ at < b.anchor + n)
  BY RefillPaysForTokens
<1>2. n \in Nat \ {0} /\ Milli \in Nat \ {0} /\ b.anchor \in Nat
  BY IntervalIsPositive, ChokepointAssumption DEF Bucket
<1>3. t = IF c.tokens > 0 THEN [bucket |-> [c EXCEPT !.tokens = @ - 1], hint |-> 0]
          ELSE [bucket |-> c, hint |-> retry_hint(c, rate, at)]
  BY DEF take
<1> HIDE DEF c, t, n
<1>4. CASE c.tokens > 0
  BY <1>1, <1>3, <1>4 DEF Bucket, c, t
<1>5. CASE ~(c.tokens > 0)
  <2>1. c = b /\ due_in \in Nat \ {0}
    BY <1>1, <1>2, <1>5 DEF Bucket
  <2>2. t = [bucket |-> b, hint |-> at_least(1, div_ceil(due_in, Milli))]
    BY <1>3, <1>5, <2>1 DEF retry_hint, n
  <2> HIDE DEF due_in
  <2>3. div_ceil(due_in, Milli) \in Nat \ {0} /\ due_in <= Milli * div_ceil(due_in, Milli)
    BY <1>2, <2>1, CeilingIsEnough
  <2>4. t.bucket = b /\ t.hint \in Nat \ {0} /\ t.hint = div_ceil(due_in, Milli)
    BY <2>2, <2>3 DEF at_least
  <2>5. due_in <= t.hint * Milli /\ t.hint * Milli \in Nat
    BY <1>2, <2>3, <2>4, SMT
  <2>6. b.anchor + n <= at + t.hint * Milli
    BY <1>2, <2>5 DEF due_in
  <2> QED BY <2>4, <2>6 DEF t, n
<1> QED BY <1>1, <1>4, <1>5 DEF Bucket

-----------------------------------------------------------------------------
(* The inductive invariant, part by part.                                  *)

Codes == {"None", "NotGranted", "Revoked", "Expired", "NoSurface", "ConsentHeld",
          "Preempted", "RateLimited", "Internal", "Capacity"}

CoalescedVerbs == {"ACTUATE_POINTER", "ACTUATE_TEXT", "LAYOUT_FOCUS", "LAYOUT_ARRANGE"}

UseVerbs == CoalescedVerbs \cup {"OBSERVE", "REALM_LAUNCH", "DESIGNATE_FILE", "EGRESS"}

Pairs == UseVerbs \X Codes

UseState == [bucket : SUBSET Bucket, muted_pairs : SUBSET Pairs, rate_muted_until : SUBSET Nat]

History == [last : SUBSET [grant : Wires, kind : UseKinds, code : Codes, voiced : BOOLEAN],
            heard : [Wires -> SUBSET Pairs], taken : [Wires -> Nat], born : [Wires -> Nat],
            presses : Nat, exempted : Nat, stale : [Realms -> BOOLEAN]]

Presence == [held_buttons : Nat, last_activity : SUBSET Nat]

(* The shape of the state.                                                 *)
ChokepointTypes ==
    /\ now \in Nat /\ uses \in Nat
    /\ entries \in [DOMAIN Table -> Entry]
    /\ states \in [Wires -> UseState]
    /\ presence \in [Realms -> Presence]
    /\ history \in History

(* The tokens a grant has taken and those it still has are at most a full  *)
(* bucket and one for every interval between its first use and the anchor. *)
Paid(st, took, born, rate, at) ==
    /\ st.bucket = None => took = 0
    /\ \A b \in st.bucket :
           /\ b.tokens <= rate /\ born <= b.anchor /\ b.anchor <= at
           /\ took + b.tokens <= rate + (b.anchor - born) \div interval(rate)

(* While a rate limit is muted, the instant promised is one at which the   *)
(* next token is due.                                                      *)
Promised(st, rate) ==
    \A until \in st.rate_muted_until, b \in st.bucket : b.anchor + interval(rate) <= until

(* What is muted was heard; what was heard of a verb that is coalesced is  *)
(* muted, rate limits apart.                                               *)
Heard(st, heard) ==
    /\ st.muted_pairs \subseteq heard
    /\ st.rate_muted_until # None => \E p \in heard : p[2] = "RateLimited"
    /\ \A p \in heard : p[1] \in CoalescedVerbs /\ p[2] # "RateLimited" => p \in st.muted_pairs

BucketInv ==
    \A g \in DOMAIN Table :
        /\ Paid(states[g], history.taken[g], history.born[g], Table[g].rate, now)
        /\ Promised(states[g], Table[g].rate)

HearInv == \A g \in Wires : Heard(states[g], history.heard[g])

(* An open window is a press no act was admitted for yet.                  *)
WindowInv ==
    /\ history.exempted <= history.presses
    /\ open # {} => history.exempted < history.presses

(* A hand is where the router is bound, a button is held by a hand that    *)
(* was there, and one the ceiling has passed is dropped or still past it.  *)
SeatInv ==
    \A r \in Realms :
        /\ presence[r] # absent => r \in bound
        /\ presence[r].last_activity = None => presence[r].held_buttons = 0
        /\ history.stale[r] => \/ presence[r].held_buttons = 0
                               \/ ~within(presence[r], HoldCeiling, now)

ChokepointInv == ChokepointTypes /\ BucketInv /\ HearInv /\ WindowInv /\ SeatInv

-----------------------------------------------------------------------------
(* What a use does to the bucket of its grant.                             *)

(* The bucket a use meets: the one of the grant, or a full one the first   *)
(* time (states.entry, get_or_insert_with).                                *)
met(st, rate, at) ==
    IF st.bucket = None THEN [tokens |-> rate, anchor |-> at]
    ELSE CHOOSE x \in st.bucket : TRUE

LEMMA MeetsABucket ==
    ASSUME NEW st \in UseState, NEW rate \in Nat \ {0}, NEW at \in Nat,
           NEW took \in Nat, NEW born \in Nat, Paid(st, took, born, rate, at)
    PROVE  LET b == met(st, rate, at)
           IN  /\ b \in Bucket /\ b.anchor <= at /\ b.tokens <= rate
               /\ st.bucket = None => b.tokens = rate /\ b.anchor = at
               /\ st.bucket # None => b \in st.bucket
<1>1. CASE st.bucket = None
  BY <1>1 DEF met, Bucket
<1>2. CASE st.bucket # None
  <2>1. met(st, rate, at) \in st.bucket
    BY <1>2 DEF met, None
  <2> QED BY <1>2, <2>1 DEF Paid, UseState
<1> QED BY <1>1, <1>2

(* An admitted use is paid for: from the bucket, which refills no faster   *)
(* than the anchor moves.                                                  *)
LEMMA AdmissionIsPaid ==
    ASSUME NEW st \in UseState, NEW rate \in Nat \ {0}, NEW at \in Nat,
           NEW took \in Nat, NEW born \in Nat, Paid(st, took, born, rate, at),
           take(met(st, rate, at), rate, at).hint = 0,
           NEW after \in UseState,
           after.bucket = {take(met(st, rate, at), rate, at).bucket}
    PROVE  Paid(after, took + 1, IF st.bucket = None THEN at ELSE born, rate, at)
<1> DEFINE b == met(st, rate, at)
           c == credited(b, rate, at)
           t == take(b, rate, at)
           n == interval(rate)
           since == IF st.bucket = None THEN at ELSE born
<1>1. /\ b \in Bucket /\ b.anchor <= at /\ b.tokens <= rate
      /\ st.bucket = None => b.tokens = rate /\ b.anchor = at
      /\ st.bucket # None => b \in st.bucket
  BY MeetsABucket
<1>2. n \in Nat \ {0}
  BY IntervalIsPositive
<1> HIDE DEF b
<1>3. /\ c \in Bucket /\ c.tokens <= rate /\ b.anchor <= c.anchor /\ c.anchor <= at
      /\ \E k \in Nat : c.tokens <= b.tokens + k /\ b.anchor + n * k <= c.anchor
  BY <1>1, RefillPaysForTokens
<1>4. t.bucket \in Bucket /\ c.tokens > 0 /\ t.bucket.tokens = c.tokens - 1
      /\ t.bucket.anchor = c.anchor
  BY <1>1, TakeSpendsOrWaits DEF b
<1>5. after.bucket = {t.bucket}
  BY DEF b
<1>6. /\ since \in Nat /\ since <= b.anchor
      /\ took + b.tokens <= rate + (b.anchor - since) \div n
  <2>1. CASE st.bucket = None
    <3>1. (b.anchor - since) \div n \in Nat
      BY <1>1, <1>2, <2>1, DivisionRoundsDown DEF Bucket
    <3> QED BY <1>1, <2>1, <3>1 DEF Paid, Bucket
  <2>2. CASE st.bucket # None
    BY <1>1, <2>2 DEF Paid, n, Bucket
  <2> QED BY <2>1, <2>2
<1> HIDE DEF c, t, n, since
<1>7. PICK k \in Nat : c.tokens <= b.tokens + k /\ b.anchor + n * k <= c.anchor
  BY <1>3
<1> DEFINE x == b.anchor - since
           y == c.anchor - since
           q == x \div n
<1>8. /\ x \in Nat /\ y \in Nat /\ x + n * k <= y /\ n * k \in Nat
      /\ b.tokens \in Nat /\ c.tokens \in Nat /\ b.anchor \in Nat /\ c.anchor \in Nat
  <2>1. n * k \in Nat
    BY <1>2, SMT
  <2> QED BY <1>1, <1>3, <1>6, <1>7, <2>1 DEF Bucket
<1> HIDE DEF x, y
<1>9. q + k <= y \div n /\ q \in Nat /\ y \div n \in Nat
  <2>1. q \in Nat /\ n * q <= x /\ y \div n \in Nat
    BY <1>2, <1>8, DivisionRoundsDown
  <2> HIDE DEF q
  <2>2. n * (q + k) = n * q + n * k /\ n * q \in Nat /\ q + k \in Nat
    BY <1>2, <2>1, SMT
  <2>3. n * (q + k) <= y
    BY <1>8, <2>1, <2>2, SMT
  <2>4. q + k <= y \div n
    BY <1>2, <1>8, <2>2, <2>3, MultipleBelow
  <2> QED BY <2>1, <2>4
<1>10. took + b.tokens <= rate + q
  BY <1>6 DEF x
<1> HIDE DEF q
<1>11. took + 1 + t.bucket.tokens <= rate + y \div n
  BY <1>4, <1>7, <1>8, <1>9, <1>10
<1>12. since <= c.anchor /\ t.bucket.tokens <= rate
  BY <1>3, <1>4, <1>6, <1>8
<1>13. Paid(after, took + 1, since, rate, at)
  BY <1>3, <1>4, <1>5, <1>11, <1>12, Zenon DEF Paid, y, n, None
<1> QED BY <1>13 DEF since

(* A use the bucket refuses leaves the bucket it met, and the hint reaches *)
(* the instant the next token is due.                                      *)
LEMMA RefusalWaitsForAToken ==
    ASSUME NEW st \in UseState, NEW rate \in Nat \ {0}, NEW at \in Nat,
           NEW took \in Nat, NEW born \in Nat, Paid(st, took, born, rate, at)
    PROVE  LET t == take(met(st, rate, at), rate, at)
           IN  /\ t.hint \in Nat /\ t.bucket \in Bucket
               /\ t.hint # 0 => /\ t.bucket \in st.bucket
                                /\ t.bucket.anchor + interval(rate) <= at + t.hint * Milli
<1> DEFINE b == met(st, rate, at)
           c == credited(b, rate, at)
           t == take(b, rate, at)
<1>1. /\ b \in Bucket /\ b.anchor <= at /\ b.tokens <= rate
      /\ st.bucket = None => b.tokens = rate /\ b.anchor = at
      /\ st.bucket # None => b \in st.bucket
  BY MeetsABucket
<1> HIDE DEF b
<1>2. c \in Bucket /\ (c.tokens = 0 => c = b)
  BY <1>1, RefillPaysForTokens
<1>3. /\ t.hint \in Nat /\ t.bucket \in Bucket
      /\ t.hint # 0 => t.bucket = b /\ b.anchor + interval(rate) <= at + t.hint * Milli
  BY <1>1, TakeSpendsOrWaits
<1>4. t.hint # 0 => st.bucket # None
  <2>1. st.bucket = None => c.tokens > 0
    BY <1>1, <1>2 DEF Bucket
  <2>2. c.tokens > 0 => t.hint = 0
    BY DEF take
  <2> QED BY <2>1, <2>2
<1> QED BY <1>1, <1>3, <1>4 DEF b

-----------------------------------------------------------------------------
(* What a refusal leaves behind.                                           *)

(* A verb tells whether the refusals of its kind are coalesced.            *)
LEMMA VerbsOfKinds ==
    ASSUME NEW kind \in UseKinds
    PROVE  verb(kind) \in UseVerbs /\ (verb(kind) \in CoalescedVerbs <=> coalescible(kind))
BY DEF UseKinds, verb, UseVerbs, CoalescedVerbs, coalescible

(* voice_refusal touches the mutes only: a rate limit moves the instant it *)
(* is muted until, any other code mutes its pair.                          *)
LEMMA MutingKeepsTheBucket ==
    ASSUME NEW st \in UseState, NEW kind \in UseKinds, NEW code \in Codes,
           NEW hint \in Nat, now \in Nat
    PROVE  LET m == muted(st, kind, code, hint)
           IN  /\ m \in UseState /\ m.bucket = st.bucket
               /\ code # "RateLimited" => m.rate_muted_until = st.rate_muted_until
               /\ \A until \in m.rate_muted_until :
                      until \in st.rate_muted_until \/ until = now + at_least(1, hint) * Milli
<1>1. verb(kind) \in UseVerbs
  BY VerbsOfKinds
<1>2. now + at_least(1, hint) * Milli \in Nat
  BY ChokepointAssumption, SMT DEF at_least
<1> DEFINE told == now + at_least(1, hint) * Milli
<1> HIDE DEF told
<1>3. muted(st, kind, code, hint) \in
          {st, [st EXCEPT !.rate_muted_until = {told}],
           [st EXCEPT !.muted_pairs = @ \cup {<<verb(kind), code>>}]}
      /\ (code # "RateLimited" =>
             muted(st, kind, code, hint) \in
                 {st, [st EXCEPT !.muted_pairs = @ \cup {<<verb(kind), code>>}]})
  BY DEF muted, told
<1>4. told \in Nat /\ <<verb(kind), code>> \in Pairs
  BY <1>1, <1>2 DEF told, Pairs
<1> QED BY <1>3, <1>4 DEF UseState, told

(* What the agent heard and what is muted still agree after a refusal, and *)
(* one kept silent was heard.                                              *)
LEMMA RefusalsAreHeard ==
    ASSUME NEW st \in UseState, NEW kind \in UseKinds, NEW code \in Codes,
           NEW hint \in Nat, NEW heard \in SUBSET Pairs, Heard(st, heard)
    PROVE  LET said == <<verb(kind), code>>
               silent == suppressed(st, kind, code)
           IN  /\ Heard(muted(st, kind, code, hint),
                        IF silent THEN heard ELSE heard \cup {said})
               /\ silent => \E p \in heard :
                      p = said \/ (code = "RateLimited" /\ p[2] = "RateLimited")
               /\ (~silent /\ coalescible(kind) /\ code # "RateLimited") => said \notin heard
<1> DEFINE said == <<verb(kind), code>>
           silent == suppressed(st, kind, code)
           m == muted(st, kind, code, hint)
           hears == IF silent THEN heard ELSE heard \cup {said}
<1>1. verb(kind) \in CoalescedVerbs <=> coalescible(kind)
  BY VerbsOfKinds
<1>2. said[1] = verb(kind) /\ said[2] = code
  OBVIOUS
<1>3. /\ st.muted_pairs \subseteq heard
      /\ st.rate_muted_until # {} => \E p \in heard : p[2] = "RateLimited"
      /\ \A p \in heard : p[1] \in CoalescedVerbs /\ p[2] # "RateLimited" => p \in st.muted_pairs
  BY DEF Heard, None
<1>4. silent => coalescible(kind) /\ (code = "RateLimited" => st.rate_muted_until # {})
                /\ (code # "RateLimited" => said \in st.muted_pairs)
  BY DEF suppressed
<1>5. (coalescible(kind) /\ code # "RateLimited" /\ ~silent) => said \notin st.muted_pairs
  BY DEF suppressed
<1>6. Heard(m, hears)
  <2>1. CASE ~coalescible(kind) \/ silent
    <3>1. m = st
      BY <2>1 DEF muted
    <3>2. hears \in {heard, heard \cup {said}} /\ (hears # heard => verb(kind) \notin CoalescedVerbs)
      BY <1>1, <2>1
    <3> HIDE DEF hears, m, said, silent
    <3> QED BY <1>2, <1>3, <3>1, <3>2 DEF Heard, None
  <2>2. CASE coalescible(kind) /\ ~silent /\ code = "RateLimited"
    <3>1. m = [st EXCEPT !.rate_muted_until = {now + at_least(1, hint) * Milli}]
      BY <2>2 DEF muted
    <3>2. m.muted_pairs = st.muted_pairs
      BY <3>1 DEF UseState
    <3>3. hears = heard \cup {said}
      BY <2>2
    <3> HIDE DEF hears, m, said, silent
    <3> QED BY <1>2, <1>3, <2>2, <3>2, <3>3 DEF Heard, None
  <2>3. CASE coalescible(kind) /\ ~silent /\ code # "RateLimited"
    <3>1. m = [st EXCEPT !.muted_pairs = @ \cup {said}]
      BY <2>3 DEF muted
    <3>2. m.muted_pairs = st.muted_pairs \cup {said} /\ m.rate_muted_until = st.rate_muted_until
      BY <3>1 DEF UseState
    <3>3. hears = heard \cup {said}
      BY <2>3
    <3> HIDE DEF hears, m, said, silent
    <3> QED BY <1>2, <1>3, <2>3, <3>2, <3>3 DEF Heard, None
  <2> QED BY <2>1, <2>2, <2>3
<1>7. silent => \E p \in heard : p = said \/ (code = "RateLimited" /\ p[2] = "RateLimited")
  <2> HIDE DEF said, silent
  <2> QED BY <1>3, <1>4
<1>8. (~silent /\ coalescible(kind) /\ code # "RateLimited") => said \notin heard
  <2> HIDE DEF said, silent
  <2> QED BY <1>1, <1>2, <1>3, <1>5
<1> QED BY <1>6, <1>7, <1>8

(* The gates refuse with a code of their own, never a rate limit, and let  *)
(* through only a use of a row of the table, over the human's hand only    *)
(* with a window open.                                                     *)
LEMMA GatesOpenForRows ==
    ASSUME NEW g \in Wires, NEW i \in Identities, NEW kind \in UseKinds, NEW view \in BOOLEAN,
           ChokepointTypes
    PROVE  /\ gates(g, i, kind, view) \in Codes \ {"RateLimited"}
           /\ gates(g, i, kind, view) = "None" =>
                  g \in DOMAIN Table /\ (preempted(g, kind) => open # {})
<1>1. check_use_grant(entries, g, i, verb(kind), now) \in
          {"None", "NotGranted", "Revoked", "Expired"}
  BY DEF check_use_grant, refusal_for
<1>2. check_use_grant(entries, g, i, verb(kind), now) = "None" => g \in DOMAIN Table
  BY DEF check_use_grant, ChokepointTypes
<1>3. exempt(i, kind) => open # {}
  BY DEF exempt
<1> QED BY <1>1, <1>2, <1>3 DEF gates, Codes

-----------------------------------------------------------------------------
(* Each step keeps the invariant.                                          *)

(* voice_refusal, given that the state it starts from differs from the     *)
(* grant's in its bucket only and keeps the bucket's part of the           *)
(* invariant.                                                              *)
LEMMA VoicingStep ==
    ASSUME ChokepointInv,
           NEW g \in Wires, NEW kind \in UseKinds, NEW code \in Codes, NEW hint \in Nat,
           NEW st \in UseState,
           st.muted_pairs = states[g].muted_pairs,
           st.rate_muted_until = states[g].rate_muted_until,
           g \in DOMAIN Table =>
               /\ Paid(st, history.taken[g], history.born[g], Table[g].rate, now)
               /\ Promised(muted(st, kind, code, hint), Table[g].rate),
           voice_refusal(g, st, kind, code, hint),
           uses' \in Nat, UNCHANGED <<now, entries, presence, bound, open>>
    PROVE  ChokepointInv'
<1> DEFINE m == muted(st, kind, code, hint)
           said == <<verb(kind), code>>
           silent == suppressed(st, kind, code)
           hears == IF silent THEN history.heard[g] ELSE history.heard[g] \cup {said}
           entry == [grant |-> g, kind |-> kind, code |-> code, voiced |-> ~silent]
<1>1. /\ now \in Nat /\ entries \in [DOMAIN Table -> Entry] /\ states \in [Wires -> UseState]
      /\ presence \in [Realms -> Presence] /\ history \in History
  BY DEF ChokepointInv, ChokepointTypes
<1>2. m \in UseState /\ m.bucket = st.bucket
  BY <1>1, MutingKeepsTheBucket
<1>3. said \in Pairs /\ entry \in [grant : Wires, kind : UseKinds, code : Codes, voiced : BOOLEAN]
  BY VerbsOfKinds DEF Pairs
<1>4. Heard(st, history.heard[g]) /\ history.heard[g] \in SUBSET Pairs
  BY <1>1 DEF ChokepointInv, HearInv, Heard, History
<1>5. Heard(m, hears)
  BY <1>4, RefusalsAreHeard, Zenon
<1>6. states' = [states EXCEPT ![g] = m]
      /\ history' = [history EXCEPT !.last = {entry}, !.heard[g] = hears]
  BY DEF voice_refusal
<1> HIDE DEF m, said, silent, hears, entry
<1>7. hears \in SUBSET Pairs
  BY <1>3, <1>4 DEF hears
<1>8. /\ history' \in History
      /\ history'.taken = history.taken /\ history'.born = history.born
      /\ history'.presses = history.presses /\ history'.exempted = history.exempted
      /\ history'.stale = history.stale
      /\ history'.heard = [history.heard EXCEPT ![g] = hears]
  BY <1>1, <1>3, <1>6, <1>7, Zenon DEF History
<1>9. ChokepointTypes'
  BY <1>1, <1>2, <1>6, <1>8 DEF ChokepointTypes
<1>10. BucketInv'
  <2> SUFFICES ASSUME NEW h \in DOMAIN Table
               PROVE  /\ Paid(states'[h], history'.taken[h], history'.born[h], Table[h].rate, now')
                      /\ Promised(states'[h], Table[h].rate)
    BY DEF BucketInv
  <2>1. h \in Wires
    BY ChokepointAssumption
  <2>2. CASE h # g
    BY <1>1, <1>6, <1>8, <2>1, <2>2 DEF ChokepointInv, BucketInv
  <2>3. CASE h = g
    <3>1. states'[h] = m
      BY <1>1, <1>6, <2>3
    <3>2. Paid(m, history.taken[g], history.born[g], Table[g].rate, now)
      BY <1>2, <2>3 DEF Paid
    <3>3. Promised(m, Table[g].rate)
      BY <2>3 DEF m
    <3> QED BY <1>8, <2>3, <3>1, <3>2, <3>3
  <2> QED BY <2>2, <2>3
<1>11. HearInv'
  BY <1>1, <1>5, <1>6, <1>8 DEF ChokepointInv, HearInv, History
<1>12. WindowInv'
  BY <1>8 DEF ChokepointInv, WindowInv
<1>13. SeatInv'
  BY <1>8 DEF ChokepointInv, SeatInv, within
<1> QED BY <1>9, <1>10, <1>11, <1>12, <1>13 DEF ChokepointInv

LEMMA RefusedStep ==
    ASSUME ChokepointInv, NEW g \in Wires, NEW i \in Identities, NEW kind \in Kinds,
           NEW view \in BOOLEAN, enforce_use_refused(g, i, kind, view)
    PROVE  ChokepointInv'
<1> DEFINE code == gates(g, i, kind, view)
<1>1. ChokepointTypes /\ kind \in UseKinds
  BY ChokepointAssumption DEF ChokepointInv
<1>2. code \in Codes \ {"RateLimited"}
  BY <1>1, GatesOpenForRows
<1>3. states[g] \in UseState /\ uses' \in Nat /\ now \in Nat
  BY <1>1 DEF ChokepointTypes, enforce_use_refused, attempting
<1>4. voice_refusal(g, states[g], kind, code, 0) /\ UNCHANGED <<now, entries, presence, bound, open>>
  BY DEF enforce_use_refused, seat_vars
<1> HIDE DEF code
<1>5. /\ muted(states[g], kind, code, 0).bucket = states[g].bucket
      /\ muted(states[g], kind, code, 0).rate_muted_until = states[g].rate_muted_until
  BY <1>1, <1>2, <1>3, MutingKeepsTheBucket
<1>6. g \in DOMAIN Table =>
          /\ Paid(states[g], history.taken[g], history.born[g], Table[g].rate, now)
          /\ Promised(muted(states[g], kind, code, 0), Table[g].rate)
  BY <1>5 DEF ChokepointInv, BucketInv, Promised
<1> QED BY <1>1, <1>2, <1>3, <1>4, <1>6, VoicingStep

LEMMA RateLimitedStep ==
    ASSUME ChokepointInv, NEW g \in Wires, NEW i \in Identities, NEW kind \in Kinds,
           NEW view \in BOOLEAN, enforce_use_rate_limited(g, i, kind, view)
    PROVE  ChokepointInv'
<1> DEFINE t == taken(g)
           st == [states[g] EXCEPT !.bucket = {t.bucket}]
           rate == Table[g].rate
           m == muted(st, kind, "RateLimited", t.hint)
<1>1. ChokepointTypes /\ kind \in UseKinds
  BY ChokepointAssumption DEF ChokepointInv
<1>2. g \in DOMAIN Table
  BY <1>1, GatesOpenForRows DEF enforce_use_rate_limited
<1>3. /\ states[g] \in UseState /\ uses' \in Nat /\ now \in Nat /\ rate \in Nat \ {0}
      /\ history.taken[g] \in Nat /\ history.born[g] \in Nat
  BY <1>1, <1>2, ChokepointAssumption
  DEF ChokepointTypes, History, enforce_use_rate_limited, attempting
<1>4. t = take(met(states[g], rate, now), rate, now)
  BY DEF taken, met, full
<1>5. /\ Paid(states[g], history.taken[g], history.born[g], rate, now)
      /\ Promised(states[g], rate)
  BY <1>2 DEF ChokepointInv, BucketInv
<1>6. t.hint > 0 /\ voice_refusal(g, st, kind, "RateLimited", t.hint)
      /\ UNCHANGED <<now, entries, presence, bound, open>>
  BY DEF enforce_use_rate_limited, seat_vars
<1> HIDE DEF t, rate
<1>7. /\ t.hint \in Nat /\ t.bucket \in Bucket /\ t.bucket \in states[g].bucket
      /\ t.bucket.anchor + interval(rate) <= now + t.hint * Milli
  BY <1>3, <1>4, <1>5, <1>6, RefusalWaitsForAToken
<1>8. /\ st \in UseState /\ st.bucket = {t.bucket}
      /\ st.muted_pairs = states[g].muted_pairs
      /\ st.rate_muted_until = states[g].rate_muted_until
  BY <1>3, <1>7 DEF UseState
<1> HIDE DEF st
<1>9. Paid(st, history.taken[g], history.born[g], rate, now)
  BY <1>5, <1>7, <1>8 DEF Paid, None
<1>10. "RateLimited" \in Codes
  BY DEF Codes
<1>11. Promised(m, rate)
  <2>1. /\ m.bucket = {t.bucket}
        /\ \A until \in m.rate_muted_until :
               until \in states[g].rate_muted_until \/ until = now + at_least(1, t.hint) * Milli
    BY <1>1, <1>3, <1>7, <1>8, <1>10, MutingKeepsTheBucket
  <2>2. at_least(1, t.hint) = t.hint
    BY <1>6, <1>7 DEF at_least
  <2> QED BY <1>5, <1>7, <2>1, <2>2 DEF Promised
<1> QED BY <1>1, <1>3, <1>6, <1>7, <1>8, <1>9, <1>10, <1>11, VoicingStep DEF rate

(* What the operations on rows return are rows, and a dead-man switch      *)
(* leaves none alive.                                                      *)
LEMMA MovedRows ==
    ASSUME entries \in [DOMAIN Table -> Entry], NEW which, NEW from, NEW to \in Liveness
    PROVE  moved(entries, which, from, to) \in [DOMAIN Table -> Entry]
BY DEF moved, Entry

(* A hand that leaves a realm is forgotten there, the others are kept.     *)
LEMMA BindingMoves ==
    ASSUME presence \in [Realms -> Presence], SeatInv, NEW target
    PROVE  /\ bind_to(target) \in [Realms -> Presence]
           /\ \A r \in Realms :
                  /\ bind_to(target)[r] \in {absent, presence[r]}
                  /\ bind_to(target)[r] # absent => r \in target
<1>1. absent \in Presence
  BY DEF absent, Presence, None
<1> QED BY <1>1 DEF bind_to, SeatInv

LEMMA AdmittedStep ==
    ASSUME ChokepointInv, NEW g \in Wires, NEW i \in Identities, NEW kind \in Kinds,
           NEW view \in BOOLEAN, NEW code \in {"None", "Internal", "Capacity"},
           enforce_use(g, i, kind, view, code)
    PROVE  ChokepointInv'
<1> DEFINE t == taken(g)
           st == states[g]
           rate == Table[g].rate
           after == admitted_state(g)
           since == IF st.bucket = None THEN now ELSE history.born[g]
           hears == IF code = "None" THEN {} ELSE {<<verb(kind), code>>}
           entry == [grant |-> g, kind |-> kind, code |-> code, voiced |-> TRUE]
<1>1. ChokepointTypes /\ kind \in UseKinds
  BY ChokepointAssumption DEF ChokepointInv
<1>2. g \in DOMAIN Table /\ (preempted(g, kind) => open # {})
  BY <1>1, GatesOpenForRows DEF enforce_use
<1>3. /\ st \in UseState /\ now \in Nat /\ rate \in Nat \ {0}
      /\ uses' \in Nat /\ now' = now
      /\ history.taken[g] \in Nat /\ history.born[g] \in Nat
      /\ history \in History /\ states \in [Wires -> UseState]
      /\ entries \in [DOMAIN Table -> Entry] /\ presence \in [Realms -> Presence]
  BY <1>1, <1>2, ChokepointAssumption DEF ChokepointTypes, History, enforce_use, attempting
<1>4. t = take(met(st, rate, now), rate, now) /\ t.hint = 0
  BY DEF taken, met, full, enforce_use
<1>5. Paid(st, history.taken[g], history.born[g], rate, now)
  BY <1>2 DEF ChokepointInv, BucketInv
<1>6. /\ states' = [states EXCEPT ![g] = after]
      /\ history' = [history EXCEPT
            !.last = {entry}, !.heard[g] = hears, !.taken[g] = @ + 1, !.born[g] = since,
            !.exempted = IF preempted(g, kind) THEN @ + 1 ELSE @]
      /\ open' = claimed(g, kind) /\ entries' = commit_use(entries, g)
  <2>1. admitted_history(g, kind, code) = [history EXCEPT
            !.last = {entry}, !.heard[g] = hears, !.taken[g] = @ + 1, !.born[g] = since,
            !.exempted = IF preempted(g, kind) THEN @ + 1 ELSE @]
    BY <1>3 DEF admitted_history, History
  <2> QED BY <2>1 DEF enforce_use
<1>7. t.bucket \in Bucket
  <2> HIDE DEF t, st, rate
  <2> QED BY <1>3, <1>4, <1>5, RefusalWaitsForAToken
<1>8. after = clear_mutes([st EXCEPT !.bucket = {t.bucket}])
  BY DEF admitted_state
<1>9. /\ after \in UseState /\ after.bucket = {t.bucket}
      /\ after.muted_pairs = {} /\ after.rate_muted_until = {}
  <2> DEFINE spent == [st EXCEPT !.bucket = {t.bucket}]
  <2> HIDE DEF t, st, after
  <2>1. spent \in UseState /\ spent.bucket = {t.bucket}
    BY <1>3, <1>7 DEF UseState
  <2> HIDE DEF spent
  <2> QED BY <1>8, <2>1, Zenon DEF UseState, clear_mutes, None, spent
<1>10. verb(kind) \in UseVerbs /\ (code # "None" => verb(kind) \notin CoalescedVerbs)
  BY <1>1, VerbsOfKinds DEF enforce_use, sink_outcomes, sink_failures, coalescible, UseKinds
<1>11. /\ hears \in SUBSET Pairs /\ since \in Nat
       /\ entry \in [grant : Wires, kind : UseKinds, code : Codes, voiced : BOOLEAN]
  BY <1>1, <1>3, <1>10 DEF Pairs, Codes
<1>12. Heard(after, hears)
  BY <1>9, <1>10 DEF Heard, None
<1> HIDE DEF t, st, rate, after, since, hears, entry
<1>13. Paid(after, history.taken[g] + 1, since, rate, now)
  BY <1>3, <1>4, <1>5, <1>9, AdmissionIsPaid, Zenon DEF since
<1>14. Promised(after, rate)
  BY <1>9 DEF Promised
<1>15. /\ history' \in History
       /\ history'.heard = [history.heard EXCEPT ![g] = hears]
       /\ history'.taken = [history.taken EXCEPT ![g] = @ + 1]
       /\ history'.born = [history.born EXCEPT ![g] = since]
       /\ history'.presses = history.presses /\ history'.stale = history.stale
       /\ history'.exempted = IF preempted(g, kind) THEN history.exempted + 1 ELSE history.exempted
  <2> DEFINE exempted == IF preempted(g, kind) THEN history.exempted + 1 ELSE history.exempted
  <2>1. exempted \in Nat
    BY <1>3 DEF History
  <2>2. history' = [last |-> {entry}, heard |-> [history.heard EXCEPT ![g] = hears],
                    taken |-> [history.taken EXCEPT ![g] = @ + 1],
                    born |-> [history.born EXCEPT ![g] = since],
                    presses |-> history.presses, exempted |-> exempted,
                    stale |-> history.stale]
    BY <1>3, <1>6, Zenon DEF History
  <2> HIDE DEF exempted
  <2> QED BY <1>3, <1>11, <2>1, <2>2 DEF History, exempted
<1>16. entries' \in [DOMAIN Table -> Entry]
  <2>1. moved(entries, {g}, {"Active"}, "Spent") \in [DOMAIN Table -> Entry]
    BY <1>3, MovedRows DEF Liveness
  <2> QED BY <1>3, <1>6, <2>1, Zenon DEF commit_use
<1>17. /\ presence' \in [Realms -> Presence]
       /\ \A r \in Realms : presence'[r] \in {absent, presence[r]}
                            /\ (presence'[r] # absent => r \in bound')
  <2>1. CASE moves_focus(g, kind)
    <3>1. presence' = bind_to({Table[g].realm}) /\ bound' = {Table[g].realm}
      BY <2>1 DEF enforce_use
    <3> QED BY <1>3, <3>1, BindingMoves DEF ChokepointInv
  <2>2. CASE ~moves_focus(g, kind)
    <3>1. UNCHANGED <<presence, bound>>
      BY <2>2 DEF enforce_use
    <3> QED BY <1>3, <3>1 DEF ChokepointInv, SeatInv
  <2> QED BY <2>1, <2>2
<1>18. ChokepointTypes'
  BY <1>3, <1>6, <1>9, <1>15, <1>16, <1>17 DEF ChokepointTypes
<1>19. BucketInv'
  <2> SUFFICES ASSUME NEW h \in DOMAIN Table
               PROVE  /\ Paid(states'[h], history'.taken[h], history'.born[h], Table[h].rate, now')
                      /\ Promised(states'[h], Table[h].rate)
    BY DEF BucketInv
  <2>1. h \in Wires
    BY ChokepointAssumption
  <2>2. CASE h # g
    BY <1>3, <1>6, <1>15, <2>1, <2>2 DEF ChokepointInv, BucketInv, History
  <2>3. CASE h = g
    <3>1. states'[h] = after /\ history'.taken[h] = history.taken[g] + 1 /\ history'.born[h] = since
      BY <1>3, <1>6, <1>15, <2>3 DEF History
    <3> QED BY <1>3, <1>13, <1>14, <2>3, <3>1 DEF rate
  <2> QED BY <2>2, <2>3
<1>20. HearInv'
  BY <1>3, <1>6, <1>12, <1>15 DEF ChokepointInv, HearInv, History
<1>21. WindowInv'
  BY <1>2, <1>3, <1>6, <1>15 DEF ChokepointInv, WindowInv, claimed, History
<1>22. SeatInv'
  BY <1>3, <1>15, <1>17 DEF ChokepointInv, SeatInv, within, absent, None
<1> QED BY <1>18, <1>19, <1>20, <1>21, <1>22 DEF ChokepointInv

(* PhysicalPresence::note: an event is activity, and one that presses      *)
(* nothing leaves no button held that was released or past the ceiling.    *)
LEMMA NoteDropsStaleHolds ==
    ASSUME NEW p \in Presence, NEW input, now \in Nat
    PROVE  /\ note(p, input) \in Presence /\ note(p, input).last_activity # None
           /\ (/\ input # "ButtonPress"
               /\ p.held_buttons = 0 \/ (p.last_activity # None /\ ~within(p, HoldCeiling, now)))
                  => note(p, input).held_buttons = 0
<1> DEFINE held == IF p.last_activity # None /\ ~within(p, HoldCeiling, now)
                   THEN 0 ELSE p.held_buttons
           holds == CASE input = "ButtonPress"   -> held + 1
                      [] input = "ButtonRelease" -> at_least(1, held) - 1
                      [] OTHER                   -> held
<1>1. note(p, input) = [held_buttons |-> holds, last_activity |-> {now}]
  BY DEF note
<1>2. held \in Nat
  BY DEF Presence
<1>3. (p.held_buttons = 0 \/ (p.last_activity # None /\ ~within(p, HoldCeiling, now))) => held = 0
  OBVIOUS
<1> HIDE DEF held
<1>4. holds \in Nat /\ (input # "ButtonPress" /\ held = 0 => holds = 0)
  BY <1>2 DEF at_least
<1> HIDE DEF holds
<1> QED BY <1>1, <1>3, <1>4 DEF Presence, None

(* route_physical: the hand moves with the binding.                        *)
LEMMA HandsStep ==
    ASSUME ChokepointInv, NEW input, NEW presses \in Nat,
           turn_seat(input), history' = hands(input, presses), now' = now
    PROVE  /\ presence' \in [Realms -> Presence] /\ SeatInv'
           /\ history' \in History
           /\ history'.heard = history.heard /\ history'.taken = history.taken
           /\ history'.born = history.born /\ history'.exempted = history.exempted
           /\ history'.presses = history.presses + presses
<1> DEFINE target == IF seat_target = {} THEN bound ELSE seat_target
           kept == bind_to(target)
           settled(r) == r \in bound' /\ (input = "ButtonPress" \/ presence'[r] = absent)
<1>1. /\ now \in Nat /\ presence \in [Realms -> Presence] /\ history \in History /\ SeatInv
  BY DEF ChokepointInv, ChokepointTypes
<1>2. /\ bound' = target
      /\ presence' = [r \in Realms |-> IF r \in target THEN note(kept[r], input) ELSE kept[r]]
  BY DEF turn_seat
<1> HIDE DEF target
<1>3. /\ kept \in [Realms -> Presence]
      /\ \A r \in Realms : /\ kept[r] \in {absent, presence[r]}
                           /\ kept[r] # absent => r \in target
  BY <1>1, BindingMoves
<1> HIDE DEF kept
<1>4. presence' \in [Realms -> Presence]
  BY <1>1, <1>2, <1>3, NoteDropsStaleHolds
<1>5. history' = [last |-> history.last, heard |-> history.heard, taken |-> history.taken,
                  born |-> history.born, presses |-> history.presses + presses,
                  exempted |-> history.exempted,
                  stale |-> [r \in Realms |-> IF settled(r) THEN FALSE ELSE history.stale[r]]]
  BY <1>1, Zenon DEF hands, History
<1>6. history' \in History
  <2> DEFINE stales == [r \in Realms |-> IF settled(r) THEN FALSE ELSE history.stale[r]]
             pressed == history.presses + presses
  <2> HIDE DEF settled
  <2>0. stales \in [Realms -> BOOLEAN]
    BY <1>1, Zenon DEF History
  <2>1. pressed \in Nat
    BY <1>1 DEF History
  <2>2. history' = [last |-> history.last, heard |-> history.heard, taken |-> history.taken,
                    born |-> history.born, presses |-> pressed,
                    exempted |-> history.exempted, stale |-> stales]
    BY <1>5
  <2> HIDE DEF stales, pressed
  <2> QED BY <1>1, <2>0, <2>1, <2>2 DEF History
<1>7. SeatInv'
  <2> SUFFICES ASSUME NEW r \in Realms
               PROVE  /\ presence'[r] # absent => r \in bound'
                      /\ presence'[r].last_activity = None => presence'[r].held_buttons = 0
                      /\ history'.stale[r] => \/ presence'[r].held_buttons = 0
                                              \/ ~within(presence'[r], HoldCeiling, now')
    BY DEF SeatInv, within
  <2> DEFINE gone(p) == p.held_buttons = 0 \/ ~within(p, HoldCeiling, now)
  <2>1. kept[r] \in Presence /\ kept[r] \in {absent, presence[r]}
    BY <1>3
  <2>2. presence'[r] = IF r \in target THEN note(kept[r], input) ELSE kept[r]
    BY <1>2
  <2>3. /\ absent.held_buttons = 0 /\ absent.last_activity = None
        /\ presence[r].last_activity = None => presence[r].held_buttons = 0
        /\ history.stale[r] => gone(presence[r])
    BY <1>1 DEF SeatInv, absent
  <2>4. (kept[r].last_activity = None => kept[r].held_buttons = 0)
        /\ (history.stale[r] => gone(kept[r]))
    BY <2>1, <2>3
  <2>5. history'.stale[r] => ~settled(r) /\ history.stale[r]
    <3> HIDE DEF settled
    <3> QED BY <1>5
  <2> HIDE DEF gone
  <2>6. CASE r \in target
    <3>1. presence'[r] = note(kept[r], input) /\ r \in bound'
      BY <1>2, <2>2, <2>6
    <3>2. history'.stale[r] => input # "ButtonPress" /\ gone(kept[r])
      BY <2>4, <2>5, <3>1
    <3>3. note(kept[r], input).last_activity # None
      BY <1>1, <2>1, NoteDropsStaleHolds
    <3>4. (input # "ButtonPress" /\ gone(kept[r])) => note(kept[r], input).held_buttons = 0
      BY <1>1, <2>1, <2>4, NoteDropsStaleHolds DEF gone
    <3> QED BY <3>1, <3>2, <3>3, <3>4
  <2>7. CASE r \notin target
    <3>1. presence'[r] = absent
      BY <1>3, <2>2, <2>7
    <3> QED BY <2>3, <3>1
  <2> QED BY <2>6, <2>7
<1> QED BY <1>4, <1>5, <1>6, <1>7

(* A step that leaves the buckets, the mutes and the clock alone keeps     *)
(* their part of the invariant; the clock alone does too.                  *)
LEMMA PaceIsKept ==
    ASSUME ChokepointInv, states' = states, now' \in Nat, now <= now',
           history'.heard = history.heard, history'.taken = history.taken,
           history'.born = history.born
    PROVE  BucketInv' /\ HearInv'
<1>1. BucketInv'
  <2> SUFFICES ASSUME NEW g \in DOMAIN Table
               PROVE  /\ Paid(states[g], history.taken[g], history.born[g], Table[g].rate, now')
                      /\ Promised(states[g], Table[g].rate)
    BY DEF BucketInv
  <2>1. /\ Paid(states[g], history.taken[g], history.born[g], Table[g].rate, now)
        /\ Promised(states[g], Table[g].rate)
    BY DEF ChokepointInv, BucketInv
  <2>2. states[g] \in UseState /\ now \in Nat
    BY ChokepointAssumption DEF ChokepointInv, ChokepointTypes
  <2> QED BY <2>1, <2>2 DEF Paid, UseState, Bucket
<1>2. HearInv'
  BY DEF ChokepointInv, HearInv
<1> QED BY <1>1, <1>2

LEMMA DeathStep ==
    ASSUME ChokepointInv, NEW r \in Realms, realm_dies(r)
    PROVE  ChokepointInv'
<1>1. /\ now \in Nat /\ uses \in Nat /\ entries \in [DOMAIN Table -> Entry]
      /\ states \in [Wires -> UseState]
      /\ presence \in [Realms -> Presence] /\ history \in History /\ SeatInv /\ WindowInv
  BY DEF ChokepointInv, ChokepointTypes
<1>2. /\ presence' = [presence EXCEPT ![r] = absent] /\ bound' = bound \ {r}
      /\ history' = [history EXCEPT !.stale[r] = FALSE]
      /\ UNCHANGED <<now, entries, states, open, uses>>
  BY DEF realm_dies
<1>3. absent \in Presence /\ absent.held_buttons = 0 /\ absent.last_activity = None
  BY DEF absent, Presence, None
<1>4. history' = [last |-> history.last, heard |-> history.heard, taken |-> history.taken,
                  born |-> history.born, presses |-> history.presses,
                  exempted |-> history.exempted,
                  stale |-> [history.stale EXCEPT ![r] = FALSE]]
  BY <1>1, <1>2, Zenon DEF History
<1>5. history' \in History /\ history'.stale = [history.stale EXCEPT ![r] = FALSE]
  <2> DEFINE stales == [history.stale EXCEPT ![r] = FALSE]
  <2>1. stales \in [Realms -> BOOLEAN]
    BY <1>1 DEF History
  <2> HIDE DEF stales
  <2> QED BY <1>1, <1>4, <2>1 DEF History, stales
<1>6. BucketInv' /\ HearInv'
  BY <1>1, <1>2, <1>4, PaceIsKept
<1>7. WindowInv'
  BY <1>1, <1>2, <1>4 DEF WindowInv
<1>8. SeatInv'
  <2> SUFFICES ASSUME NEW q \in Realms
               PROVE  /\ presence'[q] # absent => q \in bound'
                      /\ presence'[q].last_activity = None => presence'[q].held_buttons = 0
                      /\ history'.stale[q] => \/ presence'[q].held_buttons = 0
                                              \/ ~within(presence'[q], HoldCeiling, now)
    BY <1>2 DEF SeatInv, within
  <2>1. CASE q = r
    BY <1>1, <1>2, <1>3, <2>1
  <2>2. CASE q # r
    <3>1. presence'[q] = presence[q] /\ (q \in bound => q \in bound')
      BY <1>1, <1>2, <2>2
    <3>2. history'.stale[q] = history.stale[q]
      BY <1>1, <1>5, <2>2 DEF History
    <3> QED BY <1>1, <3>1, <3>2 DEF SeatInv
  <2> QED BY <2>1, <2>2
<1>9. ChokepointTypes'
  BY <1>1, <1>2, <1>3, <1>5 DEF ChokepointTypes
<1> QED BY <1>6, <1>7, <1>8, <1>9 DEF ChokepointInv

LEMMA TickStep ==
    ASSUME ChokepointInv, tick
    PROVE  ChokepointInv'
<1> DEFINE past(r) == presence[r].held_buttons > 0 /\ ~within(presence[r], HoldCeiling, now')
           stales == [r \in Realms |-> history.stale[r] \/ past(r)]
<1>1. /\ now \in Nat /\ uses \in Nat /\ entries \in [DOMAIN Table -> Entry]
      /\ states \in [Wires -> UseState]
      /\ presence \in [Realms -> Presence] /\ history \in History /\ SeatInv /\ WindowInv
  BY DEF ChokepointInv, ChokepointTypes
<1>2. /\ now' = now + 1
      /\ history' = [history EXCEPT !.stale = stales]
      /\ UNCHANGED <<entries, states, presence, bound, open, uses>>
  BY DEF tick, seat_vars
<1>3. stales \in [Realms -> BOOLEAN]
  BY Zenon
<1> HIDE DEF stales
<1>4. history' = [last |-> history.last, heard |-> history.heard, taken |-> history.taken,
                  born |-> history.born, presses |-> history.presses,
                  exempted |-> history.exempted, stale |-> stales]
  BY <1>1, <1>2 DEF History
<1>5. history' \in History
  BY <1>1, <1>3, <1>4 DEF History
<1>6. BucketInv' /\ HearInv'
  BY <1>1, <1>2, <1>4, PaceIsKept
<1>7. WindowInv'
  BY <1>1, <1>2, <1>4 DEF WindowInv
<1>8. SeatInv'
  <2> SUFFICES ASSUME NEW r \in Realms
               PROVE  /\ presence[r] # absent => r \in bound
                      /\ presence[r].last_activity = None => presence[r].held_buttons = 0
                      /\ stales[r] => \/ presence[r].held_buttons = 0
                                      \/ ~within(presence[r], HoldCeiling, now')
    BY <1>2, <1>4 DEF SeatInv, within
  <2>1. presence[r].last_activity \in SUBSET Nat /\ HoldCeiling \in Nat
    BY <1>1, ChokepointAssumption DEF Presence
  <2>2. ~within(presence[r], HoldCeiling, now) => ~within(presence[r], HoldCeiling, now')
    BY <1>1, <1>2, <2>1 DEF within
  <2>3. stales[r] => history.stale[r] \/ past(r)
    BY Zenon DEF stales
  <2>4. history.stale[r] => \/ presence[r].held_buttons = 0
                            \/ ~within(presence[r], HoldCeiling, now)
    BY <1>1 DEF SeatInv
  <2> QED BY <1>1, <2>2, <2>3, <2>4 DEF SeatInv
<1>9. ChokepointTypes'
  BY <1>1, <1>2, <1>5 DEF ChokepointTypes
<1> QED BY <1>6, <1>7, <1>8, <1>9 DEF ChokepointInv

LEMMA WorldStep ==
    ASSUME ChokepointInv, World
    PROVE  ChokepointInv'
<1>1. /\ now \in Nat /\ uses \in Nat /\ entries \in [DOMAIN Table -> Entry]
      /\ states \in [Wires -> UseState] /\ presence \in [Realms -> Presence]
      /\ history \in History /\ SeatInv /\ WindowInv
      /\ history.presses \in Nat /\ history.exempted \in Nat
  BY DEF ChokepointInv, ChokepointTypes, History
<1>2. CASE \E input \in {"Motion", "ButtonPress", "ButtonRelease"} : route_physical_turn(input)
  <2>1. PICK input \in {"Motion", "ButtonPress", "ButtonRelease"} : route_physical_turn(input)
    BY <1>2
  <2>2. turn_seat(input) /\ history' = hands(input, 0) /\ UNCHANGED <<now, entries, states, open, uses>>
    BY <2>1 DEF route_physical_turn
  <2>3. /\ presence' \in [Realms -> Presence] /\ SeatInv' /\ history' \in History
        /\ history'.heard = history.heard /\ history'.taken = history.taken
        /\ history'.born = history.born /\ history'.exempted = history.exempted
        /\ history'.presses = history.presses + 0
    BY <2>2, HandsStep
  <2>4. BucketInv' /\ HearInv'
    BY <1>1, <2>2, <2>3, PaceIsKept
  <2>5. WindowInv'
    BY <1>1, <2>2, <2>3 DEF WindowInv
  <2> QED BY <1>1, <2>2, <2>3, <2>4, <2>5 DEF ChokepointInv, ChokepointTypes
<1>3. CASE \E delivered \in SUBSET Identities : open_attention_window(delivered)
  <2>1. PICK delivered \in SUBSET Identities : open_attention_window(delivered)
    BY <1>3
  <2> DEFINE presses == IF delivered = {} THEN 0 ELSE 1
  <2>2. /\ turn_seat("Key") /\ history' = hands("Key", presses)
        /\ open' = IF delivered = {} THEN open ELSE {[at |-> now, delivered_to |-> delivered]}
        /\ UNCHANGED <<now, entries, states, uses>>
    BY <2>1 DEF open_attention_window
  <2>3. /\ presence' \in [Realms -> Presence] /\ SeatInv' /\ history' \in History
        /\ history'.heard = history.heard /\ history'.taken = history.taken
        /\ history'.born = history.born /\ history'.exempted = history.exempted
        /\ history'.presses = history.presses + presses
    BY <2>2, HandsStep
  <2>4. BucketInv' /\ HearInv'
    BY <1>1, <2>2, <2>3, PaceIsKept
  <2>5. WindowInv'
    BY <1>1, <2>2, <2>3 DEF WindowInv
  <2> QED BY <1>1, <2>2, <2>3, <2>4, <2>5 DEF ChokepointInv, ChokepointTypes
<1>4. CASE \E i \in Identities : prompt_changes(i)
  <2>1. UNCHANGED <<now, entries, states, presence, bound, open, uses, history>>
    BY <1>4 DEF prompt_changes, seat_vars
  <2>2. BucketInv' /\ HearInv'
    BY <1>1, <2>1, PaceIsKept
  <2> QED BY <2>1, <2>2 DEF ChokepointInv, ChokepointTypes, WindowInv, SeatInv, within
<1>5. CASE apply_dead_man
  <2>1. /\ entries' = moved(entries, DOMAIN entries, Liveness, "Revoked") /\ open' = {}
        /\ UNCHANGED <<now, states, presence, bound, uses, history>>
    BY <1>5 DEF apply_dead_man, seat_vars
  <2>2. BucketInv' /\ HearInv'
    BY <1>1, <2>1, PaceIsKept
  <2>3. entries' \in [DOMAIN Table -> Entry]
    BY <1>1, <2>1, MovedRows DEF Liveness
  <2> QED BY <2>1, <2>2, <2>3 DEF ChokepointInv, ChokepointTypes, WindowInv, SeatInv, within
<1>6. CASE \E r \in Realms : realm_dies(r)
  BY <1>6, DeathStep
<1>7. CASE tick
  BY <1>7, TickStep
<1> QED BY <1>2, <1>3, <1>4, <1>5, <1>6, <1>7 DEF World

LEMMA ChokepointInit ==
    ASSUME Init
    PROVE  ChokepointInv
<1> DEFINE nobody == [r \in Realms |-> FALSE]
<1>1. fresh_state \in UseState /\ absent \in Presence
  BY DEF fresh_state, UseState, absent, Presence, None
<1>2. nobody \in [Realms -> BOOLEAN]
  OBVIOUS
<1>3. history = [last |-> {}, heard |-> [g \in Wires |-> {}],
                 taken |-> [g \in Wires |-> 0], born |-> [g \in Wires |-> 0],
                 presses |-> 0, exempted |-> 0, stale |-> nobody]
  BY DEF Init
<1> HIDE DEF nobody
<1>4. history \in History
  BY <1>2, <1>3 DEF History
<1>5. ChokepointTypes
  BY <1>1, <1>4, ChokepointAssumption DEF Init, ChokepointTypes
<1>6. \A g \in Wires : states[g] = fresh_state /\ history.taken[g] = 0 /\ history.heard[g] = {}
  <2>1. \A g \in Wires : states[g] = fresh_state
    BY DEF Init
  <2>2. history.taken = [g \in Wires |-> 0] /\ history.heard = [g \in Wires |-> {}]
    BY <1>3
  <2> QED BY <2>1, <2>2
<1>7. BucketInv
  BY <1>6, ChokepointAssumption DEF BucketInv, Paid, Promised, fresh_state, None
<1>8. HearInv
  BY <1>6 DEF HearInv, Heard, fresh_state, None
<1>9. WindowInv
  BY <1>3 DEF Init, WindowInv, None
<1>10. SeatInv
  <2>1. \A r \in Realms : presence[r] = absent
    BY DEF Init
  <2> QED BY <2>1 DEF SeatInv, absent
<1> QED BY <1>5, <1>7, <1>8, <1>9, <1>10 DEF ChokepointInv

LEMMA ChokepointStep ==
    ASSUME ChokepointInv, [Next]_vars
    PROVE  ChokepointInv'
<1>1. CASE Agent(Wires, Kinds)
  <2>1. PICK g \in Wires, i \in Identities, kind \in Kinds, view \in BOOLEAN :
            \/ enforce_use_refused(g, i, kind, view)
            \/ enforce_use_rate_limited(g, i, kind, view)
            \/ \E code \in {"None", "Internal", "Capacity"} : enforce_use(g, i, kind, view, code)
    BY <1>1 DEF Agent
  <2> QED BY <2>1, RefusedStep, RateLimitedStep, AdmittedStep
<1>2. CASE World
  BY <1>2, WorldStep
<1>3. CASE UNCHANGED vars
  BY <1>3 DEF vars, ChokepointInv, ChokepointTypes, BucketInv, HearInv, WindowInv, SeatInv, within
<1> QED BY <1>1, <1>2, <1>3 DEF Next

LEMMA ChokepointIsInvariant == Spec => []ChokepointInv
BY ChokepointInit, ChokepointStep, PTL DEF Spec

-----------------------------------------------------------------------------
(***************************************************************************)
(* Whatever agents attempt and whenever, a grant admits no more uses than  *)
(* one burst and its rate for the time since its first use                 *)
(* (interval_ns, TokenBucket::take).                                       *)
(***************************************************************************)
THEOREM GrantsKeepTheirPace == Spec => []RateIsBounded
<1>1. ChokepointInv => RateIsBounded
  <2> SUFFICES ASSUME ChokepointInv, NEW g \in DOMAIN Table, states[g].bucket # None
               PROVE  Second * history.taken[g]
                          <= Table[g].rate * (Second + (now - history.born[g]))
    BY DEF RateIsBounded
  <2> DEFINE n == interval(Table[g].rate)
             rate == Table[g].rate
             born == history.born[g]
             took == history.taken[g]
  <2>1. /\ states[g] \in UseState /\ now \in Nat /\ rate \in Nat \ {0}
        /\ born \in Nat /\ took \in Nat /\ Second \in Nat
    BY ChokepointAssumption DEF ChokepointInv, ChokepointTypes, History
  <2>2. PICK b \in states[g].bucket : TRUE
    BY DEF None
  <2>3. /\ born <= b.anchor /\ b.anchor <= now
        /\ took + b.tokens <= rate + (b.anchor - born) \div n
    BY <2>2 DEF ChokepointInv, BucketInv, Paid
  <2>4. n \in Nat \ {0}
    BY <2>1, IntervalIsPositive
  <2>5. b.anchor \in Nat /\ b.tokens \in Nat
    BY <2>1, <2>2 DEF UseState, Bucket
  <2> DEFINE x == b.anchor - born
             late == now - b.anchor
             q == x \div n
  <2>6. x \in Nat /\ late \in Nat /\ now - born = x + late
    BY <2>1, <2>3, <2>5
  <2>7. q \in Nat
    BY <2>4, <2>6, DivisionRoundsDown
  <2>8. Second * q <= rate * x
    BY <2>1, <2>6, IntervalsKeepTheRate
  <2> DEFINE left == rate + q - took
  <2>9. left \in Nat /\ took = rate + q - left
    BY <2>1, <2>3, <2>5, <2>7
  <2> HIDE DEF n, rate, born, took, x, late, q, left
  <2>10. Second * took = rate * Second + Second * q - Second * left
    BY <2>1, <2>7, <2>9, SMT
  <2>11. rate * (Second + (x + late)) = rate * Second + rate * x + rate * late
    BY <2>1, <2>6, SMT
  <2>12. /\ rate * Second \in Nat /\ Second * q \in Nat /\ Second * left \in Nat
         /\ rate * x \in Nat /\ rate * late \in Nat
    BY <2>1, <2>6, <2>7, <2>9, SMT
  <2>13. Second * took <= rate * (Second + (x + late))
    BY <2>8, <2>10, <2>11, <2>12, SMT
  <2> QED BY <2>6, <2>13 DEF rate, born, took
<1> QED BY <1>1, ChokepointIsInvariant, PTL

(***************************************************************************)
(* An agent that was told when to come back and does, then or later, finds *)
(* a token: the hint is rounded up to where the next one is due, and no    *)
(* other use moves that (TokenBucket::take, voice_refusal, clear_mutes).   *)
(***************************************************************************)
THEOREM HintsAreHonest == Spec => []RetryHintIsHonest
<1>1. ChokepointInv => RetryHintIsHonest
  <2> SUFFICES ASSUME ChokepointInv, NEW g \in DOMAIN Table,
                      NEW until \in states[g].rate_muted_until, NEW b \in states[g].bucket
               PROVE  take(b, Table[g].rate, at_least(until, now)).hint = 0
    BY DEF RetryHintIsHonest
  <2> DEFINE rate == Table[g].rate
             n == interval(rate)
             at == at_least(until, now)
             c == credited(b, rate, at)
  <2>1. states[g] \in UseState /\ now \in Nat /\ rate \in Nat \ {0}
    BY ChokepointAssumption DEF ChokepointInv, ChokepointTypes
  <2>2. until \in Nat /\ b \in Bucket /\ n \in Nat \ {0}
    BY <2>1, IntervalIsPositive DEF UseState
  <2>3. b.tokens <= rate /\ b.anchor <= now /\ b.anchor + n <= until
    BY DEF ChokepointInv, BucketInv, Paid, Promised
  <2> HIDE DEF rate, n
  <2>4. at \in Nat /\ b.anchor <= at /\ b.anchor + n <= at
    BY <2>1, <2>2, <2>3 DEF at_least, Bucket
  <2> HIDE DEF at
  <2>5. c \in Bucket /\ (c.tokens = 0 => at < b.anchor + n)
    BY <2>1, <2>2, <2>3, <2>4, RefillPaysForTokens DEF n
  <2>6. c.tokens > 0
    BY <2>2, <2>4, <2>5 DEF Bucket
  <2>7. take(b, rate, at).hint = 0
    BY <2>6 DEF take
  <2> QED BY <2>7 DEF at, rate
<1> QED BY <1>1, ChokepointIsInvariant, PTL

(***************************************************************************)
(* Only the realm the router is bound to is physically owned, and a button *)
(* whose release never arrived owns it no longer than the ceiling          *)
(* (InputRouter::bind_to, PhysicalPresence::note).                         *)
(***************************************************************************)
THEOREM HandsAreCurrent == Spec => []OwnershipIsCurrent
<1>1. ChokepointInv => OwnershipIsCurrent
  BY DEF ChokepointInv, ChokepointTypes, SeatInv, OwnershipIsCurrent, owns_target, Presence
<1> QED BY <1>1, ChokepointIsInvariant, PTL

(***************************************************************************)
(* Between two admitted uses of a grant no refusal is kept from an agent   *)
(* that was not told of it, and no coalescible one is told twice, rate     *)
(* limits apart (voice_refusal, clear_mutes).                              *)
(***************************************************************************)
THEOREM SilenceWasExplained == Spec => RefusalsAreHeardOnce
<1> DEFINE said(e) == <<verb(e.kind), e.code>>
           told(e) == /\ ~e.voiced =>
                             \E p \in history'.heard[e.grant] :
                                 p = said(e) \/ (e.code = "RateLimited" /\ p[2] = "RateLimited")
                      /\ (/\ e.voiced /\ coalescible(e.kind)
                          /\ e.code \notin {"None", "RateLimited"})
                             => said(e) \notin history.heard[e.grant]
<1>1. ASSUME ChokepointInv, NEW g \in Wires, NEW kind \in UseKinds, NEW code \in Codes,
             NEW hint \in Nat, NEW st \in UseState,
             st.muted_pairs = states[g].muted_pairs,
             st.rate_muted_until = states[g].rate_muted_until,
             voice_refusal(g, st, kind, code, hint)
      PROVE  \A e \in history'.last : told(e)
  <2> DEFINE silent == suppressed(st, kind, code)
             words == <<verb(kind), code>>
             entry == [grant |-> g, kind |-> kind, code |-> code, voiced |-> ~silent]
             hears == IF silent THEN history.heard[g] ELSE history.heard[g] \cup {words}
  <2>1. history \in History /\ history.heard[g] \in SUBSET Pairs /\ Heard(st, history.heard[g])
    BY <1>1 DEF ChokepointInv, ChokepointTypes, HearInv, Heard, History
  <2>2. /\ silent => \E p \in history.heard[g] :
                         p = words \/ (code = "RateLimited" /\ p[2] = "RateLimited")
        /\ (~silent /\ coalescible(kind) /\ code # "RateLimited") => words \notin history.heard[g]
    BY <1>1, <2>1, RefusalsAreHeard, Zenon
  <2>3. history' = [history EXCEPT !.last = {entry}, !.heard[g] = hears]
    BY <1>1 DEF voice_refusal
  <2> HIDE DEF silent, hears
  <2>4. history'.last = {entry} /\ history'.heard[g] = hears
    BY <2>1, <2>3 DEF History
  <2>5. entry.grant = g /\ said(entry) = words /\ entry.kind = kind /\ entry.code = code
        /\ (entry.voiced <=> ~silent)
    BY Zenon
  <2> HIDE DEF entry, words, said
  <2>6. told(entry)
    BY <2>2, <2>4, <2>5 DEF hears
  <2> QED BY <2>4, <2>6
<1>2. ASSUME ChokepointInv, NEW g \in Wires, NEW i \in Identities, NEW kind \in Kinds,
             NEW view \in BOOLEAN, enforce_use_refused(g, i, kind, view)
      PROVE  \A e \in history'.last : told(e)
  <2> DEFINE code == gates(g, i, kind, view)
  <2>1. ChokepointTypes /\ kind \in UseKinds
    BY <1>2, ChokepointAssumption DEF ChokepointInv
  <2>2. code \in Codes /\ states[g] \in UseState
    BY <1>2, <2>1, GatesOpenForRows DEF ChokepointTypes
  <2>3. voice_refusal(g, states[g], kind, code, 0)
    BY <1>2 DEF enforce_use_refused
  <2> HIDE DEF code, told
  <2> QED BY <1>1, <1>2, <2>1, <2>2, <2>3
<1>3. ASSUME ChokepointInv, NEW g \in Wires, NEW i \in Identities, NEW kind \in Kinds,
             NEW view \in BOOLEAN, enforce_use_rate_limited(g, i, kind, view)
      PROVE  \A e \in history'.last : told(e)
  <2> DEFINE t == taken(g)
             st == [states[g] EXCEPT !.bucket = {t.bucket}]
             rate == Table[g].rate
  <2>1. ChokepointTypes /\ kind \in UseKinds /\ "RateLimited" \in Codes
    BY <1>3, ChokepointAssumption DEF ChokepointInv, Codes
  <2>2. g \in DOMAIN Table
    BY <1>3, <2>1, GatesOpenForRows DEF enforce_use_rate_limited
  <2>3. /\ states[g] \in UseState /\ now \in Nat /\ rate \in Nat \ {0}
        /\ history.taken[g] \in Nat /\ history.born[g] \in Nat
        /\ Paid(states[g], history.taken[g], history.born[g], rate, now)
    BY <1>3, <2>1, <2>2, ChokepointAssumption DEF ChokepointTypes, History, ChokepointInv, BucketInv
  <2>4. t = take(met(states[g], rate, now), rate, now)
    BY DEF taken, met, full
  <2> HIDE DEF t, rate
  <2>5. t.hint \in Nat /\ t.bucket \in Bucket
    BY <2>3, <2>4, RefusalWaitsForAToken
  <2>6. /\ st \in UseState /\ st.muted_pairs = states[g].muted_pairs
        /\ st.rate_muted_until = states[g].rate_muted_until
    BY <2>3, <2>5 DEF UseState
  <2>7. voice_refusal(g, st, kind, "RateLimited", t.hint)
    BY <1>3 DEF enforce_use_rate_limited, t
  <2> HIDE DEF st, told
  <2> QED BY <1>1, <1>3, <2>1, <2>5, <2>6, <2>7
<1>4. ASSUME ChokepointInv, NEW g \in Wires, NEW i \in Identities, NEW kind \in Kinds,
             NEW view \in BOOLEAN, NEW code \in {"None", "Internal", "Capacity"},
             enforce_use(g, i, kind, view, code)
      PROVE  \A e \in history'.last : told(e)
  <2> DEFINE entry == [grant |-> g, kind |-> kind, code |-> code, voiced |-> TRUE]
  <2>1. history \in History /\ kind \in UseKinds
    BY <1>4, ChokepointAssumption DEF ChokepointInv, ChokepointTypes
  <2>2. history'.last = {entry}
    BY <1>4, <2>1 DEF enforce_use, admitted_history, History
  <2>3. code = "None" \/ ~coalescible(kind)
    BY <1>4, <2>1 DEF enforce_use, sink_outcomes, sink_failures, coalescible, UseKinds
  <2>4. entry.voiced /\ entry.code = code /\ entry.kind = kind
    OBVIOUS
  <2> HIDE DEF entry, said
  <2> QED BY <2>2, <2>3, <2>4
<1>5. ChokepointInv /\ [Next]_vars =>
          [uses' # uses => \A e \in history'.last : told(e)]_vars
  <2> SUFFICES ASSUME ChokepointInv, Next, uses' # uses
               PROVE  \A e \in history'.last : told(e)
    OBVIOUS
  <2>1. ~World
    BY DEF World, route_physical_turn, open_attention_window, prompt_changes, apply_dead_man,
           realm_dies, tick
  <2>2. PICK g \in Wires, i \in Identities, kind \in Kinds, view \in BOOLEAN :
            \/ enforce_use_refused(g, i, kind, view)
            \/ enforce_use_rate_limited(g, i, kind, view)
            \/ \E code \in {"None", "Internal", "Capacity"} : enforce_use(g, i, kind, view, code)
    BY <2>1 DEF Next, Agent
  <2> HIDE DEF told
  <2> QED BY <1>2, <1>3, <1>4, <2>2
<1> QED BY <1>5, ChokepointIsInvariant, PTL DEF Spec, RefusalsAreHeardOnce

(***************************************************************************)
(* One press of the attention key buys at most one layout act over the     *)
(* human's hand, and its window closes only for such an act, a later press *)
(* or the dead-man switch (AttentionSignal::exempt and claim).             *)
(***************************************************************************)
THEOREM PressesBuyOneAct == Spec => WindowBuysOneAct
<1> DEFINE bought == /\ history'.exempted <= history'.presses
                     /\ open # {} /\ open' # open =>
                            \/ history'.exempted = history.exempted + 1
                            \/ history'.presses = history.presses + 1
                            \/ \A g \in DOMAIN entries' : entries'[g].liveness = "Revoked"
<1>1. ChokepointInv /\ ChokepointInv' /\ [Next]_vars => [bought]_vars
  <2> SUFFICES ASSUME ChokepointInv, ChokepointInv', Next
               PROVE  bought
    OBVIOUS
  <2>1. history'.exempted <= history'.presses /\ history \in History
    BY DEF ChokepointInv, ChokepointTypes, WindowInv
  <2>2. CASE open' = open
    BY <2>1, <2>2
  <2>3. CASE Agent(Wires, Kinds) /\ open' # open
    <3>1. PICK g \in Wires, i \in Identities, kind \in Kinds, view \in BOOLEAN,
               code \in {"None", "Internal", "Capacity"} : enforce_use(g, i, kind, view, code)
      BY <2>3 DEF Agent, enforce_use_refused, enforce_use_rate_limited
    <3>2. preempted(g, kind)
      BY <2>3, <3>1 DEF enforce_use, claimed
    <3>3. history'.exempted = history.exempted + 1
      BY <2>1, <3>1, <3>2 DEF enforce_use, admitted_history, History
    <3> QED BY <2>1, <3>3
  <2>4. CASE World /\ open' # open
    <3>1. CASE \E delivered \in SUBSET Identities : open_attention_window(delivered)
      <4>1. PICK delivered \in SUBSET Identities : open_attention_window(delivered)
        BY <3>1
      <4>2. delivered # {} /\ history' = hands("Key", 1)
        BY <2>4, <4>1 DEF open_attention_window
      <4>3. history'.presses = history.presses + 1
        BY <2>1, <4>2 DEF hands, History
      <4> QED BY <2>1, <4>3
    <3>2. CASE apply_dead_man
      <4>1. entries \in [DOMAIN Table -> Entry]
        BY DEF ChokepointInv, ChokepointTypes
      <4>2. \A g \in DOMAIN entries' : entries'[g].liveness = "Revoked"
        BY <3>2, <4>1 DEF apply_dead_man, moved, Entry
      <4> QED BY <2>1, <4>2
    <3>3. apply_dead_man \/ \E delivered \in SUBSET Identities : open_attention_window(delivered)
      BY <2>4 DEF World, route_physical_turn, prompt_changes, realm_dies, tick
    <3> QED BY <3>1, <3>2, <3>3
  <2> QED BY <2>2, <2>3, <2>4 DEF Next
<1> QED BY <1>1, ChokepointIsInvariant, PTL DEF Spec, WindowBuysOneAct
=============================================================================
