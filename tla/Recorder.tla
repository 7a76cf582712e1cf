------------------------------ MODULE Recorder ------------------------------
(***************************************************************************)
(* The flight recorder (recorder.rs): the one append-only journal of a     *)
(* run, through writes that fail part-way, the bounded attempts to come    *)
(* back, and the runs of refusals it writes as counts.                     *)
(*                                                                         *)
(* A recorder v is the Recorder with the file it appends to.  A step is    *)
(* one call; its `fate` says which of the lines of that call fails, and    *)
(* whether the recorder could still terminate the fragment, perhaps empty, *)
(* that the failing write leaves at the end of the file.                   *)
(***************************************************************************)
EXTENDS Naturals, Sequences, FiniteSets, SequencesExt

CONSTANTS
    Connections,
    Wires,                  \* grant ids of a connection
    Codes,                  \* (verb, code) pairs of a refusal
    RECOVERY_ATTEMPTS,
    RECOVERY_BACKOFF,
    REFUSAL_SUMMARY_INTERVAL,
    MAX_REFUSAL_RUNS,
    MaxCalls,               \* bound: calls of record
    MaxTime                 \* bound: the clock

Keys == Connections \X Wires

VARIABLES v, now

vars == <<v, now>>

Fine == [nth |-> 0, leaves |-> "fragment"]

Fates == {Fine} \cup [nth : 1 .. 3, leaves : {"terminated", "fragment"}]

Init ==
    /\ v = [open       |-> TRUE,       \* file.is_some()
            seq        |-> 1,
            dropped    |-> 0,
            attempts   |-> 0,
            not_before |-> 0,
            fragment   |-> FALSE,      \* fragment_pending
            runs       |-> <<>>,       \* refusal_runs
            fate       |-> Fine,
            tail       |-> "clean",    \* the file ends with a newline, or does not
            lines      |-> <<>>,       \* the whole lines of the file that parse
            refused    |-> [k \in Keys |-> 0],  \* history: refusals decided
            told       |-> [k \in Keys |-> 0],  \*   and told, on lines or as repeats
            calls      |-> 0,
            finished   |-> FALSE]
    /\ now = 0

(* The lines of this call that are still to come, after one was written.   *)
next_fate(f) == [f EXCEPT !.nth = IF @ = 0 THEN 0 ELSE @ - 1]

-----------------------------------------------------------------------------
\* Appended where the file happens to end.
appended_glued(r, line) ==
    [r EXCEPT !.lines = IF r.tail = "clean" THEN Append(@, line) ELSE @,
              !.tail = "clean", !.fragment = FALSE]

(* A line that goes through, on a line of its own when a fragment may be   *)
(* pending; one that follows a fragment is lost in it.                     *)
appended(r, line) ==
    [r EXCEPT !.lines = IF r.tail = "clean" \/ r.fragment THEN Append(@, line) ELSE @,
              !.tail = "clean", !.fragment = FALSE]

(* render and write_line.                                                  *)
write_line(r, kind, says) ==
    LET line  == [seq |-> r.seq, kind |-> kind, says |-> says]
        r1    == [r EXCEPT !.seq = @ + 1, !.fate = next_fate(@)]
    IN  IF ~r.open THEN [r1 EXCEPT !.dropped = @ + 1]
        ELSE IF r.fate.nth # 1 THEN appended(r1, line)
        ELSE [r1 EXCEPT !.open = FALSE, !.dropped = @ + 1,
                        !.fragment = (r.fate.leaves # "terminated"),
                        !.tail = IF r.fate.leaves = "terminated" THEN "clean" ELSE "torn"]

(* `reopens` when the file can be opened again.                            *)
try_recover(r, forced, reopens) ==
    LET tried == [r EXCEPT !.attempts = @ + 1, !.not_before = now + RECOVERY_BACKOFF]
    IN  IF r.open THEN r
        ELSE IF ~forced /\ (r.attempts >= RECOVERY_ATTEMPTS \/ now < r.not_before) THEN r
        ELSE IF ~reopens THEN tried
        ELSE write_line([tried EXCEPT !.open = TRUE], "recording_resumed", tried.dropped)

-----------------------------------------------------------------------------
(* Runs of refusals.                                                       *)

emit_refusal_summary(r, k) ==
    LET run    == r.runs[k]
        opened == [r EXCEPT !.runs[k].suppressed = 0, !.runs[k].window_opened = now]
    IN  IF run.suppressed = 0 THEN opened
        ELSE write_line([opened EXCEPT !.told[k] = @ + run.suppressed],
                        "use_refusal_summary", run.suppressed)

\* The run is forgotten with its count.
flush_refusal_run_silent(r, k) ==
    [r EXCEPT !.runs = [x \in DOMAIN @ \ {k} |-> @[x]]]

flush_refusal_run(r, k) ==
    IF k \notin DOMAIN r.runs THEN r
    ELSE LET told == emit_refusal_summary(r, k)
         IN  [told EXCEPT !.runs = [x \in DOMAIN @ \ {k} |-> @[x]]]

flush_runs(r, keys) == FoldLeft(flush_refusal_run, r, SetToSeq(keys))

(* note_refusal: the recorder, and whether the refusal has its own line.   *)
note_refusal(r, k, code) ==
    LET repeat == k \in DOMAIN r.runs /\ r.runs[k].code = code
        counted == [r EXCEPT !.runs[k].suppressed = @ + 1]
        ended  == flush_refusal_run(r, k)
        roomy  == IF Cardinality(DOMAIN ended.runs) >= MAX_REFUSAL_RUNS
                  THEN flush_runs(ended, DOMAIN ended.runs) ELSE ended
        new    == [code |-> code, suppressed |-> 0, window_opened |-> now]
    IN  IF repeat
        THEN [own |-> FALSE,
              r   |-> IF now - r.runs[k].window_opened >= REFUSAL_SUMMARY_INTERVAL
                      THEN emit_refusal_summary(counted, k) ELSE counted]
        ELSE [own |-> TRUE,
              r   |-> [roomy EXCEPT !.runs = [x \in DOMAIN @ \cup {k} |->
                                                 IF x = k THEN new ELSE @[x]]]]

(* The entries that end runs first, and the refusals; then the line.       *)
record(r, event, reopens) ==
    LET back == try_recover(r, FALSE, reopens)
    IN  CASE event.kind = "refused" ->
                LET noted == note_refusal(back, event.key, event.code)
                IN  IF ~noted.own THEN noted.r
                    ELSE write_line([noted.r EXCEPT !.told[event.key] = @ + 1], "use_decision", 0)
          [] event.kind = "admitted" ->
                write_line(flush_refusal_run(back, event.key), "use_decision", 0)
          [] event.kind = "teardown" ->
                write_line(flush_runs(back, {k \in DOMAIN back.runs : k[1] = event.connection}),
                           "connection_teardown", 0)
          [] event.kind = "run_ended" -> write_line(back, "run_ended", event.dropped)
          [] event.kind = "other" -> write_line(back, "other", 0)

Events ==
    [kind : {"refused"}, key : Keys, code : Codes] \cup [kind : {"admitted"}, key : Keys]
        \cup [kind : {"teardown"}, connection : Connections] \cup [kind : {"other"}]

-----------------------------------------------------------------------------
fated(r, fate) == [r EXCEPT !.fate = fate]

settled(r) == [r EXCEPT !.fate = Fine]

decided(r, event) ==
    IF event.kind = "refused" THEN [r EXCEPT !.refused[event.key] = @ + 1] ELSE r

records(event, fate, reopens) ==
    /\ ~v.finished /\ v.calls < MaxCalls
    /\ v' = [settled(record(fated(decided(v, event), fate), event, reopens))
                EXCEPT !.calls = @ + 1]
    /\ UNCHANGED now

(* finish: a forced attempt, every run, the footer; the file may fail, and *)
(* open again, more than once on the way.                                  *)
finish(fate, last_fate, reopens, last_reopens) ==
    /\ ~v.finished
    /\ LET back    == try_recover(fated(v, fate), TRUE, reopens)
           flushed == flush_runs(back, DOMAIN back.runs)
           footer  == [kind |-> "run_ended", dropped |-> flushed.dropped]
       IN  v' = [settled(record(fated(flushed, last_fate), footer, last_reopens))
                    EXCEPT !.finished = TRUE]
    /\ UNCHANGED now

tick ==
    /\ now < MaxTime /\ now' = now + 1
    /\ UNCHANGED v

Next ==
    \/ \E event \in Events, reopens \in {~v.open, FALSE} :
          \E fate \in IF v.open \/ reopens THEN Fates ELSE {Fine} : records(event, fate, reopens)
    \/ \E reopens \in {~v.open, FALSE}, last_reopens \in BOOLEAN, last_fate \in Fates :
          \E fate \in IF v.open \/ reopens THEN Fates ELSE {Fine} :
             finish(fate, last_fate, reopens, last_reopens)
    \/ tick

Spec == Init /\ [][Next]_vars

-----------------------------------------------------------------------------
(* The file alone tells what it lost: every entry is a whole line of it or *)
(* counted as dropped, the numbers only rise, and a `recording_resumed` or *)
(* `run_ended` that made it names exactly the holes before it, through     *)
(* torn writes, failed reopenings and a failure inside the recovery itself *)
(* (write_line, try_recover, finish).                                      *)
JournalIsAccounted ==
    /\ v.seq - 1 = Len(v.lines) + v.dropped
    /\ \A i \in DOMAIN v.lines :
          /\ i > 1 => v.lines[i - 1].seq < v.lines[i].seq
          /\ v.lines[i].kind \in {"recording_resumed", "run_ended"}
                => v.lines[i].says = v.lines[i].seq - i

(* No refusal goes uncounted: each is a line of its own, one of the        *)
(* repeats a summary named, or still in the count of its run, and when the *)
(* journal is closed none is outstanding, though runs end by a change of   *)
(* code, a success, a teardown, the window and the cap on runs             *)
(* (note_refusal, flush_refusal_run).                                      *)
RefusalsAddUp ==
    \A k \in Keys :
        LET outstanding == IF k \in DOMAIN v.runs THEN v.runs[k].suppressed ELSE 0
        IN  /\ v.refused[k] = v.told[k] + outstanding
            /\ v.finished => outstanding = 0
=============================================================================
