----------------------------- MODULE QueryCache -----------------------------
(* One entry of the query cache (@tanstack/react-query), as packages/core    *)
(* uses it with the defaults of core/query-client.ts: data never goes stale  *)
(* by age, a failed fetch is retried once.  The library is external; these   *)
(* operators are what its calls do to an entry.                              *)
(*                                                                           *)
(* data is what pages show, flag says that it was invalidated.  A fetch is   *)
(* "asked" until the server has read what it will answer, then "read" until  *)
(* the answer arrives.  back is the state a cancelled fetch returns to.      *)
CONSTANT None

Entry(data) == [data |-> data, flag |-> FALSE, fetch |-> "no", snap |-> None, back |-> None]

Fetching(q) == q.fetch # "no"
HasData(q) == q.data # None

State(q) == [data |-> q.data, flag |-> q.flag]
Idle(q) == [q EXCEPT !.fetch = "no", !.snap = None, !.back = None]

\* A fetch starts; one that is under way is dropped.
Asked(q) == [q EXCEPT !.fetch = "asked", !.snap = None, !.back = State(q)]

\* A component that uses the entry mounts.
Mounts(q) == IF ~Fetching(q) /\ (q.flag \/ ~HasData(q)) THEN Asked(q) ELSE q

\* invalidateQueries: an entry in use is fetched anew, but a first fetch that
\* is under way goes on and its answer counts as fresh.
Invalidate(q, mounted) ==
    LET flagged == [q EXCEPT !.flag = TRUE] IN
    IF mounted /\ ~(Fetching(q) /\ ~HasData(q)) THEN Asked(flagged) ELSE flagged

\* setQueryData(f) of updaters that leave an empty entry alone: the data count
\* as fresh and a fetch under way goes on.
Put(q, data) ==
    [q EXCEPT !.data = data, !.flag = FALSE,
              !.back = IF Fetching(q) THEN [data |-> data, flag |-> FALSE] ELSE None]
Patch(q, F(_)) == IF HasData(q) THEN Put(q, F(q.data)) ELSE q

\* cancelQueries: back to the state before the fetch.
Cancel(q) ==
    IF Fetching(q) THEN Idle([q EXCEPT !.data = q.back.data, !.flag = q.back.flag]) ELSE q

Read(q, snap) == [q EXCEPT !.fetch = "read", !.snap = snap]
Answer(q) == Idle([q EXCEPT !.data = q.snap, !.flag = FALSE])

\* The answer is lost and the fetch tried again.
Retry(q) == [q EXCEPT !.fetch = "asked", !.snap = None]
=============================================================================
