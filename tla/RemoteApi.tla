----------------------------- MODULE RemoteApi -----------------------------
(***************************************************************************)
(* RemoteAPIClient (remote_api.py) under the history and search commands:  *)
(* the capability answer it caches, the check of a feature before a        *)
(* request, and the collection of pages by cursor.  The server advances    *)
(* while the client lives: it boots, indexes, degrades and recovers, and   *)
(* its data change between two pages.  A capability answer is a record of  *)
(* the fields the client reads; a cursor names a page of a snapshot.  The  *)
(* server may answer with a page of a newer snapshot, leave the snapshot   *)
(* out of a page, and send the cursor of any page that it had before.      *)
(***************************************************************************)
EXTENDS Naturals, Sequences

CONSTANTS
  Pages,     \* pages of every snapshot
  MaxSnap    \* bound: snapshots the server takes

ASSUME ApiAssumption == {Pages, MaxSnap} \subseteq Nat \ {0}

VARIABLES
  server,   \* external: what it answers to GET /api/capabilities
  snap,     \* external: the snapshot a query without a cursor is given
  cache,    \* _capabilities and _capabilities_checked
  cmd       \* the command under way: history or search, how far, what it has collected

apiVars == <<server, snap, cache, cmd>>

-----------------------------------------------------------------------------
(* Capability answers.  version 0: not advertised.                          *)

Malformed == 9   \* a version, kind or scope outside the contract

Answer(history, search, ready, state, schema) ==
  [history |-> history, global_search |-> search, history_ready |-> ready,
   search_state |-> state, schema_version |-> schema]

Legacy == Answer(0, 0, "unset", "unset", 0)   \* 404 on the route: None

\* A canonical server: booting, with or without the readiness signal; indexing;
\* complete; degraded.
Booting == {Answer(0, 0, "no", "warming", 2), Answer(0, 0, "no", "unavailable", 2),
            Answer(0, 0, "unset", "warming", 0), Answer(0, 0, "unset", "unavailable", 2)}
Indexing == {Answer(2, 0, "yes", "warming", 2), Answer(2, 0, "unset", "unavailable", 0)}
Complete == {Answer(2, 1, "yes", "ready", 2)}
Degraded == {Answer(2, 0, "yes", "degraded", 2), Answer(2, 1, "yes", "degraded", 2)}
Canonical == Booting \cup Indexing \cup Complete \cup Degraded

\* Servers that never get the features, or advertise them wrongly.
Old == {Legacy, Answer(1, 0, "unset", "unset", 1), Answer(1, 0, "unset", "unavailable", 1)}
Odd == {Answer(Malformed, Malformed, "yes", "ready", 2)}

Answers == Canonical \cup Old \cup Odd

\* _capabilities_are_transient
Transient(c) == c.history_ready = "no" \/ c.search_state \in {"warming", "degraded", "unavailable"}

\* Mutant: whatever has been read is kept.
KeepsAll(c) == [value |-> c, checked |-> TRUE]

Cached(c) == [value |-> c, checked |-> ~Transient(c)]

-----------------------------------------------------------------------------
(* _require_feature: "ok", the code of a retryable 503, or the error raised *)

\* Mutant: an index that is not there yet is taken for a feature that is not.
NeverCanonical(c) == FALSE

CanonicalV2(c) == c.schema_version >= 2 \/ c.history >= 2

ReadinessOf(c, feature) ==
  IF feature = "history" /\ c.history_ready # "unset"
  THEN IF c.history_ready = "no" THEN "warming" ELSE "none"
  ELSE IF c.search_state \in {"warming", "degraded"} THEN c.search_state
  ELSE IF c.search_state = "unavailable" /\ CanonicalV2(c) THEN "warming" ELSE "none"

Minimum == [history |-> 2, global_search |-> 1]

Required(c, feature) ==
  IF c[feature] = 0
  THEN IF ReadinessOf(c, feature) # "none" THEN ReadinessOf(c, feature) ELSE "unsupported"
  ELSE IF c[feature] = Malformed THEN "protocol error"
  ELSE IF c[feature] < Minimum[feature] THEN "unsupported" ELSE "ok"

-----------------------------------------------------------------------------
(* The command: capabilities(), require, collect                            *)

NoPage == [snap |-> 0, at |-> 0]
Cursors == [snap : 1..MaxSnap, at : 1..Pages]

\* A page as it is answered; named: its "snapshot" field says which one it is of.
Answered == [snap : 1..MaxSnap, at : 1..Pages, named : BOOLEAN]
NoAnswer == [snap |-> 0, at |-> 0, named |-> FALSE]

\* twice and stray are ghosts: the places taken a second time, and whether a
\* cursor was not the one of the page that follows.
NoCommand == [feature |-> "none", at |-> "none", all |-> FALSE, start |-> 1, seen |-> {},
              next |-> NoPage, first |-> NoAnswer, got |-> {}, twice |-> {}, stray |-> FALSE,
              end |-> "none"]

ApiInit ==
  /\ server \in Answers /\ snap = 1
  /\ cache \in {Cached(server), [value |-> Legacy, checked |-> FALSE]}  \* embedded, or not
  /\ cmd = NoCommand

\* An exception ends it: what has been collected is dropped.
Ends(how) == cmd' = [NoCommand EXCEPT !.feature = cmd.feature, !.end = how]

\* A query may start at a cursor of an earlier page; --all asks for every page.
Command(feature, all, start) ==
  /\ cmd.at = "none"
  /\ cmd' = [NoCommand EXCEPT !.feature = feature, !.at = "capabilities",
                              !.all = all, !.start = start]
  /\ UNCHANGED <<server, snap, cache>>

Check(c) == LET how == Required(c, cmd.feature)
            IN  IF how = "ok" THEN cmd' = [cmd EXCEPT !.at = "first"] ELSE Ends(how)

FromCache ==
  /\ cmd.at = "capabilities" /\ cache.checked
  /\ Check(cache.value)
  /\ UNCHANGED <<server, snap, cache>>

FromServer ==
  /\ cmd.at = "capabilities" /\ ~cache.checked
  /\ cache' = Cached(server) /\ Check(server)
  /\ UNCHANGED <<server, snap>>

\* An error other than 404, 405 or 501 leaves the cache as it was; a request
\* for a page fails on a stale cursor, a limit, an index that degrades.
RequestFails ==
  /\ cmd.at = "first" \/ cmd.at = "more" \/ (cmd.at = "capabilities" /\ ~cache.checked)
  /\ Ends("error")
  /\ UNCHANGED <<server, snap, cache>>

\* The cursor of the page that follows.
After(page) == IF page.at < Pages THEN [snap |-> page.snap, at |-> page.at + 1] ELSE NoPage

\* What the server may send with a page: that cursor, or one of a page up to it.
Sent(page) == {After(page)} \cup {c \in Cursors : c.snap = page.snap /\ c.at <= page.at}

\* Mutants: no cursor is remembered; pages of any snapshot are taken.
AnyCursor(cursor) == FALSE
AnySnapshot(page) == FALSE

Repeated(cursor) == cursor \in cmd.seen

\* The snapshots are compared if both pages name theirs.
Changed(page) == cmd.first.named /\ page.named /\ page.snap # cmd.first.snap

Taken(page) == \E p \in cmd.got : p.snap = page.snap /\ p.at = page.at

\* Add a page; go on with the cursor that came with it, or end.
Continue(page, cursor, first, seen) ==
  LET more == cmd.all /\ cursor # NoPage
  IN  cmd' = [cmd EXCEPT !.at = IF more THEN "more" ELSE "none",
                         !.end = IF more THEN "none" ELSE "ok",
                         !.got = @ \cup {page},
                         !.twice = IF Taken(page) THEN @ \cup {page.at} ELSE @,
                         !.stray = @ \/ cursor # After(page),
                         !.next = IF more THEN cursor ELSE NoPage,
                         !.first = first, !.seen = IF more THEN seen ELSE {}]

\* Only a cursor that the query began with is remembered before the first page.
FirstPage ==
  /\ cmd.at = "first"
  /\ \E named \in BOOLEAN :
       LET page == [snap |-> snap, at |-> cmd.start, named |-> named]
       IN  \E cursor \in Sent(page) :
             Continue(page, cursor, page,
                      IF cmd.start = 1 THEN {} ELSE {[snap |-> snap, at |-> cmd.start]})
  /\ UNCHANGED <<server, snap, cache>>

\* The server answers with the page asked for, or the same of a newer snapshot.
NextPage ==
  /\ cmd.at = "more"
  /\ IF Repeated(cmd.next) THEN Ends("protocol error")
     ELSE \E named \in BOOLEAN, of \in {cmd.next.snap, snap} :
          LET page == [snap |-> of, at |-> cmd.next.at, named |-> named]
          IN  \E cursor \in Sent(page) :
                IF Changed(page) THEN Ends("protocol error")
                ELSE Continue(page, cursor, cmd.first, cmd.seen \cup {cmd.next})
  /\ UNCHANGED <<server, snap, cache>>

-----------------------------------------------------------------------------
(* The server moves on: external *)

ServerAdvances ==
  /\ \/ server \in Booting  /\ server' \in Booting \cup Indexing \cup Complete
     \/ server \in Indexing /\ server' \in Indexing \cup Complete
     \/ server \in Complete /\ server' \in Degraded
     \/ server \in Degraded /\ server' \in Complete
  /\ server' # server
  /\ UNCHANGED <<snap, cache, cmd>>

DataChange ==
  /\ snap < MaxSnap /\ snap' = snap + 1
  /\ UNCHANGED <<server, cache, cmd>>

Works == FromCache \/ FromServer \/ FirstPage \/ NextPage

Asks(feature) == \E all \in BOOLEAN, start \in 1..Pages : Command(feature, all, start)

ApiNext == \/ \E feature \in {"history", "global_search"} : Asks(feature)
           \/ Works \/ RequestFails \/ ServerAdvances \/ DataChange

ApiSpec == ApiInit /\ [][ApiNext]_apiVars

\* A command goes on; searches are made again and again, and now and then the
\* capability route answers one of them.
FairApiSpec == ApiSpec /\ WF_apiVars(Works) /\ SF_apiVars(Asks("global_search"))
               /\ SF_apiVars(cmd.feature = "global_search" /\ (FromCache \/ FromServer))
-----------------------------------------------------------------------------
\* What a canonical server does not have yet is answered as warming or degraded,
\* which scripts retry, and never as unsupported, whenever the answer was taken
\* and however long it has been cached.
TemporaryIsRetryable == cmd.end = "unsupported" => server \notin Canonical

\* A server that has become complete and stays so is found out, although the
\* client authenticated while it was booting: no early answer sticks.
IndexIsFound ==
  <>[](server \in Complete) => []<>(cmd.feature = "global_search" /\ cmd.at = "first")

\* Pages of one snapshot, whether or not they name it.
OneSnapshot == \A page \in cmd.got : page.snap = cmd.first.snap

\* A collection that succeeds mixes no page that names another snapshot with a
\* first page that names its own; and if it is of one snapshot it holds every page
\* from where it started to the last, each once: cursors that go back cannot make
\* it skip or repeat one, but for the page that was asked for without a cursor.
CollectionIsWhole ==
  cmd.end = "ok" /\ cmd.all =>
    /\ cmd.first.named => \A page \in cmd.got : page.named => page.snap = cmd.first.snap
    /\ OneSnapshot => /\ {page.at : page \in cmd.got} = cmd.start..Pages
                      /\ cmd.twice \subseteq IF cmd.stray THEN {1} ELSE {}

\* A collection ends, also when the server's cursors go round in a circle.
CollectionEnds == (cmd.at = "more") ~> (cmd.at = "none")

=============================================================================
