------------------------------- MODULE Search -------------------------------
(***************************************************************************)
(* Keyset pagination of GET /api/v1/search (app/search.py,                 *)
(* app/routes/search.py): one client follows nextCursor from the first     *)
(* page to the last while the importer goes on changing the catalogue.     *)
(* Every page is one SQL statement, hence one step.                        *)
(*                                                                         *)
(* A rank is a float4 in PostgreSQL.  The cursor carries its decimal text  *)
(* and hands it back as a float8, which the server compares with the       *)
(* float4 widened to float8: rounding[k] says on which side of the k-th    *)
(* rank the returned value lies.  Only 0 is known to survive the trip.     *)
(* Md5s are numbered in byte order, ranks in increasing order.             *)
(***************************************************************************)
EXTENDS Integers, FiniteSets

CONSTANTS
  Md5s,        \* md5s the catalogue can hold, as naturals
  MaxRank,     \* bound: distinct positive ranks of a text query
  MaxLimit,    \* bound: largest page size
  MaxWrites,   \* bound: rows the importer changes during the scan
  Gone         \* no row, a tombstone, or a row the query does not match

ASSUME SearchAssumption ==
  /\ IsFiniteSet(Md5s) /\ Md5s \subseteq Nat
  /\ MaxRank \in Nat /\ MaxLimit \in Nat \ {0} /\ MaxWrites \in Nat
  /\ Gone \notin Nat

Ranks == 0 .. MaxRank
NoCursor == [r |-> -2, m |-> -1]

VARIABLES
  rows,      \* rows[m]: rank of the row that matches the query, or Gone
  text,      \* the query has a q parameter, otherwise every rank is 0
  rounding,  \* rounding[k]: -1, 0 or 1
  limit,     \* page size of the request
  cursor,    \* nextCursor of the page before, NoCursor for the first request
  done,      \* nextCursor was null
  shown,     \* history: md5s on some page
  twice,     \* history: md5s on more than one page
  touched,   \* history: md5s changed since the first request
  writes

vars == <<rows, text, rounding, limit, cursor, done, shown, twice, touched, writes>>

(* Filter-only queries have a constant rank.                               *)
RankOf(isText) == IF isText THEN Ranks ELSE {0}

Init ==
  /\ text \in BOOLEAN
  /\ rows \in [Md5s -> RankOf(text) \cup {Gone}]
  /\ rounding \in {f \in [Ranks -> {-1, 0, 1}] : f[0] = 0}
  /\ limit \in 1 .. MaxLimit
  /\ cursor = NoCursor
  /\ done = FALSE
  /\ shown = {} /\ twice = {} /\ touched = {} /\ writes = 0

-----------------------------------------------------------------------------
(* ORDER BY rank DESC, md5 ASC.                                            *)
Before(m, n) == rows[m] > rows[n] \/ (rows[m] = rows[n] /\ m < n)

(* Ranks on the float8 scale of the comparison: three steps per float4.    *)
Wide(k) == 3 * k

(* The trailing edition count instead of the rank in the cursor.           *)
EncodeCursor_LastColumn(m) ==
  [r |-> Wide(Cardinality({n \in Md5s : rows[n] # Gone})), m |-> m]

(* encode_cursor, then decode_cursor in the next request.                  *)
EncodeCursor(m) == [r |-> Wide(rows[m]) + rounding[rows[m]], m |-> m]

(* A keyset predicate that keeps the last row of the page before.          *)
AfterCursor_Inclusive(m) ==
  \/ cursor = NoCursor
  \/ Wide(rows[m]) < cursor.r
  \/ Wide(rows[m]) = cursor.r /\ m >= cursor.m

(* A keyset predicate on the rank alone.                                   *)
AfterCursor_RankOnly(m) ==
  \/ cursor = NoCursor
  \/ Wide(rows[m]) < cursor.r

(* rank < cur_rank OR (rank = cur_rank AND md5 > cur_md5)                  *)
AfterCursor(m) ==
  \/ cursor = NoCursor
  \/ Wide(rows[m]) < cursor.r
  \/ Wide(rows[m]) = cursor.r /\ m > cursor.m

Window == {m \in Md5s : rows[m] # Gone /\ AfterCursor(m)}

(* LIMIT limit + 1, of which the page shows the first limit rows.          *)
IsPage(P) ==
  /\ \A m \in P, n \in Window \ P : Before(m, n)
  /\ Cardinality(P) <= limit
  /\ P = Window \/ Cardinality(P) = limit

(* One request: build_search_sql and fetch_search_page.  There is a next   *)
(* cursor when a row was fetched beyond the page.                          *)
Page(P) ==
  /\ ~done
  /\ IsPage(P)
  /\ shown' = shown \cup P
  /\ twice' = twice \cup (shown \cap P)
  /\ \/ /\ P = Window
        /\ done' = TRUE
        /\ UNCHANGED cursor
     \/ /\ P # Window
        /\ \E last \in P : /\ \A m \in P \ {last} : Before(m, last)
                           /\ cursor' = EncodeCursor(last)
        /\ UNCHANGED done
  /\ UNCHANGED <<rows, text, rounding, limit, touched, writes>>

NextPage == \E P \in SUBSET Window : Page(P)

(* The importer inserts, changes or tombstones a row between two requests. *)
Write(m, k) ==
  /\ writes < MaxWrites /\ cursor # NoCursor /\ ~done
  /\ k # rows[m]
  /\ rows' = [rows EXCEPT ![m] = k]
  /\ touched' = touched \cup {m}
  /\ writes' = writes + 1
  /\ UNCHANGED <<text, rounding, limit, cursor, done, shown, twice>>

Import == \E m \in Md5s : \E k \in RankOf(text) \cup {Gone} : Write(m, k)

Next == NextPage \/ Import

Spec == Init /\ [][Next]_vars

-----------------------------------------------------------------------------
(* Types of the state, and a cursor is always the position of some row.    *)
TypeOK ==
  /\ rows \in [Md5s -> Ranks \cup {Gone}]
  /\ text \in BOOLEAN /\ done \in BOOLEAN
  /\ rounding \in [Ranks -> {-1, 0, 1}]
  /\ limit \in 1 .. MaxLimit
  /\ cursor = NoCursor \/ cursor \in [r : -1 .. 3 * MaxRank + 1, m : Md5s]
  /\ shown \in SUBSET Md5s /\ twice \in SUBSET shown /\ touched \in SUBSET Md5s
  /\ writes \in 0 .. MaxWrites

(* A row that did not change since the first request is shown at most once *)
(* unless the cursor returns its rank rounded up: whatever the importer    *)
(* inserts, removes or moves around it, no page repeats it.                *)
StableRowsOnce == \A m \in twice \ touched : rounding[rows[m]] = 1

(* When nextCursor is null, every row that matched from the first request  *)
(* on has been shown unless its rank came back rounded down.               *)
NothingSkipped ==
  done => \A m \in Md5s \ touched : \/ rows[m] = Gone
                                    \/ m \in shown
                                    \/ rounding[rows[m]] = -1

(* tests/integration/test_search.py:199: "cursor pagination must not       *)
(* repeat rows".                                                           *)
NoRowTwice == twice \subseteq touched
=============================================================================
