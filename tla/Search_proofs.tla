---------------------------- MODULE Search_proofs ----------------------------
(***************************************************************************)
(* Theorems about Search, for every finite set of md5s, any number of      *)
(* ranks, every page size and any number of writes between the pages.      *)
(***************************************************************************)
EXTENDS Search, TLAPS

USE SearchAssumption DEF SearchAssumption

(* What a client has been shown lies behind the cursor, and what it has    *)
(* still to see before it.  A rank that comes back rounded up is shown     *)
(* again, one that comes back rounded down is skipped.                     *)
Behind ==
  \A m \in shown \ touched :
    rows[m] # Gone /\ (rounding[rows[m]] = 1 \/ done \/ ~AfterCursor(m))

Ahead ==
  \A m \in Md5s \ (touched \cup shown) :
    rows[m] # Gone /\ rounding[rows[m]] # -1 => ~done /\ AfterCursor(m)

Inv == TypeOK /\ Behind /\ Ahead /\ StableRowsOnce

-----------------------------------------------------------------------------
(* Types                                                                   *)

LEMMA RowFacts ==
  ASSUME TypeOK, NEW m \in Md5s, rows[m] # Gone
  PROVE  m \in Nat /\ rows[m] \in Ranks /\ rows[m] \in Nat /\ rounding[rows[m]] \in {-1, 0, 1}
BY DEF TypeOK, Ranks

LEMMA CursorFacts ==
  ASSUME TypeOK, cursor # NoCursor
  PROVE  cursor.r \in Int /\ cursor.m \in Nat
<1>1. cursor \in [r : -1 .. 3 * MaxRank + 1, m : Md5s]
  BY DEF TypeOK
<1>2. cursor.r \in -1 .. 3 * MaxRank + 1 /\ cursor.m \in Md5s
  BY <1>1
<1>3. cursor.m \in Nat
  BY <1>2
<1>4. \A r \in -1 .. 3 * MaxRank + 1 : r \in Int
  OBVIOUS
<1> QED
  BY <1>2, <1>3, <1>4

LEMMA EncodeFacts ==
  ASSUME TypeOK, NEW m \in Md5s, rows[m] # Gone
  PROVE  /\ EncodeCursor(m) \in [r : -1 .. 3 * MaxRank + 1, m : Md5s]
         /\ EncodeCursor(m).r = 3 * rows[m] + rounding[rows[m]]
         /\ EncodeCursor(m).m = m
         /\ EncodeCursor(m) # NoCursor
<1> DEFINE r == 3 * rows[m] + rounding[rows[m]]
<1>1. r \in -1 .. 3 * MaxRank + 1
  BY RowFacts DEF Ranks
<1>2. EncodeCursor(m) = [r |-> r, m |-> m]
  BY DEF EncodeCursor, Wide
<1>3. NoCursor.m = -1 /\ m # -1
  BY RowFacts DEF NoCursor
<1> HIDE DEF r
<1>4. EncodeCursor(m).r = r /\ EncodeCursor(m).m = m
  BY <1>2
<1> QED
  BY <1>1, <1>2, <1>3, <1>4 DEF r

LEMMA PageTypes ==
  ASSUME TypeOK, NextPage
  PROVE  TypeOK'
<1>1. PICK P \in SUBSET Window : Page(P)
  BY DEF NextPage
<1>2. P \subseteq Md5s /\ \A m \in P : rows[m] # Gone
  BY DEF Window
<1>3. cursor' = NoCursor \/ cursor' \in [r : -1 .. 3 * MaxRank + 1, m : Md5s]
  <2>1. CASE P = Window
    BY <1>1, <2>1 DEF Page, TypeOK
  <2>2. CASE P # Window
    BY <1>1, <1>2, <2>2, EncodeFacts DEF Page
  <2> QED
    BY <2>1, <2>2
<1>4. done' \in BOOLEAN
  BY <1>1 DEF Page, TypeOK
<1>5. shown' \in SUBSET Md5s /\ twice' \in SUBSET shown'
  BY <1>1, <1>2 DEF Page, TypeOK
<1> QED
  BY <1>1, <1>3, <1>4, <1>5 DEF Page, TypeOK

LEMMA WriteTypes ==
  ASSUME TypeOK, NEW m \in Md5s, NEW k \in RankOf(text) \cup {Gone}, Write(m, k)
  PROVE  TypeOK'
<1>1. k \in Ranks \cup {Gone}
  BY DEF RankOf, Ranks
<1>2. rows' \in [Md5s -> Ranks \cup {Gone}] /\ touched' \in SUBSET Md5s
  BY <1>1 DEF Write, TypeOK
<1>3. writes' \in 0 .. MaxWrites
  BY DEF Write, TypeOK
<1> QED
  BY <1>2, <1>3 DEF Write, TypeOK

-----------------------------------------------------------------------------
(* The last page                                                           *)

LEMMA LastPage ==
  ASSUME Inv, Page(Window)
  PROVE  Behind' /\ Ahead'
<1>1. done' = TRUE /\ shown' = shown \cup Window /\ UNCHANGED <<rows, rounding, touched>>
  BY DEF Page
<1>2. \A m \in Window : m \in Md5s /\ rows[m] # Gone
  BY DEF Window
<1>3. Behind'
  BY <1>1, <1>2 DEF Behind, Inv
<1>4. \A m \in Md5s \ (touched \cup shown) :
        rows[m] # Gone /\ rounding[rows[m]] # -1 => m \in Window
  BY DEF Inv, Ahead, Window
<1>5. Ahead'
  BY <1>1, <1>4 DEF Ahead
<1> QED
  BY <1>3, <1>5

(* A page with more rows after it                                          *)

(* The cursor of a page is the position of its last row, and of the rows   *)
(* up to there it lets through only those whose rank is rounded up.        *)
LEMMA NextCursor ==
  ASSUME TypeOK, NEW last \in Md5s, rows[last] # Gone,
         cursor' = EncodeCursor(last), UNCHANGED rows,
         NEW m \in Md5s, rows[m] # Gone
  PROVE  /\ Before(m, last) \/ m = last => rounding[rows[m]] = 1 \/ ~AfterCursor(m)'
         /\ Before(last, m) => rounding[rows[m]] = -1 \/ AfterCursor(m)'
<1>1. /\ m \in Nat /\ last \in Nat /\ rows[m] \in Nat /\ rows[last] \in Nat
      /\ rounding[rows[m]] \in {-1, 0, 1} /\ rounding[rows[last]] \in {-1, 0, 1}
  BY RowFacts
<1>2. /\ cursor' # NoCursor /\ cursor'.r = 3 * rows[last] + rounding[rows[last]]
      /\ cursor'.m = last
  BY EncodeFacts
<1>3. AfterCursor(m)' <=> \/ 3 * rows[m] < cursor'.r
                          \/ 3 * rows[m] = cursor'.r /\ m > cursor'.m
  BY <1>2 DEF AfterCursor, Wide
<1>4. CASE rows[m] > rows[last]
  BY <1>1, <1>2, <1>3, <1>4 DEF Before
<1>5. CASE rows[m] < rows[last]
  <2>1. ~Before(m, last) /\ m # last
    BY <1>1, <1>5 DEF Before
  <2>2. 3 * rows[m] < cursor'.r
    BY <1>1, <1>2, <1>5
  <2> QED
    BY <1>3, <2>1, <2>2
<1>6. CASE rows[m] = rows[last]
  <2>1. Before(m, last) <=> m < last
    BY <1>1, <1>6 DEF Before
  <2>2. Before(last, m) <=> last < m
    BY <1>1, <1>6 DEF Before
  <2> QED
    BY <1>1, <1>2, <1>3, <1>6, <2>1, <2>2
<1> QED
  BY <1>1, <1>4, <1>5, <1>6

(* The cursor never goes back: what lay behind it lies behind the next.    *)
LEMMA CursorAdvances ==
  ASSUME TypeOK, NEW last \in Md5s, rows[last] # Gone, AfterCursor(last),
         NEW m \in Md5s, rows[m] # Gone, ~AfterCursor(m)
  PROVE  Before(m, last)
<1>1. m \in Nat /\ last \in Nat /\ rows[m] \in Nat /\ rows[last] \in Nat
  BY RowFacts
<1>2. cursor # NoCursor /\ cursor.r \in Int /\ cursor.m \in Nat
  BY CursorFacts DEF AfterCursor
<1>3. ~(3 * rows[m] < cursor.r) /\ ~(3 * rows[m] = cursor.r /\ m > cursor.m)
  BY DEF AfterCursor, Wide
<1>4. 3 * rows[last] < cursor.r \/ (3 * rows[last] = cursor.r /\ last > cursor.m)
  BY <1>2 DEF AfterCursor, Wide
<1> QED
  BY <1>1, <1>2, <1>3, <1>4 DEF Before

LEMMA InnerPage ==
  ASSUME Inv, NEW P \in SUBSET Window, Page(P), P # Window
  PROVE  Behind' /\ Ahead'
<1>1. /\ ~done /\ UNCHANGED <<rows, rounding, touched, done>> /\ shown' = shown \cup P
      /\ \A m \in P, n \in Window \ P : Before(m, n)
  BY DEF Page, IsPage
<1>2. PICK last \in P : /\ \A m \in P \ {last} : Before(m, last)
                        /\ cursor' = EncodeCursor(last)
  BY DEF Page
<1>3. \A m \in Window : m \in Md5s /\ rows[m] # Gone /\ AfterCursor(m)
  BY DEF Window
<1>4. last \in Md5s /\ rows[last] # Gone /\ AfterCursor(last) /\ TypeOK
  BY <1>2, <1>3 DEF Inv
<1>5. ASSUME NEW m \in shown' \ touched
      PROVE  rows[m] # Gone /\ (rounding[rows[m]] = 1 \/ ~AfterCursor(m)')
  <2>1. CASE m \in P
    BY <1>1, <1>2, <1>3, <1>4, <2>1, NextCursor
  <2>2. CASE m \in shown
    <3>1. m \in Md5s /\ rows[m] # Gone /\ (rounding[rows[m]] = 1 \/ ~AfterCursor(m))
      BY <1>1, <1>5, <2>2 DEF Inv, Behind, TypeOK
    <3> QED
      BY <1>1, <1>2, <1>4, <3>1, CursorAdvances, NextCursor
  <2> QED
    BY <1>1, <1>5, <2>1, <2>2
<1>6. ASSUME NEW m \in Md5s \ (touched \cup shown'), rows[m] # Gone, rounding[rows[m]] # -1
      PROVE  AfterCursor(m)'
  <2>1. m \in Window \ P
    BY <1>1, <1>6 DEF Inv, Ahead, Window
  <2> QED
    BY <1>1, <1>2, <1>4, <1>6, <2>1, NextCursor
<1> QED
  BY <1>1, <1>5, <1>6 DEF Behind, Ahead

-----------------------------------------------------------------------------
(* The steps                                                               *)

(* A row comes a second time only if the cursor lets it through again.     *)
LEMMA PageOnce ==
  ASSUME Inv, NEW P \in SUBSET Window, Page(P)
  PROVE  StableRowsOnce'
<1>1. /\ ~done /\ UNCHANGED <<rows, rounding, touched>>
      /\ twice' = twice \cup (shown \cap P)
  BY DEF Page
<1>2. \A m \in P : AfterCursor(m)
  BY DEF Window
<1> QED
  BY <1>1, <1>2 DEF Inv, Behind, StableRowsOnce

LEMMA PageStep ==
  ASSUME Inv, NextPage
  PROVE  Inv'
<1>1. PICK P \in SUBSET Window : Page(P)
  BY DEF NextPage
<1>2. Behind' /\ Ahead'
  BY <1>1, LastPage, InnerPage
<1>3. StableRowsOnce'
  BY <1>1, PageOnce
<1>4. TypeOK'
  BY PageTypes DEF Inv
<1> QED
  BY <1>2, <1>3, <1>4 DEF Inv

(* A write between two pages moves no row but its own.                     *)
LEMMA WriteStep ==
  ASSUME Inv, Import
  PROVE  Inv'
<1>1. PICK m \in Md5s, k \in RankOf(text) \cup {Gone} : Write(m, k)
  BY DEF Import
<1>2. /\ touched' = touched \cup {m}
      /\ UNCHANGED <<rounding, cursor, done, shown, twice>>
      /\ \A n \in Md5s \ {m} : rows'[n] = rows[n]
  BY <1>1 DEF Write, Inv, TypeOK
<1>3. \A n \in Md5s \ {m} : AfterCursor(n)' <=> AfterCursor(n)
  BY <1>2 DEF AfterCursor
<1>4. shown \subseteq Md5s /\ twice \subseteq Md5s
  BY DEF Inv, TypeOK
<1>5. Behind' /\ Ahead' /\ StableRowsOnce'
  BY <1>2, <1>3, <1>4 DEF Inv, Behind, Ahead, StableRowsOnce
<1> QED
  BY <1>1, <1>5, WriteTypes DEF Inv

LEMMA Step == Inv /\ [Next]_vars => Inv'
<1> SUFFICES ASSUME Inv, [Next]_vars PROVE Inv'
  OBVIOUS
<1>1. CASE UNCHANGED vars
  BY <1>1 DEF vars, Inv, TypeOK, Behind, Ahead, AfterCursor, StableRowsOnce
<1> QED
  BY <1>1, PageStep, WriteStep DEF Next

LEMMA Initially == Init => Inv
<1> SUFFICES ASSUME Init PROVE Inv
  OBVIOUS
<1>1. TypeOK
  <2>1. rows \in [Md5s -> Ranks \cup {Gone}]
    BY DEF Init, RankOf, Ranks
  <2>2. text \in BOOLEAN /\ rounding \in [Ranks -> {-1, 0, 1}]
    BY Zenon DEF Init
  <2>3. limit \in 1 .. MaxLimit /\ writes \in 0 .. MaxWrites
    BY DEF Init
  <2>4. /\ cursor = NoCursor /\ done \in BOOLEAN
        /\ shown \in SUBSET Md5s /\ twice \in SUBSET shown /\ touched \in SUBSET Md5s
    BY DEF Init
  <2> QED
    BY <2>1, <2>2, <2>3, <2>4, Zenon DEF TypeOK
<1> QED
  BY <1>1 DEF Init, Inv, Behind, Ahead, AfterCursor, StableRowsOnce

-----------------------------------------------------------------------------
(* The theorems                                                            *)

(* The state keeps its type, and a cursor is the position of some row.     *)
THEOREM SearchTyped == Spec => []TypeOK
<1>1. Inv => TypeOK
  BY DEF Inv
<1> QED
  BY Initially, Step, <1>1, PTL DEF Spec

(* However the importer changes the catalogue around it, a row that does   *)
(* not change is on one page at most, unless the cursor of app/search.py   *)
(* returns its rank rounded up.                                            *)
THEOREM RowsOnce == Spec => []StableRowsOnce
<1>1. Inv => StableRowsOnce
  BY DEF Inv
<1> QED
  BY Initially, Step, <1>1, PTL DEF Spec

(* A row that matched all along has been on a page by the time nextCursor  *)
(* is null, unless the cursor returned its rank rounded down.              *)
THEOREM RowsShown == Spec => []NothingSkipped
<1>1. Inv => NothingSkipped
  BY DEF Inv, Ahead, NothingSkipped
<1> QED
  BY Initially, Step, <1>1, PTL DEF Spec
=============================================================================
