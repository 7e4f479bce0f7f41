---------------------------- MODULE MCCatalogue ----------------------------
(***************************************************************************)
(* Instances of Catalogue: records chosen so that every comparison of      *)
(* merge_records comes out both ways, payloads that rewrite each other's   *)
(* books, and payloads with broken and missing lines.                      *)
(***************************************************************************)
EXTENDS Catalogue

CONSTANTS b1, b2, b3

(* A line without any of the fields its collection reads.                  *)
Blank(c, i) ==
  [coll |-> c, id |-> i, files |-> <<>>, kind |-> None, title |-> 0, path |-> 0,
   authors |-> {}, isbns |-> <<>>, series |-> 0, ts |-> 1, removed |-> FALSE,
   oddSize |-> FALSE, year |-> "own"]

(* ISBN-13s, and the same numbers as ISBN-10s; one with X in the middle.   *)
I1 == <<9, 7, 8, 3, 0, 6, 4, 0, 0, 0, 0, 7, 0>>
I1As10 == <<3, 0, 6, 4, 0, 0, 0, 0, 7, 1>>
I2 == <<9, 7, 8, 0, 3, 0, 6, 4, 0, 6, 1, 5, 7>>
I2As10 == <<0, 3, 0, 6, 4, 0, 6, 1, 5, 2>>
Wrong10 == <<0, 3, 0, 6, 4, 0, 6, 1, 5, 3>>
AllX == [k \in 1 .. 10 |-> X]

Zl(b, t, a, i, s, ts, d) ==
  [Blank("zlib3", b) EXCEPT !.title = t, !.authors = a, !.isbns = i, !.series = s,
                            !.ts = ts, !.removed = d]

Poor == Zl(b1, 1, {}, <<Wrong10>>, 0, 1, FALSE)
Rival == Zl(b1, 2, {}, <<>>, 0, 2, FALSE)
Untitled == Zl(b1, 0, {1}, <<I1As10, I1>>, 1, 2, FALSE)
Removed == Zl(b1, 1, {}, <<I2>>, 2, 2, TRUE)
Undated == Zl(b1, 3, {}, <<>>, 0, 0, FALSE)
Other == Zl(b2, 1, {2}, <<>>, 0, 1, FALSE)
NoMd5 == Zl(None, 1, {}, <<AllX>>, 0, 1, FALSE)
Raising == Zl(b2, 1, {}, <<AllX>>, 0, 1, FALSE)

Item == [Blank("ia2", None) EXCEPT !.files = <<b1, None, b2, b1>>, !.title = 1,
                                   !.isbns = <<I2As10, I1As10>>, !.kind = "texts"]
Audio == [Item EXCEPT !.files = <<b2, b3>>, !.kind = "audio", !.isbns = <<AllX>>]

File == [Blank("upload", b1) EXCEPT !.title = 3, !.authors = {3}, !.kind = "open"]
Unnamed == [File EXCEPT !.id = b3, !.title = 0, !.path = 1, !.oddSize = TRUE]
Odd == [File EXCEPT !.id = b2, !.oddSize = TRUE]
Shut == [File EXCEPT !.id = b3, !.kind = "closed", !.removed = TRUE]

Read == [Blank("goodreads", b1) EXCEPT !.title = 1, !.isbns = <<I2, I2As10>>]
WorkYear == [Read EXCEPT !.id = b2, !.year = "work"]
Volume == [Blank("gbooks", b1) EXCEPT !.title = 1, !.isbns = <<I1As10>>, !.kind = "BOOK"]
Magazine == [Volume EXCEPT !.id = b2, !.kind = "MAGAZINE"]
Loan == [Blank("libby", b1) EXCEPT !.title = 1, !.kind = "ebook"]
Film == [Loan EXCEPT !.id = b2, !.kind = "video"]

Line(w) == [kind |-> "sound", raw |-> w]
Broken == [kind |-> "broken"]
Hole == [kind |-> "hole"]

Singles == {Line(w) : w \in {Poor, Rival, Untitled, Removed}}
OtherSources ==
  {<<Line(Audio), Line(Item)>>,
   <<Line(Unnamed), Line(File), Line(Odd), Line(Shut)>>,
   <<Line(Read), Line(WorkYear)>>,
   <<Line(Magazine), Line(Volume)>>,
   <<Line(Loan), Line(Film)>>}
SomePayloads ==
  {<<l, m>> : l, m \in Singles}
    \cup {<<Line(Removed), Line(NoMd5), Line(Poor), Line(Other), Line(Untitled)>>,
          <<Line(Poor), Line(Undated)>>,
          <<Line(Poor), Hole, Line(Removed)>>,
          <<Line(Other), Broken, Line(Rival), Line(Raising), Broken>>,
          <<Broken, Broken, Line(Rival)>>,
          <<>>}
    \cup OtherSources

IsbnsOf(t) == CASE t = 0 -> <<>> [] t = 1 -> <<I1>> [] t = 2 -> <<I2, I1>>

AllSamples ==
  {[book |-> b1, title |-> t, authors |-> a, isbn |-> IsbnsOf(t), series |-> s,
    ts |-> ts, deleted |-> d] :
     t \in 0 .. 2, a \in {{}, {1}}, s \in 0 .. 1, ts \in 0 .. 2, d \in BOOLEAN}
HalfTolerated(f, n) == 2 * f <= n
=============================================================================
