------------------------------ MODULE Adapters ------------------------------
(***************************************************************************)
(* The source adapters (sync/sources) and the identifiers of               *)
(* common/normalize.py: what the parse method of each collection makes of  *)
(* one line of its payload.  They keep no state; Catalogue imports what    *)
(* they return.                                                            *)
(*                                                                         *)
(* Data abstraction: titles, series names and timestamps are numbers, 0    *)
(* for a missing one, authors are a set of numbers.  Languages, years,     *)
(* publishers and file formats are left out, except where a field can make *)
(* parse raise.  An identifier is spelled as the sequence of its           *)
(* characters without separators: 0 .. 9, 10 for an X, 11 for any other.   *)
(***************************************************************************)
EXTENDS Integers, Sequences, SequencesExt, FiniteSetsExt

CONSTANTS
  Ids,                \* file md5s and record ids
  None,               \* a missing or malformed field
  Blocked,            \* AA_UPLOAD_BLOCKED_SUBCOLLECTIONS
  RequireTitleAuthor, \* AA_UPLOAD_REQUIRE_TITLE_AUTHOR
  RequireTexts,       \* AA_IA_REQUIRE_TEXTS
  RequireBooks,       \* AA_GBOOKS_REQUIRE_BOOKS
  LibbyTypes          \* AA_LIBBY_ALLOWED_TYPES

Collections == {"zlib3", "ia2", "upload", "goodreads", "gbooks", "libby"}

(* kind is the mediatype of an item (ia2), the subcollection in the aacid  *)
(* (upload), the printType (gbooks) or the media type (libby); year says   *)
(* where a Goodreads record has a publication year: in its own element, in *)
(* that of the work only (which may be empty), or in none; path is the     *)
(* title an upload's file path suggests.                                   *)
IsRaw(w) ==
  /\ w.coll \in Collections
  /\ w.id \in Ids \cup {None} /\ w.files \in Seq(Ids \cup {None})
  /\ w.title \in Nat /\ w.path \in Nat /\ w.series \in Nat /\ w.ts \in Nat
  /\ w.authors \subseteq Nat /\ w.isbns \in Seq(Seq(0 .. 11))
  /\ w.removed \in BOOLEAN /\ w.oddSize \in BOOLEAN
  /\ w.year \in {"own", "work", "none"}

-----------------------------------------------------------------------------
(* ISBNs                                                                   *)

X == 10

Sum10(s) == MapThenSumSet(LAMBDA k : (11 - k) * s[k], DOMAIN s)

(* The twelve digits before the check digit, weighted.                     *)
Sum12(s) ==
  s[1] + s[3] + s[5] + s[7] + s[9] + s[11] + 3 * (s[2] + s[4] + s[6] + s[8] + s[10] + s[12])

(* An X is allowed anywhere once the last character is one.                *)
Valid10(s) ==
  /\ Len(s) = 10
  /\ \A k \in DOMAIN s : s[k] \in 0 .. 9 \/ (s[k] = X /\ s[10] = X)
  /\ Sum10(s) % 11 = 0

Valid13(s) ==
  /\ Len(s) = 13
  /\ \A k \in DOMAIN s : s[k] \in 0 .. 9
  /\ (Sum12(s) + s[13]) % 10 = 0

Core(s) == <<9, 7, 8, s[1], s[2], s[3], s[4], s[5], s[6], s[7], s[8], s[9]>>

(* A check digit of 10 where it should be 0.                               *)
Check_NoWrap(sum) == 10 - (sum % 10)

Check(sum) == (10 - (sum % 10)) % 10

(* _isbn10_to_13                                                           *)
Isbn10To13(s) == Append(Core(s), Check(Sum12(Core(s))))

(* int("X") in _isbn10_to_13                                               *)
IsbnRaises(s) == Valid10(s) /\ \E k \in 1 .. 9 : s[k] = X

(* normalize_isbn13                                                        *)
Isbn13(s) ==
  IF Valid13(s) THEN s
  ELSE IF Valid10(s) THEN Isbn10To13(s)
  ELSE <<>>

(* The loop "if x and x not in found: found.append(x)", where the members  *)
(* of skipped are what counts as no x.                                     *)
Distinct(s, skipped) ==
  LET found[n \in 0 .. Len(s)] ==
        IF n = 0 THEN <<>>
        ELSE LET t == found[n - 1] IN
             IF s[n] \in skipped \cup ToSet(t) THEN t ELSE Append(t, s[n])
  IN found[Len(s)]

(* normalize_isbn_list.  Its second result, the ISBN-10s, is always empty: *)
(* every valid one has become an ISBN-13.                                  *)
IsbnList(ss) == Distinct([k \in 1 .. Len(ss) |-> Isbn13(ss[k])], {<<>>})

-----------------------------------------------------------------------------
(* Adapters: each returns the records that are not discarded.  The others  *)
(* are counted by the importer and nothing else.                           *)

Bare(w, b) ==
  [book |-> b, title |-> w.title, authors |-> w.authors, isbn |-> <<>>,
   series |-> 0, ts |-> w.ts, deleted |-> FALSE]

(* synthetic_md5 (a hash; no two of them are equal).                       *)
Synthetic(w) == <<w.coll, w.id>>

Zlib3(w) ==
  <<[Bare(w, w.id) EXCEPT !.isbn = IsbnList(w.isbns), !.series = w.series,
                          !.deleted = w.removed]>>

NotTexts(w) == RequireTexts /\ w.kind \notin {None, "texts"}

Md5s(w) == Distinct(w.files, {None})

FileRecord(w, b) ==
  [Bare(w, b) EXCEPT !.isbn = IsbnList(w.isbns), !.series = w.series]

(* A media filter that drops the first file instead of the item.           *)
Ia2_FirstFile(w) ==
  LET kept == IF NotTexts(w) THEN Tail(Md5s(w)) ELSE Md5s(w) IN
  [k \in DOMAIN kept |-> FileRecord(w, kept[k])]

(* One record for each distinct md5 among the files of an item.            *)
Ia2(w) ==
  IF NotTexts(w) THEN <<>> ELSE [k \in DOMAIN Md5s(w) |-> FileRecord(w, Md5s(w)[k])]

(* The filters come before the removal: a removed upload without title or  *)
(* author leaves no tombstone.                                             *)
Unwanted(w, blocked) ==
  w.kind \in blocked \/ (RequireTitleAuthor /\ (w.title = 0 \/ w.authors = {}))

Upload(w, blocked) ==
  IF Unwanted(w, blocked) THEN <<>>
  ELSE <<[Bare(w, w.id) EXCEPT !.title = IF @ = 0 THEN w.path ELSE @,
                               !.deleted = w.removed]>>

Goodreads(w) == <<[Bare(w, Synthetic(w)) EXCEPT !.isbn = IsbnList(w.isbns)]>>

NotABook(w) == RequireBooks /\ w.kind \notin {None, "BOOK"}

Gbooks(w) ==
  IF NotABook(w) THEN <<>>
  ELSE <<[Bare(w, Synthetic(w)) EXCEPT !.isbn = IsbnList(w.isbns)]>>

Libby(w) ==
  IF w.kind \notin LibbyTypes \cup {None} THEN <<>> ELSE <<Bare(w, Synthetic(w))>>

(* get_adapter(coll).parse.  Without an md5 or record id there is nothing  *)
(* to import.                                                              *)
Nameless(w) == w.coll # "ia2" /\ w.id = None

ParseNamed(w, blocked) ==
  CASE w.coll = "ia2" -> Ia2(w)
    [] w.coll = "zlib3" -> Zlib3(w)
    [] w.coll = "upload" -> Upload(w, blocked)
    [] w.coll = "goodreads" -> Goodreads(w)
    [] w.coll = "gbooks" -> Gbooks(w)
    [] w.coll = "libby" -> Libby(w)

Parse(w, blocked) == IF Nameless(w) THEN <<>> ELSE ParseNamed(w, blocked)

(* The adapter gets as far as the identifiers of the line.                 *)
ReadsIsbns(w) ==
  \/ w.coll \in {"zlib3", "goodreads"}
  \/ w.coll = "ia2" /\ ~NotTexts(w)
  \/ w.coll = "gbooks" /\ ~NotABook(w)

(* parse raises: on an X inside an ISBN-10; on the year of a Goodreads     *)
(* work, which findtext returns as text and _text takes for an element; on *)
(* the file size of an upload that is not a number (zlib3 and ia2 ignore   *)
(* it).                                                                    *)
ParseRaises(w, blocked) ==
  /\ ~Nameless(w)
  /\ \/ ReadsIsbns(w) /\ \E k \in DOMAIN w.isbns : IsbnRaises(w.isbns[k])
     \/ w.coll = "goodreads" /\ w.year = "work"
     \/ w.coll = "upload" /\ ~Unwanted(w, blocked) /\ w.oddSize
=============================================================================
