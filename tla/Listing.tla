------------------------------- MODULE Listing -------------------------------
(***************************************************************************)
(* GET /api/v1/notifications?page=&page_size=: Handler.List and            *)
(* ListNotifications, read page by page by a client while notifications    *)
(* are being submitted.  The count and the page are separate statements.   *)
(*                                                                         *)
(* The table is the sequence of the rows that match the filter, ordered by *)
(* created_at DESC; created_at is the start of the inserting transaction,  *)
(* so a row may be committed behind newer ones.  Rows are never deleted,   *)
(* and no two of them have the same created_at.                            *)
(***************************************************************************)
EXTENDS Integers, Sequences, FiniteSets, SequencesExt

CONSTANTS
  Row,              \* notifications that may be submitted
  DefaultPageSize,  \* 20 in the code
  MaxPageSize,      \* 100 in the code
  RequestedSize     \* values of page_size; 0 when absent or not a number

ASSUME ListingAssumption ==
  /\ IsFiniteSet(Row)
  /\ DefaultPageSize \in Nat \ {0}
  /\ MaxPageSize \in Nat \ {0}
  /\ DefaultPageSize <= MaxPageSize
  /\ RequestedSize \subseteq Int

VARIABLES
  rows,         \* the table, newest first
  lpc,          \* next statement of the request: "idle", "count" or "page"
  lpage,        \* page asked for, "page" in the answer
  lsize,        \* page_size after the limits of List
  ltotal,       \* COUNT(*) of the running request
  owed,         \* client: rows that existed when it asked for its first page
  seen,         \* client: rows it has been given
  received,     \* client: how many rows its answers held
  repeated,     \* client: some row was given twice
  lastTotal,    \* client: "total" of its last answer
  lastPages,    \* client: "total_pages" of its last answer
  done,         \* client: the last page was shorter than page_size
  quiet,        \* history: no row has been committed since the client started
  cut           \* history: an answer held only the first rows of its page

clientVars == <<owed, seen, received, repeated, lastTotal, lastPages, done, cut>>
listVars == <<rows, lpc, lpage, lsize, ltotal, quiet, clientVars>>

ListTypeOK ==
  /\ rows \in Seq(Row)
  /\ lpc \in {"idle", "count", "page"}
  /\ lpage \in Nat
  /\ lsize \in 0..MaxPageSize
  /\ ltotal \in Nat
  /\ owed \subseteq Row /\ seen \subseteq Row
  /\ repeated \in BOOLEAN /\ quiet \in BOOLEAN /\ done \in BOOLEAN /\ cut \in BOOLEAN
  /\ received \in Nat /\ lastTotal \in Nat /\ lastPages \in Nat

ListInit ==
  /\ rows = <<>>
  /\ lpc = "idle"
  /\ lpage = 0
  /\ lsize = 0
  /\ ltotal = 0
  /\ quiet = TRUE
  /\ owed = {} /\ seen = {}
  /\ repeated = FALSE
  /\ received = 0 /\ lastTotal = 0 /\ lastPages = 0
  /\ done = FALSE
  /\ cut = FALSE

-----------------------------------------------------------------------------
(* Faulty variant of LimitPageSize: no upper limit. *)
LimitPageSizeUncapped(size) == IF size <= 0 THEN DefaultPageSize ELSE size

(* The limits that List and, once more, ListNotifications apply. *)
LimitPageSize(size) ==
  IF size <= 0 THEN DefaultPageSize
  ELSE IF size > MaxPageSize THEN MaxPageSize ELSE size

(* Faulty variant of Offset: pages are counted from 0. *)
OffsetFromZero(page, size) == page * size

Offset(page, size) == (page - 1) * size

(* Faulty variant of TotalPages: rounded down. *)
TotalPagesDown(total, size) == IF total \div size < 1 THEN 1 ELSE total \div size

TotalPages(total, size) ==
  LET pages == (total + size - 1) \div size IN IF pages < 1 THEN 1 ELSE pages

(* ORDER BY created_at DESC LIMIT size OFFSET offset. *)
PageOf(offset, size) ==
  SubSeq(rows, offset + 1, Min({offset + size, Len(rows)}))

(* A notification is committed at any place of the order. *)
CommitRow(r) ==
  /\ r \notin Range(rows)
  /\ \E i \in 1..(Len(rows) + 1) : rows' = InsertAt(rows, i, r)
  /\ quiet' = (quiet /\ lpage = 0)
  /\ UNCHANGED <<lpc, lpage, lsize, ltotal, clientVars>>

(* The client asks for its first page, or for the next one. *)
FirstPage(size) ==
  /\ lpage = 0
  /\ lpc' = "count"
  /\ lpage' = 1
  /\ lsize' = LimitPageSize(size)
  /\ owed' = Range(rows)
  /\ UNCHANGED <<rows, ltotal, quiet, seen, received, repeated, lastTotal, lastPages, done, cut>>

NextPage ==
  /\ lpage > 0 /\ lpc = "idle" /\ ~done
  /\ lpc' = "count"
  /\ lpage' = lpage + 1
  /\ UNCHANGED <<rows, lsize, ltotal, quiet, clientVars>>

(***************************************************************************)
(* SELECT COUNT( * ) and then the page.  An error of either answers 500    *)
(* and the client asks for the same page again.  Nobody looks at           *)
(* rows.Err(), so that a cursor that breaks off in the middle answers 200  *)
(* with the rows read until then.                                          *)
(***************************************************************************)
ListCount ==
  /\ lpc = "count"
  /\ lpc' = "page"
  /\ ltotal' = Len(rows)
  /\ UNCHANGED <<rows, lpage, lsize, quiet, clientVars>>

Answer(items) ==
  /\ lpc' = "idle"
  /\ seen' = seen \cup Range(items)
  /\ received' = received + Len(items)
  /\ repeated' = (repeated \/ Range(items) \cap seen # {})
  /\ lastTotal' = ltotal
  /\ lastPages' = TotalPages(ltotal, lsize)
  /\ done' = (Len(items) < lsize)

ListPage ==
  LET page == PageOf(Offset(lpage, lsize), lsize) IN
  /\ lpc = "page"
  /\ \/ Answer(page) /\ UNCHANGED cut
     \/ /\ \E n \in 0..(Len(page) - 1) : Answer(SubSeq(page, 1, n))
        /\ cut' = TRUE
     \/ /\ lpc' = "count"
        /\ UNCHANGED <<seen, received, repeated, lastTotal, lastPages, done, cut>>
  /\ ltotal' = 0
  /\ UNCHANGED <<rows, lpage, lsize, quiet, owed>>

ListNext ==
  \/ \E r \in Row : CommitRow(r)
  \/ \E size \in RequestedSize : FirstPage(size)
  \/ NextPage
  \/ ListCount
  \/ ListPage

ListSpec == ListInit /\ [][ListNext]_listVars

-----------------------------------------------------------------------------
(***************************************************************************)
(* A client that reads pages until one is shorter than the page_size of    *)
(* the answer has been given every notification that existed when it       *)
(* started, however many are submitted meanwhile: a new row only moves the *)
(* others to later offsets.  The one thing that takes rows from it is a    *)
(* page that the database connection cut short.                            *)
(***************************************************************************)
NothingSkipped == done /\ ~cut => owed \subseteq seen

(***************************************************************************)
(* On a table that does not change, the pages are disjoint and the client  *)
(* can tell from the answers whether it has read the table: the rows it    *)
(* has counted are as many as "total" says exactly if no page was cut      *)
(* short.  Then it has all rows and "total_pages" is right: it has read    *)
(* that many pages, or one more empty one when the last page is full.      *)
(***************************************************************************)
PagesPartition ==
  done /\ quiet =>
    /\ ~repeated
    /\ cut <=> received < lastTotal
    /\ ~cut => /\ received = lastTotal /\ seen = Range(rows)
               /\ lpage \in {lastPages, lastPages + 1}
               /\ lpage = lastPages + 1 <=> Len(rows) > 0 /\ Len(rows) % lsize = 0
=============================================================================
