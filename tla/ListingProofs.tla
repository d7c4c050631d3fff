---------------------------- MODULE ListingProofs ----------------------------
(***************************************************************************)
(* Reading the list page by page: no row that existed at the start is      *)
(* skipped although rows are committed meanwhile, and on a table at rest   *)
(* the pages partition it, unless a page is cut short, which shows.        *)
(***************************************************************************)
EXTENDS Listing, SequenceTheorems, TLAPS

(* The client has been given the rows up to this position. *)
Given == IF lpc = "idle" THEN lpage * lsize ELSE (lpage - 1) * lsize

(* No notification has two rows. *)
TableInv == \A i, j \in DOMAIN rows : rows[i] = rows[j] => i = j

(* The client starts once, and a request is under way or over. *)
ClientInv ==
  /\ lpage = 0 => /\ lpc = "idle" /\ seen = {} /\ ~repeated /\ ~done /\ quiet /\ owed = {}
                  /\ received = 0
  /\ cut => done
  /\ lpage > 0 => lsize > 0
  /\ done => lpc = "idle"
  /\ owed \subseteq Range(rows)

(* Of the rows it started with, those in the range it has read were given. *)
SeenInv ==
  ~cut => \A i \in DOMAIN rows : rows[i] \in owed /\ i <= Given => rows[i] \in seen

(* While the table is at rest. *)
QuietInv ==
  quiet /\ ~cut =>
    /\ ~repeated
    /\ seen = {rows[i] : i \in {k \in DOMAIN rows : k <= Given}}
    /\ lpc = "page" => ltotal = Len(rows)
    /\ ~done => Given <= Len(rows) /\ received = Given
    /\ done => /\ lpage > 0 /\ (lpage - 1) * lsize <= Len(rows) /\ Len(rows) < lpage * lsize
               /\ lastPages = TotalPages(Len(rows), lsize)
               /\ received = Len(rows) /\ lastTotal = Len(rows)

(* A page that was cut short shows in the total of its answer. *)
CutInv == quiet /\ cut => ~repeated /\ received < lastTotal

ListInv ==
  /\ ListTypeOK
  /\ TableInv
  /\ ClientInv
  /\ SeenInv
  /\ QuietInv
  /\ CutInv
  /\ NothingSkipped

-----------------------------------------------------------------------------
(* A part of a sequence. *)
LEMMA PartOf ==
  ASSUME NEW s \in Seq(Row), NEW m \in Int, NEW n \in Int, 1 <= m, n <= Len(s)
  PROVE  /\ SubSeq(s, m, n) \in Seq(Row)
         /\ Len(SubSeq(s, m, n)) = IF m <= n THEN n - m + 1 ELSE 0
         /\ \A i \in 1..(n - m + 1) : SubSeq(s, m, n)[i] = s[m + i - 1]
<1>1. \A i \in m..n : s[i] \in Row
  <2>1. \A i \in m..n : i \in 1..Len(s)
    OBVIOUS
  <2> QED
    BY <2>1, ElementOfSeq
<1> QED
  BY <1>1, SubSeqProperties

(* The table with row r committed at position i. *)
RowAfter(s, i, r, k) == IF k < i THEN s[k] ELSE IF k = i THEN r ELSE s[k - 1]

LEMMA Inserted ==
  ASSUME NEW s \in Seq(Row), NEW r \in Row, NEW i \in 1..(Len(s) + 1)
  PROVE  /\ InsertAt(s, i, r) \in Seq(Row) /\ Len(InsertAt(s, i, r)) = Len(s) + 1
         /\ \A k \in 1..(Len(s) + 1) : InsertAt(s, i, r)[k] = RowAfter(s, i, r, k)
<1>1. Len(s) \in Nat /\ i \in Int /\ 1 <= i /\ i <= Len(s) + 1
  OBVIOUS
<1>2. PICK n \in Int : n = i - 1 /\ n <= Len(s)
  BY <1>1
<1>3. PICK a \in Seq(Row) : a = SubSeq(s, 1, n)
  <2>1. SubSeq(s, 1, n) \in Seq(Row)
    BY <1>1, <1>2, PartOf
  <2> QED
    BY <2>1
<1>4. Len(a) = n
  BY <1>1, <1>2, <1>3, PartOf
<1>5. ASSUME NEW k \in 1..n
      PROVE  a[k] = s[k]
  <2>1. k \in 1..(n - 1 + 1) /\ 1 + k - 1 = k
    BY <1>2
  <2>2. a[k] = s[1 + k - 1]
    BY <1>1, <1>2, <1>3, <2>1, PartOf
  <2> QED
    BY <2>1, <2>2
<1>6. PICK b \in Seq(Row) : b = SubSeq(s, i, Len(s))
  <2>1. SubSeq(s, i, Len(s)) \in Seq(Row)
    BY <1>1, PartOf
  <2> QED
    BY <2>1
<1>7. Len(b) = Len(s) - i + 1
  BY <1>1, <1>6, PartOf
<1>8. \A k \in 1..(Len(s) - i + 1) : b[k] = s[i + k - 1]
  BY <1>1, <1>6, PartOf
<1>9. InsertAt(s, i, r) = (a \o <<r>>) \o b
  BY <1>2, <1>3, <1>6 DEF InsertAt
<1>10. <<r>> \in Seq(Row) /\ Len(<<r>>) = 1 /\ <<r>>[1] = r
  OBVIOUS
<1>11. PICK c \in Seq(Row) : c = a \o <<r>>
  BY <1>10, ConcatProperties
<1>12. /\ Len(c) = n + 1
       /\ \A k \in 1..(n + 1) : c[k] = IF k <= n THEN a[k] ELSE <<r>>[k - n]
  BY <1>4, <1>10, <1>11, ConcatProperties
<1>13. PICK t \in Seq(Row) : t = c \o b
  BY ConcatProperties
<1>14. Len(t) = Len(c) + Len(b)
  BY <1>13, ConcatProperties
<1>15. \A k \in 1..(Len(c) + Len(b)) : t[k] = IF k <= Len(c) THEN c[k] ELSE b[k - Len(c)]
  BY <1>13, ConcatProperties
<1>16. Len(c) = i /\ Len(c) + Len(b) = Len(s) + 1
  BY <1>1, <1>2, <1>7, <1>12
<1>17. \A k \in 1..(Len(s) + 1) : t[k] = IF k <= i THEN c[k] ELSE b[k - i]
  BY <1>15, <1>16
<1>18. ASSUME NEW k \in 1..(Len(s) + 1)
       PROVE  t[k] = RowAfter(s, i, r, k)
  <2> USE DEF RowAfter
  <2>1. CASE k < i
    <3>1. k \in 1..n /\ k \in 1..(n + 1) /\ k <= n
      BY <1>1, <1>2, <2>1
    <3>2. c[k] = a[k]
      BY <1>12, <3>1
    <3> QED
      BY <1>1, <1>5, <1>17, <2>1, <3>1, <3>2
  <2>2. CASE k = i
    <3>1. k \in 1..(n + 1) /\ ~(k <= n) /\ k - n = 1
      BY <1>1, <1>2, <2>2
    <3>2. c[k] = <<r>>[1]
      BY <1>12, <3>1
    <3>3. t[k] = c[k]
      <4>1. k <= i
        BY <1>1, <2>2
      <4> QED
        BY <1>17, <4>1
    <3> QED
      BY <1>1, <1>10, <2>2, <3>2, <3>3
  <2>3. CASE i < k
    <3>1. PICK q \in Int : q = k - i
      BY <1>1
    <3>2. q \in 1..(Len(s) - i + 1) /\ i + q - 1 = k - 1 /\ ~(k <= i)
      BY <1>1, <2>3, <3>1
    <3>3. t[k] = b[q]
      BY <1>17, <3>1, <3>2
    <3>4. b[q] = s[i + q - 1]
      BY <1>8, <3>2
    <3>5. ~(k < i) /\ k # i
      BY <1>1, <2>3
    <3>6. RowAfter(s, i, r, k) = s[k - 1]
      BY <3>5
    <3> QED
      BY <3>2, <3>3, <3>4, <3>6
  <2> QED
    BY <1>1, <2>1, <2>2, <2>3
<1> QED
  BY <1>9, <1>11, <1>13, <1>14, <1>16, <1>18

(* The smaller of two numbers. *)
LEMMA MinOfTwo ==
  ASSUME NEW a \in Int, NEW b \in Int
  PROVE  (a <= b => Min({a, b}) = a) /\ (b < a => Min({a, b}) = b)
BY DEF Min

(* LIMIT and OFFSET. *)
LEMMA PageIs ==
  ASSUME ListTypeOK, NEW o \in Nat, NEW size \in Nat \ {0}
  PROVE  /\ Range(PageOf(o, size)) = {rows[i] : i \in {k \in DOMAIN rows : o < k /\ k <= o + size}}
         /\ Len(PageOf(o, size)) < size <=> Len(rows) < o + size
         /\ PageOf(o, size) \in Seq(Row) /\ Len(PageOf(o, size)) <= size
         /\ o <= Len(rows) => o + Len(PageOf(o, size)) <= Len(rows)
         /\ o <= Len(rows) /\ Len(rows) < o + size => o + Len(PageOf(o, size)) = Len(rows)
<1>1. rows \in Seq(Row)
  BY DEF ListTypeOK
<1>2. PICK len \in Nat : len = Len(rows)
  BY <1>1
<1>3. DOMAIN rows = 1..len
  BY <1>1, <1>2, LenProperties
<1>4. PICK top \in Nat : top = o + size
  OBVIOUS
<1>5. PICK last \in Nat : (top <= len => last = top) /\ (len < top => last = len)
  OBVIOUS
<1>6. PICK first \in Nat : first = o + 1
  OBVIOUS
<1>7. Min({top, len}) = last
  BY <1>5, MinOfTwo
<1>8. PICK items : items = SubSeq(rows, first, last)
  OBVIOUS
<1>9. PageOf(o, size) = items
  BY <1>2, <1>4, <1>6, <1>7, <1>8 DEF PageOf
<1>10. last <= len /\ 1 <= first
  BY <1>5, <1>6
<1>11. items \in Seq(Row)
  BY <1>1, <1>2, <1>8, <1>10, PartOf
<1>12. PICK n \in Nat : n = Len(items)
  BY <1>11
<1>13. (first <= last => n = last - first + 1) /\ (last < first => n = 0)
  BY <1>1, <1>2, <1>8, <1>10, <1>12, PartOf
<1>14. \A i \in 1..(last - first + 1) : items[i] = rows[first + i - 1]
  BY <1>1, <1>2, <1>8, <1>10, PartOf
<1>15. DOMAIN items = 1..n
  BY <1>11, <1>12, LenProperties
<1>16. n < size <=> len < o + size
  BY <1>4, <1>5, <1>6, <1>13
<1>17. ASSUME NEW i \in DOMAIN items
       PROVE  items[i] \in {rows[j] : j \in {k \in DOMAIN rows : o < k /\ k <= o + size}}
  <2>1. i \in 1..(last - first + 1)
    BY <1>13, <1>15
  <2>2. PICK j \in Int : j = first + i - 1
    BY <2>1
  <2>3. j \in DOMAIN rows /\ o < j /\ j <= o + size
    BY <1>3, <1>4, <1>5, <1>6, <2>1, <2>2
  <2>4. items[i] = rows[j]
    BY <1>14, <2>1, <2>2
  <2> QED
    BY <2>3, <2>4
<1>18. ASSUME NEW k \in DOMAIN rows, o < k, k <= o + size
       PROVE  rows[k] \in Range(items)
  <2>1. PICK i \in Int : i = k - o
    BY <1>3
  <2>2. i \in 1..(last - first + 1) /\ first + i - 1 = k
    BY <1>3, <1>4, <1>5, <1>6, <1>18, <2>1
  <2>3. items[i] = rows[k]
    BY <1>14, <2>2
  <2>4. i \in DOMAIN items
    BY <1>13, <1>15, <2>2
  <2> QED
    BY <2>3, <2>4 DEF Range
<1>19. Range(items) = {rows[i] : i \in {k \in DOMAIN rows : o < k /\ k <= o + size}}
  BY <1>17, <1>18 DEF Range
<1>20. /\ n <= size /\ (o <= len => o + n <= len)
       /\ o <= len /\ len < o + size => o + n = len
  BY <1>4, <1>5, <1>6, <1>13
<1> QED
  BY <1>2, <1>9, <1>11, <1>12, <1>16, <1>19, <1>20

-----------------------------------------------------------------------------
(* Page numbers times the page size. *)
LEMMA Products ==
  ASSUME NEW p \in Nat, NEW z \in Nat
  PROVE  /\ p * z \in Nat
         /\ (p + 1 - 1) * z = p * z
         /\ p > 0 => (p - 1) * z \in Nat /\ (p - 1) * z + z = p * z
         /\ p > 1 /\ z > 0 => (p - 1) * z > 0
         /\ (1 - 1) * z = 0 /\ 0 * z = 0
OBVIOUS

(* A quotient is known from the multiples around the dividend. *)
LEMMA Quotient ==
  ASSUME NEW a \in Nat, NEW z \in Nat \ {0}, NEW q \in Nat, q * z <= a, a < q * z + z
  PROVE  a \div z = q /\ a % z = a - q * z
<1>1. PICK d \in Int : d = a \div z
  OBVIOUS
<1>2. PICK m \in Int : m = a % z
  OBVIOUS
<1>3. a = d * z + m /\ 0 <= m /\ m < z
  BY <1>1, <1>2
<1>4. ASSUME NEW x \in Int, NEW y \in Int, x < y
      PROVE  x * z + z <= y * z
  <2>1. PICK e \in Nat : y = x + 1 + e
    <3>1. y - x - 1 \in Nat /\ y = x + 1 + (y - x - 1)
      BY <1>4
    <3> QED
      BY <3>1
  <2>2. y * z = x * z + z + e * z
    BY <2>1
  <2>3. e * z \in Nat /\ x * z \in Int
    OBVIOUS
  <2> QED
    BY <2>2, <2>3
<1>5. q * z \in Int /\ d * z \in Int
  OBVIOUS
<1>6. ~(d < q)
  BY <1>3, <1>4, <1>5
<1>7. ~(q < d)
  BY <1>3, <1>4, <1>5
<1>8. d = q
  BY <1>6, <1>7
<1> QED
  BY <1>1, <1>2, <1>3, <1>5, <1>8

(* The page size that is applied is within the limits. *)
LEMMA LimitedSize ==
  ASSUME NEW size \in Int
  PROVE  LimitPageSize(size) \in 1..MaxPageSize
BY ListingAssumption DEF LimitPageSize

LEMMA TotalPagesIsNatural ==
  ASSUME NEW total \in Nat, NEW z \in Nat \ {0}
  PROVE  TotalPages(total, z) \in Nat
<1>1. total + z - 1 \in Nat
  OBVIOUS
<1>2. (total + z - 1) \div z \in Int
  BY <1>1
<1> QED
  BY <1>2 DEF TotalPages

LEMMA GivenIsNatural ==
  ASSUME ListTypeOK, ClientInv
  PROVE  Given \in Nat
<1>1. lpage \in Nat /\ lsize \in Nat
  BY DEF ListTypeOK
<1>2. lpc # "idle" => lpage > 0
  BY <1>1 DEF ClientInv
<1> QED
  BY <1>1, <1>2, Products DEF Given

-----------------------------------------------------------------------------
(***************************************************************************)
(* One lemma per action.  A row committed while the client reads moves     *)
(* others only to later positions, so that none slips into the part that   *)
(* was read without having been given.                                     *)
(***************************************************************************)
LEMMA CommitRowKeeps ==
  ASSUME ListInv, NEW r \in Row, CommitRow(r)
  PROVE  ListInv'
<1>1. rows \in Seq(Row) /\ ListTypeOK
  BY DEF ListInv, ListTypeOK
<1>2. PICK len \in Nat : len = Len(rows)
  BY <1>1
<1>3. DOMAIN rows = 1..len
  BY <1>1, <1>2, LenProperties
<1>4. PICK i \in 1..(len + 1) : rows' = InsertAt(rows, i, r)
  BY <1>2 DEF CommitRow
<1>5. rows' \in Seq(Row) /\ Len(rows') = len + 1
  BY <1>1, <1>2, <1>4, Inserted
<1>6. DOMAIN rows' = 1..(len + 1)
  BY <1>5, LenProperties
<1>7. \A k \in 1..(len + 1) : rows'[k] = IF k < i THEN rows[k] ELSE IF k = i THEN r ELSE rows[k - 1]
  <2>1. i \in 1..(Len(rows) + 1)
    BY <1>2
  <2>2. \A k \in 1..(Len(rows) + 1) : InsertAt(rows, i, r)[k] = RowAfter(rows, i, r, k)
    BY <1>1, <2>1, Inserted
  <2> QED
    BY <1>2, <1>4, <2>2, Zenon DEF RowAfter
<1>8. UNCHANGED <<lpc, lpage, lsize, ltotal, owed, seen, received, repeated, lastTotal, lastPages, done, cut>>
  BY DEF CommitRow, clientVars
<1>9. ASSUME NEW k \in DOMAIN rows', k # i
      PROVE  \E j \in DOMAIN rows : /\ rows'[k] = rows[j] /\ j <= k
                                    /\ k < i => j = k
                                    /\ k > i => j = k - 1
  <2>1. CASE k < i
    <3>1. k \in DOMAIN rows /\ k <= k
      BY <1>3, <1>4, <1>6, <2>1
    <3>2. rows'[k] = rows[k]
      BY <1>6, <1>7, <2>1
    <3> QED
      BY <1>4, <1>6, <2>1, <3>1, <3>2
  <2>2. CASE k > i
    <3>1. PICK j \in Int : j = k - 1
      BY <1>6
    <3>2. j \in DOMAIN rows /\ j <= k
      BY <1>3, <1>4, <1>6, <2>2, <3>1
    <3>3. ~(k < i) /\ k # i
      BY <1>4, <1>6, <2>2
    <3>4. rows'[k] = rows[j]
      BY <1>6, <1>7, <3>1, <3>3
    <3> QED
      BY <3>1, <3>2, <3>3, <3>4
  <2> QED
    BY <1>4, <1>6, <1>9, <2>1, <2>2
<1>10. ASSUME NEW j \in DOMAIN rows
       PROVE  rows[j] \in Range(rows')
  <2>1. CASE j < i
    <3>1. j \in DOMAIN rows' /\ rows'[j] = rows[j]
      BY <1>3, <1>6, <1>7, <2>1
    <3> QED
      BY <3>1 DEF Range
  <2>2. CASE i <= j
    <3>1. PICK k \in Int : k = j + 1
      BY <1>3
    <3>2. k \in 1..(len + 1) /\ ~(k < i) /\ k # i /\ k - 1 = j
      BY <1>3, <1>4, <2>2, <3>1
    <3>3. rows'[k] = rows[j]
      BY <1>7, <3>2
    <3> QED
      BY <1>6, <3>2, <3>3 DEF Range
  <2> QED
    BY <1>3, <1>4, <2>1, <2>2
<1>11. rows'[i] = r /\ r \notin Range(rows)
  <2>1. ~(i < i)
    BY <1>4
  <2> QED
    BY <1>4, <1>7, <2>1 DEF CommitRow
<1>12. \A j \in DOMAIN rows : rows[j] # r
  BY <1>11 DEF Range
<1>13. quiet' = (quiet /\ lpage = 0)
  BY DEF CommitRow
<1>14. ListTypeOK'
  BY <1>1, <1>5, <1>8, <1>13 DEF ListTypeOK
<1>15. TableInv'
  <2> SUFFICES ASSUME NEW k \in DOMAIN rows', NEW m \in DOMAIN rows', rows'[k] = rows'[m]
               PROVE  k = m
    BY DEF TableInv
  <2>1. k = i \/ m = i => k = m
    BY <1>9, <1>11, <1>12
  <2>2. CASE k # i /\ m # i
    <3>1. PICK j \in DOMAIN rows : rows'[k] = rows[j] /\ (k < i => j = k) /\ (k > i => j = k - 1)
      BY <1>9, <2>2
    <3>2. PICK h \in DOMAIN rows : rows'[m] = rows[h] /\ (m < i => h = m) /\ (m > i => h = m - 1)
      BY <1>9, <2>2
    <3>3. j = h
      BY <3>1, <3>2 DEF ListInv, TableInv
    <3> QED
      BY <1>3, <1>4, <1>6, <2>2, <3>1, <3>2, <3>3
  <2> QED
    BY <2>1, <2>2
<1>16. ClientInv'
  <2>1. owed' \subseteq Range(rows')
    BY <1>8, <1>10 DEF ListInv, ClientInv, Range
  <2>2. lpage = 0 => quiet'
    BY <1>13 DEF ListInv, ClientInv
  <2> QED
    BY <1>8, <2>1, <2>2 DEF ListInv, ClientInv
<1>17. Given' = Given /\ Given \in Nat
  BY <1>1, <1>8, GivenIsNatural DEF Given, ListInv
<1>18. SeenInv'
  <2> SUFFICES ASSUME ~cut, NEW k \in DOMAIN rows', rows'[k] \in owed, k <= Given
               PROVE  rows'[k] \in seen
    BY <1>8, <1>17 DEF SeenInv
  <2>1. k # i
    BY <1>11 DEF ListInv, ClientInv
  <2>2. PICK j \in DOMAIN rows : rows'[k] = rows[j] /\ j <= k
    BY <1>9, <2>1
  <2>3. j <= Given
    BY <1>3, <1>6, <1>17, <2>2
  <2> QED
    BY <2>2, <2>3 DEF ListInv, SeenInv
<1>19. QuietInv'
  <2> SUFFICES ASSUME quiet'
               PROVE  QuietInv'
    BY DEF QuietInv
  <2>1. lpage = 0 /\ lpc = "idle" /\ seen = {} /\ ~repeated /\ ~done /\ received = 0
    BY <1>13 DEF ListInv, ClientInv
  <2>2. Given = 0
    BY <1>1, <2>1, Products DEF Given, ListTypeOK
  <2>3. \A k \in DOMAIN rows' : ~(k <= Given')
    BY <1>6, <1>17, <2>2
  <2>4. seen' = {rows'[k] : k \in {j \in DOMAIN rows' : j <= Given'}}
    BY <1>8, <2>1, <2>3
  <2>5. Given' <= Len(rows')
    BY <1>5, <1>17, <2>2
  <2> QED
    BY <1>8, <1>17, <2>1, <2>2, <2>4, <2>5 DEF QuietInv
<1>20. NothingSkipped' /\ CutInv'
  BY <1>8, <1>13 DEF ListInv, NothingSkipped, CutInv
<1> QED
  BY <1>14, <1>15, <1>16, <1>18, <1>19, <1>20 DEF ListInv

LEMMA FirstPageKeeps ==
  ASSUME ListInv, NEW size \in RequestedSize, FirstPage(size)
  PROVE  ListInv'
<1>1. rows \in Seq(Row) /\ ListTypeOK
  BY DEF ListInv, ListTypeOK
<1>2. Len(rows) \in Nat /\ DOMAIN rows = 1..Len(rows)
  BY <1>1, LenProperties
<1>3. size \in Int
  BY ListingAssumption
<1>4. lsize' \in 1..MaxPageSize
  BY <1>3, LimitedSize DEF FirstPage
<1>5. MaxPageSize \in Nat
  BY ListingAssumption
<1>6. lsize' \in 0..MaxPageSize /\ lsize' \in Nat /\ lsize' > 0
  BY <1>4, <1>5
<1>7. /\ lpage = 0 /\ lpc = "idle" /\ seen = {} /\ ~repeated /\ ~done /\ quiet
      /\ received = 0 /\ ~cut
  BY DEF FirstPage, ListInv, ClientInv
<1>8. /\ lpc' = "count" /\ lpage' = 1 /\ owed' = Range(rows)
      /\ UNCHANGED <<rows, ltotal, quiet, seen, received, repeated, lastTotal, lastPages, done, cut>>
  BY DEF FirstPage
<1>9. owed' \subseteq Row
  BY <1>1, <1>2, <1>8, ElementOfSeq DEF Range
<1>10. ListTypeOK'
  BY <1>1, <1>6, <1>8, <1>9 DEF ListTypeOK
<1>11. TableInv'
  BY <1>8 DEF ListInv, TableInv
<1>12. ClientInv'
  BY <1>6, <1>7, <1>8 DEF ClientInv
<1>13. Given' = 0
  BY <1>6, <1>8, Products DEF Given
<1>14. \A k \in DOMAIN rows' : ~(k <= Given')
  BY <1>2, <1>8, <1>13
<1>15. SeenInv'
  BY <1>14 DEF SeenInv
<1>16. QuietInv'
  <2>1. seen' = {rows'[k] : k \in {j \in DOMAIN rows' : j <= Given'}}
    BY <1>7, <1>8, <1>14
  <2>2. Given' <= Len(rows')
    BY <1>2, <1>8, <1>13
  <2> QED
    BY <1>7, <1>8, <1>13, <2>1, <2>2 DEF QuietInv
<1>17. NothingSkipped' /\ CutInv'
  BY <1>7, <1>8 DEF NothingSkipped, CutInv
<1> QED
  BY <1>10, <1>11, <1>12, <1>15, <1>16, <1>17 DEF ListInv

(***************************************************************************)
(* Asking for the next page, counting and failing give the client nothing: *)
(* the part of the table it has read stays where it was.                   *)
(***************************************************************************)
LEMMA NothingGiven ==
  ASSUME ListInv, ListTypeOK', ClientInv', Given' = Given,
         UNCHANGED <<rows, quiet, owed, seen, received, repeated, lastTotal, lastPages, done, cut>>,
         ~done, lpc' = "page" => ltotal' = Len(rows)
  PROVE  ListInv'
<1>1. TableInv'
  BY DEF ListInv, TableInv
<1>2. SeenInv'
  BY DEF ListInv, SeenInv
<1>3. QuietInv'
  BY DEF ListInv, QuietInv
<1>4. NothingSkipped' /\ CutInv'
  BY DEF ListInv, NothingSkipped, CutInv
<1> QED
  BY <1>1, <1>2, <1>3, <1>4 DEF ListInv

LEMMA NextPageKeeps ==
  ASSUME ListInv, NextPage
  PROVE  ListInv'
<1>1. ListTypeOK /\ ClientInv
  BY DEF ListInv
<1>2. lpage \in Nat /\ lsize \in Nat /\ lpage + 1 \in Nat
  BY <1>1 DEF ListTypeOK
<1>3. /\ lpage > 0 /\ lpc = "idle" /\ ~done /\ lpc' = "count" /\ lpage' = lpage + 1
      /\ UNCHANGED <<rows, lsize, ltotal, quiet, owed, seen, received, repeated, lastTotal, lastPages, done, cut>>
  BY DEF NextPage, clientVars
<1>4. ListTypeOK'
  BY <1>1, <1>2, <1>3 DEF ListTypeOK
<1>5. ClientInv'
  BY <1>1, <1>2, <1>3 DEF ClientInv
<1>6. Given' = Given
  <2>1. (lpage' - 1) * lsize' = lpage * lsize
    BY <1>2, <1>3, Products
  <2> QED
    BY <1>3, <2>1 DEF Given
<1> QED
  BY <1>3, <1>4, <1>5, <1>6, NothingGiven

LEMMA ListCountKeeps ==
  ASSUME ListInv, ListCount
  PROVE  ListInv'
<1>1. ListTypeOK /\ ClientInv
  BY DEF ListInv
<1>2. /\ lpc = "count" /\ lpc' = "page" /\ ltotal' = Len(rows)
      /\ UNCHANGED <<rows, lpage, lsize, quiet, owed, seen, received, repeated, lastTotal, lastPages, done, cut>>
  BY DEF ListCount, clientVars
<1>3. Len(rows) \in Nat
  BY <1>1, LenProperties DEF ListTypeOK
<1>4. ListTypeOK'
  BY <1>1, <1>2, <1>3 DEF ListTypeOK
<1>5. ~done /\ ClientInv'
  BY <1>1, <1>2 DEF ClientInv
<1>6. Given' = Given
  BY <1>2 DEF Given
<1> QED
  BY <1>2, <1>4, <1>5, <1>6, NothingGiven

(***************************************************************************)
(* The request whose page comes next: it starts where the client is, and   *)
(* its answer holds the rows of the page or the first ones of them.        *)
(***************************************************************************)
Asked(o, page) ==
  /\ o \in Nat /\ lpage \in Nat /\ lpage > 0 /\ lsize \in Nat \ {0}
  /\ o = (lpage - 1) * lsize /\ lpage * lsize = o + lsize /\ Given = o
  /\ page \in Seq(Row) /\ Len(page) <= lsize
  /\ Range(page) = {rows[i] : i \in {k \in DOMAIN rows : o < k /\ k <= o + lsize}}
  /\ Len(page) < lsize <=> Len(rows) < o + lsize
  /\ o <= Len(rows) => o + Len(page) <= Len(rows)
  /\ o <= Len(rows) /\ Len(rows) < o + lsize => o + Len(page) = Len(rows)
  /\ ~done /\ ~cut
  /\ quiet => /\ ~repeated /\ o <= Len(rows) /\ ltotal = Len(rows) /\ received = o
              /\ seen = {rows[i] : i \in {k \in DOMAIN rows : k <= o}}
              /\ Range(page) \cap seen = {}

LEMMA PageAsked ==
  ASSUME ListInv, lpc = "page"
  PROVE  \E o : Asked(o, PageOf(Offset(lpage, lsize), lsize))
<1>1. rows \in Seq(Row) /\ ListTypeOK /\ ClientInv
  BY DEF ListInv, ListTypeOK
<1>2. DOMAIN rows = 1..Len(rows) /\ Len(rows) \in Nat
  BY <1>1, LenProperties
<1>3. lpage > 0 /\ lsize > 0 /\ ~done /\ ~cut
  BY <1>1 DEF ClientInv, ListTypeOK
<1>4. lpage \in Nat /\ lsize \in Nat \ {0}
  BY <1>1, <1>3 DEF ListTypeOK
<1>5. PICK o \in Nat : o = (lpage - 1) * lsize
  BY <1>3, <1>4, Products
<1>6. o = Offset(lpage, lsize) /\ Given = o /\ lpage * lsize = o + lsize
  BY <1>3, <1>4, <1>5, Products DEF Offset, Given
<1>7. PICK page : page = PageOf(o, lsize)
  OBVIOUS
<1>8. /\ page \in Seq(Row) /\ Len(page) <= lsize
      /\ Range(page) = {rows[i] : i \in {k \in DOMAIN rows : o < k /\ k <= o + lsize}}
      /\ Len(page) < lsize <=> Len(rows) < o + lsize
      /\ o <= Len(rows) => o + Len(page) <= Len(rows)
      /\ o <= Len(rows) /\ Len(rows) < o + lsize => o + Len(page) = Len(rows)
  BY <1>1, <1>4, <1>7, PageIs
<1>9. quiet => /\ ~repeated /\ o <= Len(rows) /\ ltotal = Len(rows) /\ received = o
               /\ seen = {rows[i] : i \in {k \in DOMAIN rows : k <= o}}
  BY <1>3, <1>6 DEF ListInv, QuietInv
<1>10. ASSUME quiet, NEW x \in Range(page), x \in seen
       PROVE  FALSE
  <2>1. PICK i \in DOMAIN rows : x = rows[i] /\ o < i
    BY <1>8
  <2>2. PICK k \in DOMAIN rows : x = rows[k] /\ k <= o
    BY <1>9, <1>10
  <2>3. i = k
    BY <2>1, <2>2 DEF ListInv, TableInv
  <2> QED
    BY <1>2, <2>1, <2>2, <2>3
<1>11. quiet => Range(page) \cap seen = {}
  BY <1>10
<1> QED
  BY <1>3, <1>4, <1>5, <1>6, <1>7, <1>8, <1>9, <1>11 DEF Asked

(* What every answer keeps. *)
LEMMA AnswerTypes ==
  ASSUME ListInv, lpc = "page", ltotal' = 0, UNCHANGED <<rows, lpage, lsize, quiet, owed>>,
         NEW items \in Seq(Row), Answer(items), cut' \in BOOLEAN, cut' => done'
  PROVE  ListTypeOK' /\ TableInv' /\ ClientInv'
<1>1. ListTypeOK /\ ClientInv /\ TableInv
  BY DEF ListInv
<1>2. lpage > 0 /\ lsize \in Nat \ {0} /\ ltotal \in Nat
  BY <1>1 DEF ClientInv, ListTypeOK
<1>3. lastTotal' \in Nat /\ lastPages' \in Nat
  BY <1>2, TotalPagesIsNatural DEF Answer
<1>4. received' \in Nat
  <2>1. Len(items) \in Nat /\ received \in Nat
    BY <1>1, LenProperties DEF ListTypeOK
  <2> QED
    BY <2>1 DEF Answer
<1>5. Range(items) \subseteq Row
  BY LenProperties, ElementOfSeq DEF Range
<1>6. seen' \subseteq Row
  BY <1>1, <1>5 DEF Answer, ListTypeOK
<1>7. repeated' \in BOOLEAN /\ done' \in BOOLEAN /\ lpc' = "idle"
  BY <1>1 DEF Answer, ListTypeOK
<1>8. ListTypeOK'
  BY <1>1, <1>3, <1>4, <1>6, <1>7 DEF ListTypeOK
<1>9. TableInv'
  BY <1>1 DEF TableInv
<1>10. ClientInv'
  BY <1>1, <1>2, <1>7 DEF ClientInv
<1> QED
  BY <1>8, <1>9, <1>10

(* The whole page is answered. *)
LEMMA WholeKeeps ==
  ASSUME ListInv, lpc = "page", ltotal' = 0, UNCHANGED <<rows, lpage, lsize, quiet, owed, cut>>,
         NEW o, NEW page, Asked(o, page), Answer(page)
  PROVE  ListInv'
<1>1. rows \in Seq(Row) /\ ListTypeOK /\ ClientInv
  BY DEF ListInv, ListTypeOK
<1>2. PICK len \in Nat : len = Len(rows)
  BY <1>1
<1>3. DOMAIN rows = 1..len
  BY <1>1, <1>2, LenProperties
<1>4. /\ o \in Nat /\ lsize \in Nat \ {0} /\ Given = o /\ ~done /\ ~cut /\ page \in Seq(Row)
      /\ Range(page) = {rows[i] : i \in {k \in DOMAIN rows : o < k /\ k <= o + lsize}}
      /\ Len(page) < lsize <=> len < o + lsize
      /\ lpage * lsize = o + lsize
  BY <1>2 DEF Asked
<1>5. /\ lpc' = "idle" /\ seen' = seen \cup Range(page) /\ done' = (Len(page) < lsize)
      /\ lastTotal' = ltotal /\ lastPages' = TotalPages(ltotal, lsize)
      /\ received' = received + Len(page)
      /\ repeated' = (repeated \/ Range(page) \cap seen # {})
  BY DEF Answer
<1>6. ListTypeOK' /\ TableInv' /\ ClientInv'
  BY <1>1, <1>4, AnswerTypes DEF ListTypeOK
<1>7. Given' = o + lsize
  BY <1>4, <1>5 DEF Given
<1>8. SeenInv'
  <2> SUFFICES ASSUME NEW i \in DOMAIN rows, rows[i] \in owed, i <= o + lsize
               PROVE  rows[i] \in seen'
    BY <1>7 DEF SeenInv
  <2>1. CASE i <= o
    BY <1>4, <1>5, <2>1 DEF ListInv, SeenInv
  <2>2. CASE o < i
    BY <1>4, <1>5, <2>2
  <2> QED
    BY <1>3, <1>4, <2>1, <2>2
<1>9. QuietInv'
  <2> SUFFICES ASSUME quiet
               PROVE  QuietInv'
    BY DEF QuietInv
  <2>1. /\ ~repeated /\ o <= len /\ ltotal = len /\ received = o /\ Range(page) \cap seen = {}
        /\ seen = {rows[i] : i \in {k \in DOMAIN rows : k <= o}}
        /\ len < o + lsize => o + Len(page) = len
        /\ Len(page) <= lsize /\ o = (lpage - 1) * lsize /\ lpage > 0
    BY <1>2 DEF Asked
  <2>2. ~repeated'
    BY <1>5, <2>1
  <2>3. \A k \in DOMAIN rows : k <= o + lsize <=> k <= o \/ (o < k /\ k <= o + lsize)
    BY <1>3, <1>4
  <2>4. seen' = {rows[i] : i \in {k \in DOMAIN rows : k <= o + lsize}}
    BY <1>4, <1>5, <2>1, <2>3
  <2>5. seen' = {rows'[i] : i \in {k \in DOMAIN rows' : k <= Given'}}
    BY <1>7, <2>4
  <2>6. done' <=> len < o + lsize
    BY <1>4, <1>5
  <2>7. PICK n \in Nat : n = Len(page)
    BY <1>4, LenProperties
  <2>8. ~done' => Given' <= Len(rows') /\ received' = Given'
    <3>1. ~done' => n = lsize /\ o + lsize <= len
      BY <1>2, <1>4, <2>1, <2>6, <2>7
    <3> QED
      BY <1>2, <1>4, <1>5, <1>7, <2>1, <2>7, <3>1
  <2>9. done' => (lpage' - 1) * lsize' <= Len(rows') /\ Len(rows') < lpage' * lsize'
    BY <1>2, <1>4, <2>1, <2>6
  <2>10. lastPages' = TotalPages(Len(rows'), lsize') /\ lastTotal' = Len(rows')
    BY <1>2, <1>5, <2>1
  <2>11. done' => received' = Len(rows')
    BY <1>2, <1>5, <2>1, <2>6
  <2> QED
    BY <1>5, <2>1, <2>2, <2>5, <2>8, <2>9, <2>10, <2>11 DEF QuietInv
<1>10. NothingSkipped'
  <2> SUFFICES ASSUME done', NEW x \in owed
               PROVE  x \in seen'
    BY DEF NothingSkipped
  <2>1. len < o + lsize
    BY <1>4, <1>5
  <2>2. x \in Range(rows)
    BY <1>1 DEF ClientInv
  <2>3. PICK i \in DOMAIN rows : rows[i] = x
    BY <2>2 DEF Range
  <2>4. i <= o + lsize
    BY <1>3, <1>4, <2>1, <2>3
  <2> QED
    BY <1>4, <1>7, <1>8, <2>3, <2>4 DEF SeenInv
<1>11. CutInv'
  BY <1>4 DEF CutInv
<1> QED
  BY <1>6, <1>8, <1>9, <1>10, <1>11 DEF ListInv

(* Only the first rows of the page are answered, and the client stops. *)
LEMMA CutKeeps ==
  ASSUME ListInv, lpc = "page", ltotal' = 0, UNCHANGED <<rows, lpage, lsize, quiet, owed>>,
         cut' = TRUE, NEW o, NEW page, Asked(o, page),
         NEW n \in 0..(Len(page) - 1), Answer(SubSeq(page, 1, n))
  PROVE  ListInv'
<1>1. page \in Seq(Row) /\ Len(page) \in Nat /\ DOMAIN page = 1..Len(page)
  BY LenProperties DEF Asked
<1>2. n \in Nat /\ n < Len(page)
  BY <1>1
<1>3. PICK items : items = SubSeq(page, 1, n)
  OBVIOUS
<1>4. /\ items \in Seq(Row) /\ Len(items) = n
      /\ \A i \in 1..(n - 1 + 1) : items[i] = page[1 + i - 1]
  BY <1>1, <1>2, <1>3, PartOf
<1>5. Range(items) \subseteq Range(page)
  <2>1. DOMAIN items = 1..n
    BY <1>4, LenProperties
  <2>2. \A i \in 1..n : i \in DOMAIN page /\ items[i] = page[i]
    BY <1>1, <1>2, <1>4
  <2> QED
    BY <2>1, <2>2 DEF Range
<1>6. Answer(items)
  BY <1>3
<1>7. done'
  <2>1. n < lsize
    BY <1>1, <1>2 DEF Asked
  <2> QED
    BY <1>4, <1>6, <2>1 DEF Answer
<1>8. ListTypeOK' /\ TableInv' /\ ClientInv'
  BY <1>4, <1>6, <1>7, AnswerTypes
<1>9. CutInv'
  <2> SUFFICES ASSUME quiet
               PROVE  ~repeated' /\ received' < lastTotal'
    BY DEF CutInv
  <2>1. /\ ~repeated /\ o \in Nat /\ o <= Len(rows) /\ ltotal = Len(rows) /\ received = o
        /\ Range(page) \cap seen = {} /\ o + Len(page) <= Len(rows)
    BY DEF Asked
  <2>2. ~repeated'
    BY <1>5, <1>6, <2>1 DEF Answer
  <2>3. received' = o + n /\ lastTotal' = Len(rows)
    BY <1>4, <1>6, <2>1 DEF Answer
  <2>4. Len(rows) \in Nat
    BY LenProperties DEF ListInv, ListTypeOK
  <2> QED
    BY <1>1, <1>2, <2>1, <2>2, <2>3, <2>4
<1>10. SeenInv' /\ QuietInv' /\ NothingSkipped'
  BY DEF SeenInv, QuietInv, NothingSkipped
<1> QED
  BY <1>8, <1>9, <1>10 DEF ListInv

LEMMA ListPageKeeps ==
  ASSUME ListInv, ListPage
  PROVE  ListInv'
<1>1. lpc = "page" /\ ltotal' = 0 /\ UNCHANGED <<rows, lpage, lsize, quiet, owed>>
  BY DEF ListPage
<1>2. PICK page : page = PageOf(Offset(lpage, lsize), lsize)
  OBVIOUS
<1>3. PICK o : Asked(o, page)
  BY <1>1, <1>2, PageAsked
<1>4. CASE Answer(page) /\ UNCHANGED cut
  BY <1>1, <1>3, <1>4, WholeKeeps
<1>5. ASSUME NEW n \in 0..(Len(page) - 1), Answer(SubSeq(page, 1, n)), cut' = TRUE
      PROVE  ListInv'
  BY <1>1, <1>3, <1>5, CutKeeps
<1>6. CASE lpc' = "count" /\ UNCHANGED <<seen, received, repeated, lastTotal, lastPages, done, cut>>
  <2>1. ~done /\ lpage > 0 /\ lsize > 0 /\ ListTypeOK /\ ClientInv
    BY <1>3 DEF Asked, ListInv
  <2>2. ListTypeOK'
    BY <1>1, <1>6, <2>1 DEF ListTypeOK
  <2>3. ClientInv'
    BY <1>1, <1>6, <2>1 DEF ClientInv
  <2>4. Given' = Given
    BY <1>1, <1>6 DEF Given
  <2> QED
    BY <1>1, <1>6, <2>1, <2>2, <2>3, <2>4, NothingGiven
<1> QED
  BY <1>2, <1>4, <1>5, <1>6 DEF ListPage

-----------------------------------------------------------------------------
LEMMA ListInitInv ==
  ASSUME ListInit
  PROVE  ListInv
<1>1. ListTypeOK
  <2>1. MaxPageSize \in Nat /\ 0 \in 0..MaxPageSize
    BY ListingAssumption
  <2>2. rows \in Seq(Row)
    BY DEF ListInit
  <2> QED
    BY <2>1, <2>2 DEF ListInit, ListTypeOK
<1>2. DOMAIN rows = {} /\ Len(rows) = 0
  BY DEF ListInit
<1>3. TableInv /\ SeenInv
  BY <1>2 DEF TableInv, SeenInv
<1>4. ClientInv
  BY DEF ListInit, ClientInv
<1>5. Given = 0
  BY Products DEF ListInit, Given
<1>6. QuietInv
  <2>1. seen = {rows[i] : i \in {k \in DOMAIN rows : k <= Given}}
    BY <1>2 DEF ListInit
  <2>2. Given <= Len(rows)
    BY <1>2, <1>5
  <2> QED
    BY <1>5, <2>1, <2>2 DEF ListInit, QuietInv
<1>7. NothingSkipped /\ CutInv
  BY DEF ListInit, NothingSkipped, CutInv
<1> QED
  BY <1>1, <1>3, <1>4, <1>6, <1>7 DEF ListInv

LEMMA ListNextKeeps ==
  ASSUME ListInv, [ListNext]_listVars
  PROVE  ListInv'
<1>1. ASSUME NEW r \in Row, CommitRow(r)
      PROVE  ListInv'
  BY <1>1, CommitRowKeeps
<1>2. ASSUME NEW size \in RequestedSize, FirstPage(size)
      PROVE  ListInv'
  BY <1>2, FirstPageKeeps
<1>3. CASE NextPage
  BY <1>3, NextPageKeeps
<1>4. CASE ListCount
  BY <1>4, ListCountKeeps
<1>5. CASE ListPage
  BY <1>5, ListPageKeeps
<1>6. CASE UNCHANGED listVars
  <2>1. UNCHANGED <<rows, lpc, lpage, lsize, ltotal, quiet, owed, seen, received, repeated, lastTotal, lastPages, done, cut>>
    BY <1>6 DEF listVars, clientVars
  <2>2. ListTypeOK' /\ TableInv' /\ ClientInv' /\ NothingSkipped' /\ CutInv'
    BY <2>1 DEF ListInv, ListTypeOK, TableInv, ClientInv, NothingSkipped, CutInv
  <2>3. Given' = Given
    BY <2>1 DEF Given
  <2>4. SeenInv'
    BY <2>1, <2>3 DEF ListInv, SeenInv
  <2>5. QuietInv'
    BY <2>1, <2>3 DEF ListInv, QuietInv
  <2> QED
    BY <2>2, <2>4, <2>5 DEF ListInv
<1> QED
  BY <1>1, <1>2, <1>3, <1>4, <1>5, <1>6 DEF ListNext

LEMMA ListInvariance == ListSpec => []ListInv
<1>1. ListInit => ListInv
  BY ListInitInv
<1>2. ListInv /\ [ListNext]_listVars => ListInv'
  BY ListNextKeeps
<1> QED
  BY <1>1, <1>2, PTL DEF ListSpec

(* The number of pages of a table whose last page is page p. *)
LEMMA LastPage ==
  ASSUME NEW p \in Nat \ {0}, NEW z \in Nat \ {0}, NEW len \in Nat,
         (p - 1) * z <= len, len < p * z
  PROVE  /\ p \in {TotalPages(len, z), TotalPages(len, z) + 1}
         /\ p = TotalPages(len, z) + 1 <=> len > 0 /\ len % z = 0
<1>1. PICK b \in Nat : b = (p - 1) * z
  BY Products
<1>2. p * z = b + z /\ (p > 1 => b > 0) /\ (p = 1 => b = 0)
  BY <1>1, Products
<1>3. PICK q \in Nat : q = p - 1
  OBVIOUS
<1>4. len % z = len - b
  <2>1. q * z = b
    BY <1>1, <1>3
  <2>2. q * z <= len /\ len < q * z + z
    BY <1>1, <1>2, <2>1
  <2>3. len % z = len - q * z
    BY <2>2, Quotient
  <2> QED
    BY <2>1, <2>3
<1>5. PICK a \in Nat : a = len + z - 1
  OBVIOUS
<1>6. CASE len = b
  <2>1. q * z <= a /\ a < q * z + z
    BY <1>1, <1>3, <1>5, <1>6
  <2>2. a \div z = q
    BY <2>1, Quotient
  <2>3. TotalPages(len, z) = IF q < 1 THEN 1 ELSE q
    BY <1>5, <2>2 DEF TotalPages
  <2>4. len > 0 <=> p > 1
    BY <1>2, <1>6
  <2> QED
    BY <1>3, <1>4, <1>6, <2>3, <2>4
<1>7. CASE len > b
  <2>1. p * z <= a /\ a < p * z + z
    BY <1>2, <1>5, <1>7
  <2>2. a \div z = p
    BY <2>1, Quotient
  <2>3. TotalPages(len, z) = p
    BY <1>5, <2>2 DEF TotalPages
  <2>4. len % z # 0
    BY <1>4, <1>7
  <2> QED
    BY <2>3, <2>4
<1> QED
  BY <1>1, <1>6, <1>7

(* What the invariant says of a table at rest, once the client stops. *)
LEMMA PartitionFollows ==
  ASSUME ListInv
  PROVE  PagesPartition
<1> SUFFICES ASSUME done, quiet
             PROVE  /\ ~repeated
                    /\ cut <=> received < lastTotal
                    /\ ~cut => /\ received = lastTotal /\ seen = Range(rows)
                               /\ lpage \in {lastPages, lastPages + 1}
                               /\ lpage = lastPages + 1 <=> Len(rows) > 0 /\ Len(rows) % lsize = 0
  BY DEF PagesPartition
<1>1. CASE cut
  BY <1>1 DEF ListInv, CutInv
<1>2. CASE ~cut
  <2>1. rows \in Seq(Row) /\ ListTypeOK /\ ClientInv
    BY DEF ListInv, ListTypeOK
  <2>2. PICK len \in Nat : len = Len(rows)
    BY <2>1
  <2>3. DOMAIN rows = 1..len
    BY <2>1, <2>2, LenProperties
  <2>4. /\ ~repeated /\ seen = {rows[i] : i \in {k \in DOMAIN rows : k <= Given}}
        /\ lpage > 0 /\ (lpage - 1) * lsize <= len /\ len < lpage * lsize
        /\ lastPages = TotalPages(len, lsize) /\ received = len /\ lastTotal = len
    BY <1>2, <2>2 DEF ListInv, QuietInv
  <2>5. lpage \in Nat \ {0} /\ lsize \in Nat \ {0}
    BY <2>1, <2>4 DEF ListTypeOK, ClientInv
  <2>6. Given = lpage * lsize /\ Given \in Nat
    BY <2>1, <2>5, Products DEF ClientInv, Given
  <2>7. \A k \in DOMAIN rows : k <= Given
    BY <2>3, <2>4, <2>6
  <2>8. seen = Range(rows)
    BY <2>4, <2>7 DEF Range
  <2>9. PICK pages \in Nat : pages = TotalPages(len, lsize)
    BY <2>5, TotalPagesIsNatural
  <2>10. lpage \in {pages, pages + 1} /\ (lpage = pages + 1 <=> len > 0 /\ len % lsize = 0)
    BY <2>4, <2>5, <2>9, LastPage
  <2>11. ~(received < lastTotal) /\ received = lastTotal
    BY <2>2, <2>4
  <2> QED
    BY <1>2, <2>2, <2>4, <2>8, <2>9, <2>10, <2>11
<1> QED
  BY <1>1, <1>2

-----------------------------------------------------------------------------
(* The list endpoint and its reader keep the types of their state. *)
THEOREM ListTypeCorrect == ListSpec => []ListTypeOK
<1>1. ListInv => ListTypeOK
  BY DEF ListInv
<1> QED
  BY <1>1, ListInvariance, PTL

(***************************************************************************)
(* For any table and any page sizes: a client that reads to the first      *)
(* short page has been given every notification that existed when it       *)
(* started, whatever is committed between and inside its requests, unless  *)
(* the database connection cut a page short.                               *)
(***************************************************************************)
THEOREM PagingSkipsNothing == ListSpec => []NothingSkipped
<1>1. ListInv => NothingSkipped
  BY DEF ListInv
<1> QED
  BY <1>1, ListInvariance, PTL

(***************************************************************************)
(* On a table at rest the pages of ListNotifications are disjoint, and the *)
(* rows counted against "total" of List show whether a page was cut short. *)
(* If not, the pages partition the table and total_pages is the number of  *)
(* pages that hold rows, or 1.                                             *)
(***************************************************************************)
THEOREM PagingPartitions == ListSpec => []PagesPartition
<1>1. ListInv => PagesPartition
  BY PartitionFollows
<1> QED
  BY <1>1, ListInvariance, PTL
=============================================================================
