-------------------------- MODULE DiffHunksProofs ---------------------------
(***************************************************************************)
(* The page of hunks that parse_unified_diff_hunks returns is exact for    *)
(* every offset, every limit and every diff.                               *)
(***************************************************************************)
EXTENDS DiffHunks, FiniteSetTheorems, TLAPS

-----------------------------------------------------------------------------
(* The state of the pass.                                                  *)

Pages == [limit : Nat, offset : Nat, rows : Nat, includeLines : BOOLEAN]
Totals == [files : Nat, hunks : Nat, returned : Nat, added : Nat, removed : Nat,
           truncated : BOOLEAN]
FileRecords == [open : BOOLEAN, named : BOOLEAN, hunks : SUBSET Nat, rows : SUBSET Nat,
                count : Nat, before : Nat, after : Nat, added : Nat, removed : Nat]
HunkRecords == [open : BOOLEAN, collect : BOOLEAN, added : Nat, removed : Nat,
                context : Nat, rows : Nat, kept : Nat]
Passes == [total : Totals, listed : Seq(FileRecords), file : FileRecords, hunk : HunkRecords]

\* The lines that the pass has counted, added and removed.
Lines(s) == <<s.total.added + s.hunk.added, s.total.removed + s.hunk.removed>>

\* Those that it should count.
Countable(t) == <<t.added - t.plusPlus, t.removed - t.minusMinus>>

InPage(i) == page.offset <= i /\ i < page.offset + page.limit

\* What is returned when n hunks have ended.
Returned(n) ==
    IF n <= page.offset THEN 0
    ELSE IF n < page.offset + page.limit THEN n - page.offset ELSE page.limit

LEMMA TotalledFields ==
    ASSUME NEW c \in Totals, NEW h \in HunkRecords, NEW place
    PROVE  /\ Totalled(c, h, place) \in Totals
           /\ Totalled(c, h, place).hunks = c.hunks + 1
           /\ Totalled(c, h, place).returned = c.returned + (IF place = "on" THEN 1 ELSE 0)
           /\ Totalled(c, h, place).truncated = (c.truncated \/ place = "after")
           /\ Totalled(c, h, place).added = c.added + h.added
           /\ Totalled(c, h, place).removed = c.removed + h.removed
  <1> DEFINE n == c.hunks + 1
             r == c.returned + (IF place = "on" THEN 1 ELSE 0)
             u == c.truncated \/ place = "after"
             a == c.added + h.added
             d == c.removed + h.removed
  <1>1. n \in Nat /\ r \in Nat /\ a \in Nat /\ d \in Nat
    BY DEF Totals, HunkRecords
  <1>2. u \in BOOLEAN
    BY DEF Totals
  <1>3. Totalled(c, h, place) = [c EXCEPT !.hunks = n, !.returned = r, !.truncated = u,
                                          !.added = a, !.removed = d]
    BY DEF Totalled
  <1> DEFINE t == Totalled(c, h, place)
  <1> HIDE DEF n, r, u, a, d
  <1>5. /\ t \in Totals /\ t.hunks = n /\ t.returned = r /\ t.truncated = u
        /\ t.added = a /\ t.removed = d
    BY <1>1, <1>2, <1>3 DEF Totals
  <1> QED BY <1>5 DEF n, r, u, a, d

\* g is f with hunk i, which has ended at the given place.
IsFiled(g, f, i, h, place) ==
    /\ g \in FileRecords
    /\ g.open = f.open
    /\ g.count = f.count + 1
    /\ g.before = f.before + (IF place = "before" THEN 1 ELSE 0)
    /\ g.after = f.after + (IF place = "after" THEN 1 ELSE 0)
    /\ g.hunks = (IF place = "on" THEN f.hunks \cup {i} ELSE f.hunks)
    /\ g.rows = (IF place = "on" /\ h.collect THEN f.rows \cup {i} ELSE f.rows)

LEMMA FiledFields ==
    ASSUME NEW f \in FileRecords, NEW h \in HunkRecords, NEW place, NEW i \in Nat
    PROVE  IsFiled(Filed(f, i, h, place), f, i, h, place)
  <1> DEFINE n == f.count + 1
             a == f.added + h.added
             d == f.removed + h.removed
             b == f.before + (IF place = "before" THEN 1 ELSE 0)
             e == f.after + (IF place = "after" THEN 1 ELSE 0)
             k == IF place = "on" THEN f.hunks \cup {i} ELSE f.hunks
             r == IF place = "on" /\ h.collect THEN f.rows \cup {i} ELSE f.rows
  <1>1. n \in Nat /\ a \in Nat /\ d \in Nat /\ b \in Nat /\ e \in Nat
    BY DEF FileRecords, HunkRecords
  <1>2. k \in SUBSET Nat /\ r \in SUBSET Nat
    BY DEF FileRecords
  <1>3. Filed(f, i, h, place) = [f EXCEPT !.count = n, !.added = a, !.removed = d, !.before = b,
                                          !.after = e, !.hunks = k, !.rows = r]
    BY DEF Filed
  <1> DEFINE t == Filed(f, i, h, place)
  <1> HIDE DEF n, a, d, b, e, k, r
  <1>4. /\ t \in FileRecords /\ t.open = f.open /\ t.count = n /\ t.before = b
        /\ t.after = e /\ t.hunks = k /\ t.rows = r
    BY <1>1, <1>2, <1>3 DEF FileRecords
  <1> QED BY <1>4 DEF n, b, e, k, r, IsFiled

-----------------------------------------------------------------------------
(* What the pass keeps between two lines.                                  *)

FileOk(f, n) ==
    /\ f.rows = (IF page.includeLines THEN f.hunks ELSE {})
    /\ f.hunks \subseteq 0..(n - 1)
    /\ f.before + Cardinality(f.hunks) + f.after = f.count

Counted(c) ==
    /\ c.returned = Returned(c.hunks)
    /\ c.truncated <=> page.offset + page.limit < c.hunks

HunkOk(s) ==
    /\ s.hunk.open =>
         s.file.open /\ (s.hunk.collect <=> page.includeLines /\ InPage(s.total.hunks))
    /\ ~s.hunk.open => s.hunk.added = 0 /\ s.hunk.removed = 0

Has(s, i) == i \in s.file.hunks \/ \E j \in DOMAIN s.listed : i \in s.listed[j].hunks

PassOk(s) ==
    /\ s \in Passes
    /\ HunkOk(s)
    /\ ~s.file.open => s.file.hunks = {}
    /\ Counted(s.total)
    /\ FileOk(s.file, s.total.hunks)
    /\ \A j \in DOMAIN s.listed : FileOk(s.listed[j], s.total.hunks)
    /\ \A i \in Nat : Has(s, i) <=> i < s.total.hunks /\ InPage(i)

LEMMA CountedAgain ==
    ASSUME page \in Pages, NEW s, PassOk(s), s.hunk.open
    PROVE  /\ Place(s) = "on" <=> InPage(s.total.hunks)
           /\ Place(s) \in {"before", "on", "after"}
           /\ Counted(Totalled(s.total, s.hunk, Place(s)))
  <1>1. /\ s.total \in Totals /\ s.hunk \in HunkRecords /\ s.total.hunks \in Nat
        /\ page.offset \in Nat /\ page.limit \in Nat /\ s.total.truncated \in BOOLEAN
        /\ s.total.returned \in Nat
    BY DEF PassOk, Passes, Totals, Pages
  <1>2. /\ s.total.returned = Returned(s.total.hunks)
        /\ s.total.truncated <=> page.offset + page.limit < s.total.hunks
    BY DEF PassOk, Counted
  <1> DEFINE t == Totalled(s.total, s.hunk, Place(s))
  <1>3. /\ t.hunks = s.total.hunks + 1
        /\ t.returned = s.total.returned + (IF Place(s) = "on" THEN 1 ELSE 0)
        /\ t.truncated = (s.total.truncated \/ Place(s) = "after")
    BY <1>1, TotalledFields
  <1> HIDE DEF t
  <1>4. CASE s.total.hunks < page.offset
    <2>1. Place(s) = "before"
      BY <1>4 DEF Place
    <2>2. t.returned = s.total.returned /\ t.truncated = s.total.truncated
      BY <1>1, <1>3, <2>1, <1>2, <1>4 DEF Returned
    <2> QED BY <1>1, <1>2, <1>3, <1>4, <2>1, <2>2 DEF InPage, Counted, Returned, t
  <1>5. CASE InPage(s.total.hunks)
    <2>1. s.total.returned = s.total.hunks - page.offset
      BY <1>1, <1>2, <1>5 DEF InPage, Returned
    <2>2. Place(s) = "on"
      BY <1>1, <1>5, <2>1 DEF Place, InPage
    <2>3. t.returned = s.total.returned + 1 /\ t.truncated = s.total.truncated
      BY <1>1, <1>3, <2>2
    <2> QED BY <1>1, <1>2, <1>3, <1>5, <2>1, <2>2, <2>3 DEF InPage, Counted, Returned, t
  <1>6. CASE page.offset + page.limit <= s.total.hunks
    <2>1. s.total.returned = page.limit
      BY <1>1, <1>2, <1>6 DEF Returned
    <2>2. Place(s) = "after"
      BY <1>1, <1>6, <2>1 DEF Place
    <2>3. t.returned = s.total.returned
      BY <1>1, <1>3, <2>1, <2>2
    <2>4. t.truncated
      BY <1>3, <2>2, Zenon
    <2> QED BY <1>1, <1>2, <1>3, <1>6, <2>1, <2>2, <2>3, <2>4 DEF InPage, Counted, Returned, t
  <1> QED BY <1>1, <1>4, <1>5, <1>6 DEF InPage

LEMMA FiledOk ==
    ASSUME page \in Pages, NEW s, PassOk(s), s.hunk.open
    PROVE  FileOk(Filed(s.file, s.total.hunks, s.hunk, Place(s)), s.total.hunks + 1)
  <1> DEFINE n == s.total.hunks
             g == Filed(s.file, n, s.hunk, Place(s))
  <1>1. /\ s.file \in FileRecords /\ s.hunk \in HunkRecords /\ n \in Nat
        /\ s.file.before \in Nat /\ s.file.after \in Nat /\ s.file.count \in Nat
        /\ s.file.hunks \subseteq 0..(n - 1)
    BY DEF PassOk, Passes, Totals, FileRecords, FileOk
  <1>2. IsFiled(g, s.file, n, s.hunk, Place(s))
    BY <1>1, FiledFields
  <1>3. IsFiniteSet(s.file.hunks) /\ Cardinality(s.file.hunks) \in Nat
    <2>1. 0 \in Int /\ n - 1 \in Int
      BY <1>1
    <2>2. IsFiniteSet(0..(n - 1))
      BY <2>1, FS_Interval
    <2> QED BY <1>1, <2>2, FS_Subset, FS_CardinalityType
  <1>4. Cardinality(s.file.hunks \cup {n}) = Cardinality(s.file.hunks) + 1
    <2>1. n \notin s.file.hunks
      BY <1>1
    <2> QED BY <2>1, <1>3, FS_AddElement
  <1>5. Place(s) \in {"before", "on", "after"} /\ (Place(s) = "on" <=> InPage(n))
    BY CountedAgain
  <1>6. s.file.before + Cardinality(s.file.hunks) + s.file.after = s.file.count
    BY DEF PassOk, FileOk
  <1>7. s.hunk.collect <=> page.includeLines /\ InPage(n)
    BY DEF PassOk, HunkOk
  <1>8. s.file.rows = (IF page.includeLines THEN s.file.hunks ELSE {})
    BY DEF PassOk, FileOk
  <1> HIDE DEF n, g
  <1>9. g.before + Cardinality(g.hunks) + g.after = g.count
    BY <1>1, <1>2, <1>3, <1>4, <1>5, <1>6 DEF IsFiled
  <1>10. g.rows = (IF page.includeLines THEN g.hunks ELSE {})
    BY <1>2, <1>5, <1>7, <1>8 DEF IsFiled
  <1>11. g.hunks \subseteq 0..((n + 1) - 1)
    BY <1>1, <1>2 DEF IsFiled
  <1> QED BY <1>9, <1>10, <1>11 DEF FileOk, n, g

LEMMA FileOkLater ==
    ASSUME NEW n \in Nat, NEW f, FileOk(f, n)
    PROVE  FileOk(f, n + 1)
  BY DEF FileOk

LEMMA FinishHunkKeeps ==
    ASSUME page \in Pages, NEW s, PassOk(s)
    PROVE  LET t == FinishHunk(s) IN
           /\ PassOk(t) /\ ~t.hunk.open /\ t.file.open = s.file.open
           /\ Lines(t) = Lines(s)
  <1> DEFINE t == FinishHunk(s)
  <1>0. s \in Passes /\ s.total \in Totals /\ s.file \in FileRecords /\ s.hunk \in HunkRecords
        /\ s.listed \in Seq(FileRecords) /\ s.total.hunks \in Nat
    BY DEF PassOk, Passes, Totals
  <1>1. CASE ~s.hunk.open
    <2>1. t = s
      BY <1>1 DEF FinishHunk
    <2> QED BY <1>1, <2>1
  <1>2. CASE s.hunk.open
    <2> DEFINE c == Totalled(s.total, s.hunk, Place(s))
               g == Filed(s.file, s.total.hunks, s.hunk, Place(s))
    <2>1. t = [total |-> c, listed |-> s.listed, file |-> g, hunk |-> NoHunk]
      BY <1>2 DEF FinishHunk
    <2>2. /\ c \in Totals /\ c.hunks = s.total.hunks + 1 /\ Counted(c)
          /\ c.added = s.total.added + s.hunk.added
          /\ c.removed = s.total.removed + s.hunk.removed
      BY <1>0, <1>2, TotalledFields, CountedAgain
    <2>3. /\ g \in FileRecords /\ g.open = s.file.open
          /\ g.hunks = IF InPage(s.total.hunks) THEN s.file.hunks \cup {s.total.hunks}
                       ELSE s.file.hunks
          /\ FileOk(g, c.hunks)
      <3>1. FileOk(g, c.hunks)
        BY <1>2, <2>2, FiledOk
      <3>2. Place(s) = "on" <=> InPage(s.total.hunks)
        BY <1>2, CountedAgain
      <3>3. IsFiled(g, s.file, s.total.hunks, s.hunk, Place(s))
        BY <1>0, FiledFields
      <3> HIDE DEF g, c
      <3> QED BY <3>1, <3>2, <3>3 DEF IsFiled
    <2> HIDE DEF c, g, t
    <2>4. /\ t.total = c /\ t.listed = s.listed /\ t.file = g /\ t.hunk = NoHunk
          /\ NoHunk \in HunkRecords /\ NoHunk.open = FALSE
          /\ NoHunk.added = 0 /\ NoHunk.removed = 0
      BY <2>1 DEF NoHunk, HunkRecords
    <2>5. t \in Passes
      BY <1>0, <2>1, <2>2, <2>3, <2>4 DEF Passes
    <2>6. s.file.open
      BY <1>2 DEF PassOk, HunkOk
    <2>7. \A j \in DOMAIN t.listed : FileOk(t.listed[j], t.total.hunks)
      BY <1>0, <2>2, <2>4, FileOkLater DEF PassOk
    <2>8. ASSUME NEW i \in Nat
          PROVE  Has(t, i) <=> i < t.total.hunks /\ InPage(i)
      <3>1. Has(t, i) <=> Has(s, i) \/ (i = s.total.hunks /\ InPage(i))
        BY <2>3, <2>4 DEF Has
      <3>2. Has(s, i) <=> i < s.total.hunks /\ InPage(i)
        BY DEF PassOk
      <3>3. i < t.total.hunks <=> i < s.total.hunks \/ i = s.total.hunks
        BY <1>0, <2>2, <2>4
      <3> QED BY <3>1, <3>2, <3>3
    <2>9. Lines(t) = Lines(s)
      <3>1. s.total.added \in Nat /\ s.total.removed \in Nat
            /\ s.hunk.added \in Nat /\ s.hunk.removed \in Nat
        BY <1>0 DEF Totals, HunkRecords
      <3> QED BY <2>2, <2>4, <3>1 DEF Lines
    <2>10. PassOk(t)
      BY <2>2, <2>3, <2>4, <2>5, <2>6, <2>7, <2>8 DEF PassOk, HunkOk
    <2> QED BY <2>3, <2>4, <2>9, <2>10 DEF t
  <1> QED BY <1>1, <1>2

LEMMA EmptyFile ==
    ASSUME NEW n \in Nat, NEW f \in {NoFile, [NoFile EXCEPT !.open = TRUE]}
    PROVE  f \in FileRecords /\ f.hunks = {} /\ FileOk(f, n)
  <1>1. /\ f \in FileRecords /\ f.hunks = {} /\ f.rows = {}
        /\ f.before = 0 /\ f.after = 0 /\ f.count = 0
    <2>1. CASE f = NoFile
      BY <2>1 DEF NoFile, FileRecords
    <2>2. CASE f = [NoFile EXCEPT !.open = TRUE]
      BY <2>2 DEF NoFile, FileRecords
    <2> QED BY <2>1, <2>2
  <1>2. Cardinality({}) = 0
    BY FS_EmptySet
  <1>3. FileOk(f, n)
    BY <1>1, <1>2 DEF FileOk
  <1> QED BY <1>1, <1>3

LEMMA EnsureFileKeeps ==
    ASSUME page \in Pages, NEW s, PassOk(s)
    PROVE  LET t == EnsureFile(s) IN
           PassOk(t) /\ t.file.open /\ t.hunk = s.hunk /\ Lines(t) = Lines(s)
  <1> DEFINE t == EnsureFile(s)
  <1>1. CASE s.file.open
    <2>1. t = s
      BY <1>1 DEF EnsureFile
    <2> QED BY <1>1, <2>1
  <1>2. CASE ~s.file.open
    <2> DEFINE f == [NoFile EXCEPT !.open = TRUE]
    <2>1. s \in Passes /\ s.total.hunks \in Nat
      BY DEF PassOk, Passes, Totals
    <2>2. f \in FileRecords /\ f.open /\ f.hunks = {} /\ FileOk(f, s.total.hunks)
      <3>1. f.open
        BY DEF NoFile
      <3> QED BY <2>1, <3>1, EmptyFile
    <2>3. t = [s EXCEPT !.file = f]
      BY <1>2 DEF EnsureFile
    <2> HIDE DEF f, t
    <2>4. /\ t \in Passes /\ t.total = s.total /\ t.listed = s.listed
          /\ t.file = f /\ t.hunk = s.hunk
      BY <2>1, <2>2, <2>3 DEF Passes
    <2>5. s.file.hunks = {} /\ ~s.hunk.open
      BY <1>2 DEF PassOk, HunkOk
    <2>6. \A i \in Nat : Has(t, i) <=> Has(s, i)
      BY <2>2, <2>4, <2>5 DEF Has
    <2>7. PassOk(t)
      BY <2>2, <2>4, <2>5, <2>6 DEF PassOk, HunkOk
    <2> QED BY <2>2, <2>4, <2>7 DEF Lines, t
  <1> QED BY <1>1, <1>2

LEMMA NamedKeeps ==
    ASSUME page \in Pages, NEW s, PassOk(s)
    PROVE  LET t == Named(s) IN PassOk(t) /\ Lines(t) = Lines(s) /\ t.hunk = s.hunk
  <1> DEFINE f == [s.file EXCEPT !.named = TRUE]
             t == Named(s)
  <1>1. s \in Passes /\ s.file \in FileRecords
    BY DEF PassOk, Passes
  <1>2. /\ f \in FileRecords /\ f.open = s.file.open /\ f.hunks = s.file.hunks
        /\ f.rows = s.file.rows /\ f.count = s.file.count
        /\ f.before = s.file.before /\ f.after = s.file.after
    BY <1>1 DEF FileRecords
  <1>3. t = [s EXCEPT !.file = f]
    BY <1>1 DEF Named, Passes
  <1> HIDE DEF f, t
  <1>4. /\ t \in Passes /\ t.total = s.total /\ t.listed = s.listed
        /\ t.file = f /\ t.hunk = s.hunk
    BY <1>1, <1>2, <1>3 DEF Passes
  <1>5. FileOk(f, s.total.hunks) /\ \A i \in Nat : Has(t, i) <=> Has(s, i)
    BY <1>2, <1>4 DEF PassOk, FileOk, Has
  <1>6. PassOk(t)
    BY <1>2, <1>4, <1>5 DEF PassOk, HunkOk
  <1> QED BY <1>4, <1>6 DEF Lines, t

LEMMA ListedOk ==
    ASSUME NEW list \in Seq(FileRecords), NEW f \in FileRecords, NEW n \in Nat,
           FileOk(f, n), \A j \in DOMAIN list : FileOk(list[j], n)
    PROVE  /\ Listed(list, f) \in Seq(FileRecords)
           /\ \A j \in DOMAIN Listed(list, f) : FileOk(Listed(list, f)[j], n)
           /\ \A i \in Nat :
                (\E j \in DOMAIN Listed(list, f) : i \in Listed(list, f)[j].hunks)
                  <=> i \in f.hunks \/ \E j \in DOMAIN list : i \in list[j].hunks
  <1> DEFINE g == [f EXCEPT !.open = FALSE]
  <1>1. /\ g \in FileRecords /\ g.hunks = f.hunks /\ g.rows = f.rows
        /\ g.count = f.count /\ g.before = f.before /\ g.after = f.after
    BY DEF FileRecords
  <1>2. Listed(list, f) = Append(list, g) \/ (Listed(list, f) = list /\ f.hunks = {})
    BY DEF Listed
  <1> HIDE DEF g
  <1>3. FileOk(g, n)
    BY <1>1 DEF FileOk
  <1>4. CASE Listed(list, f) = list /\ f.hunks = {}
    BY <1>4
  <1>5. CASE Listed(list, f) = Append(list, g)
    <2>1. /\ Append(list, g) \in Seq(FileRecords)
          /\ DOMAIN Append(list, g) = DOMAIN list \cup {Len(list) + 1}
          /\ Append(list, g)[Len(list) + 1] = g
          /\ \A j \in DOMAIN list : Append(list, g)[j] = list[j]
      BY <1>1
    <2> QED BY <1>1, <1>3, <1>5, <2>1
  <1> QED BY <1>2, <1>4, <1>5

LEMMA FinishFileKeeps ==
    ASSUME page \in Pages, NEW s, PassOk(s)
    PROVE  LET t == FinishFile(s) IN PassOk(t) /\ ~t.hunk.open /\ Lines(t) = Lines(s)
  <1>1. CASE ~s.file.open
    <2>1. FinishFile(s) = s
      BY <1>1 DEF FinishFile
    <2>2. ~s.hunk.open
      BY <1>1 DEF PassOk, HunkOk
    <2> QED BY <2>1, <2>2
  <1>2. CASE s.file.open
    <2> DEFINE u == FinishHunk(s)
               k == u.total.files + (IF Evidence(u.file) THEN 1 ELSE 0)
               c == [u.total EXCEPT !.files = k]
               list == Listed(u.listed, u.file)
               t == FinishFile(s)
    <2>1. t = [total |-> c, listed |-> list, file |-> NoFile, hunk |-> u.hunk]
      BY <1>2 DEF FinishFile
    <2>2. PassOk(u) /\ ~u.hunk.open /\ Lines(u) = Lines(s)
      BY FinishHunkKeeps
    <2> HIDE DEF u
    <2>3. /\ u.total \in Totals /\ u.listed \in Seq(FileRecords) /\ u.file \in FileRecords
          /\ u.hunk \in HunkRecords /\ u.total.hunks \in Nat /\ u.total.files \in Nat
      BY <2>2 DEF PassOk, Passes, Totals
    <2>4. k \in Nat
      BY <2>3
    <2> HIDE DEF k
    <2>5. /\ c \in Totals /\ c.hunks = u.total.hunks /\ c.returned = u.total.returned
          /\ c.truncated = u.total.truncated
          /\ c.added = u.total.added /\ c.removed = u.total.removed
      BY <2>3, <2>4 DEF Totals
    <2>6. /\ list \in Seq(FileRecords)
          /\ \A j \in DOMAIN list : FileOk(list[j], u.total.hunks)
          /\ \A i \in Nat : (\E j \in DOMAIN list : i \in list[j].hunks)
                              <=> i \in u.file.hunks \/ \E j \in DOMAIN u.listed :
                                                           i \in u.listed[j].hunks
      BY <2>2, <2>3, ListedOk DEF PassOk
    <2>7. /\ NoFile \in FileRecords /\ ~NoFile.open /\ NoFile.hunks = {}
          /\ FileOk(NoFile, u.total.hunks)
      <3>1. ~NoFile.open
        BY DEF NoFile
      <3> QED BY <2>3, <3>1, EmptyFile
    <2> HIDE DEF c, list, t
    <2>8. /\ t \in Passes /\ t.total = c /\ t.listed = list
          /\ t.file = NoFile /\ t.hunk = u.hunk
      BY <2>1, <2>3, <2>5, <2>6, <2>7 DEF Passes
    <2>9. \A i \in Nat : Has(t, i) <=> Has(u, i)
      BY <2>6, <2>7, <2>8 DEF Has
    <2>10. Counted(c)
      BY <2>2, <2>5 DEF PassOk, Counted
    <2>11. PassOk(t)
      BY <2>2, <2>5, <2>6, <2>7, <2>8, <2>9, <2>10 DEF PassOk, HunkOk
    <2> QED BY <2>2, <2>5, <2>8, <2>11 DEF Lines, t
  <1> QED BY <1>1, <1>2

-----------------------------------------------------------------------------
(* The lines.                                                              *)

Truths == [at : {"text", "names", "hunk"}, files : Nat, plain : BOOLEAN,
           added : Nat, removed : Nat, plusPlus : Nat, minusMinus : Nat]

\* A line of a hunk comes only while the parser has a hunk open.
DiffInv ==
    /\ page \in Pages
    /\ passed \in Nat
    /\ truth \in Truths
    /\ truth.at = "hunk" /\ ~Ended => hunk.open
    /\ PassOk(Pass)
    /\ LinesAreCounted

LEMMA Carried ==
    ASSUME NEW s, PassOk(s), Becomes(s), page' = page
    PROVE  PassOk(Pass)' /\ hunk' = s.hunk /\ Lines(Pass)' = Lines(s)
  <1>1. Pass' = s
    BY DEF Becomes, Pass, PassOk, Passes
  <1>2. PassOk(Pass)'
    BY <1>1 DEF PassOk, HunkOk, Counted, FileOk, Has, InPage, Returned
  <1>3. Lines(Pass)' = Lines(s)
    BY <1>1 DEF Lines
  <1> QED BY <1>2, <1>3 DEF Becomes

LEMMA OpenedKeeps ==
    ASSUME page \in Pages, NEW s, PassOk(s), s.file.open, ~s.hunk.open,
           NEW b \in BOOLEAN, b <=> page.includeLines /\ InPage(s.total.hunks)
    PROVE  LET t == [s EXCEPT !.hunk = [NoHunk EXCEPT !.open = TRUE, !.collect = b]] IN
           PassOk(t) /\ t.hunk.open /\ Lines(t) = Lines(s)
  <1> DEFINE h == [NoHunk EXCEPT !.open = TRUE, !.collect = b]
             t == [s EXCEPT !.hunk = h]
  <1>1. /\ h \in HunkRecords /\ h.open /\ h.collect = b /\ h.added = 0 /\ h.removed = 0
    BY DEF NoHunk, HunkRecords
  <1>2. s \in Passes /\ s.hunk.added = 0 /\ s.hunk.removed = 0
    BY DEF PassOk, HunkOk
  <1> HIDE DEF h
  <1>3. /\ t \in Passes /\ t.total = s.total /\ t.listed = s.listed
        /\ t.file = s.file /\ t.hunk = h
    BY <1>1, <1>2 DEF Passes
  <1> HIDE DEF t
  <1>4. \A i \in Nat : Has(t, i) <=> Has(s, i)
    BY <1>3 DEF Has
  <1>5. PassOk(t)
    BY <1>1, <1>3, <1>4 DEF PassOk, HunkOk
  <1> QED BY <1>1, <1>2, <1>3, <1>5 DEF Lines, t, h

\* The counters of a hunk after one of its lines.
Row(look) == [hunk EXCEPT !.added = @ + (IF look = "add" THEN 1 ELSE 0),
                          !.removed = @ + (IF look = "remove" THEN 1 ELSE 0),
                          !.context = @ + (IF look = "context" THEN 1 ELSE 0)]

LEMMA RowFields ==
    ASSUME hunk \in HunkRecords, NEW look, page \in Pages
    PROVE  LET h == Collected(Row(look)) IN
           /\ h \in HunkRecords /\ h.open = hunk.open /\ h.collect = hunk.collect
           /\ h.added = hunk.added + (IF look = "add" THEN 1 ELSE 0)
           /\ h.removed = hunk.removed + (IF look = "remove" THEN 1 ELSE 0)
  <1> DEFINE a == hunk.added + (IF look = "add" THEN 1 ELSE 0)
             d == hunk.removed + (IF look = "remove" THEN 1 ELSE 0)
             c == hunk.context + (IF look = "context" THEN 1 ELSE 0)
             r == Row(look)
  <1>1. a \in Nat /\ d \in Nat /\ c \in Nat
    BY DEF HunkRecords
  <1>2. r = [hunk EXCEPT !.added = a, !.removed = d, !.context = c]
    BY DEF Row
  <1> HIDE DEF a, d, c, r
  <1>3. /\ r \in HunkRecords /\ r.open = hunk.open /\ r.collect = hunk.collect
        /\ r.added = a /\ r.removed = d
    BY <1>1, <1>2 DEF HunkRecords
  <1> DEFINE n == r.rows + 1
             k == r.kept + (IF r.kept < page.rows THEN 1 ELSE 0)
             h == Collected(r)
  <1>4. n \in Nat /\ k \in Nat
    BY <1>3 DEF HunkRecords
  <1>5. h = r \/ h = [r EXCEPT !.rows = n, !.kept = k]
    BY DEF Collected
  <1> HIDE DEF n, k, h
  <1>6. /\ h \in HunkRecords /\ h.open = r.open /\ h.collect = r.collect
        /\ h.added = r.added /\ h.removed = r.removed
    <2>1. CASE h = r
      BY <1>3, <2>1
    <2>2. CASE h = [r EXCEPT !.rows = n, !.kept = k]
      BY <1>3, <1>4, <2>2 DEF HunkRecords
    <2> QED BY <1>5, <2>1, <2>2
  <1> QED BY <1>3, <1>6 DEF a, d, h, r

\* What Told makes of the counters.
LEMMA ToldFields ==
    ASSUME truth \in Truths, NEW line \in LineKind
    PROVE  /\ Told(line) \in Truths
           /\ Told(line).at = (CASE line \in {"git", "old"} -> "names"
                                 [] line = "header" -> "hunk"
                                 [] OTHER -> truth.at)
  BY DEF Told, Truths, LineKind, AddedLine, RemovedLine

\* What a line adds to the lines that are to be counted.
LEMMA ToldCountable ==
    ASSUME truth \in Truths, NEW line \in LineKind
    PROVE  Countable(Told(line)) =
             <<Countable(truth)[1] + (IF line = "add" THEN 1 ELSE 0),
               Countable(truth)[2] + (IF line = "remove" THEN 1 ELSE 0)>>
  <1> DEFINE t == Told(line)
  <1>1. /\ truth.added \in Nat /\ truth.removed \in Nat
        /\ truth.plusPlus \in Nat /\ truth.minusMinus \in Nat
    BY DEF Truths
  <1>2. /\ t.added = truth.added + (IF line \in AddedLine THEN 1 ELSE 0)
        /\ t.removed = truth.removed + (IF line \in RemovedLine THEN 1 ELSE 0)
        /\ t.plusPlus = truth.plusPlus + (IF line \in {"pluses", "increments"} THEN 1 ELSE 0)
        /\ t.minusMinus = truth.minusMinus + (IF line \in {"dashes", "hyphens"} THEN 1 ELSE 0)
    BY DEF Told
  <1> HIDE DEF t
  <1>3. t.added - t.plusPlus = (truth.added - truth.plusPlus) + (IF line = "add" THEN 1 ELSE 0)
    <2>1. CASE line \in AddedLine
      BY <1>1, <1>2, <2>1 DEF AddedLine
    <2>2. CASE line \notin AddedLine
      BY <1>1, <1>2, <2>2 DEF AddedLine
    <2> QED BY <2>1, <2>2
  <1>4. t.removed - t.minusMinus
          = (truth.removed - truth.minusMinus) + (IF line = "remove" THEN 1 ELSE 0)
    <2>1. CASE line \in RemovedLine
      BY <1>1, <1>2, <2>1 DEF RemovedLine
    <2>2. CASE line \notin RemovedLine
      BY <1>1, <1>2, <2>2 DEF RemovedLine
    <2> QED BY <2>1, <2>2
  <1> QED BY <1>3, <1>4 DEF Countable, t

LEMMA LineStep ==
    ASSUME DiffInv, NEW line \in LineKind, ReadLine(line)
    PROVE  DiffInv'
  <1> DEFINE s == Pass
  <1>1. /\ page \in Pages /\ passed \in Nat /\ truth \in Truths /\ PassOk(s)
        /\ page' = page /\ truth' = Told(line) /\ passed' = passed + 1
        /\ hunk \in HunkRecords /\ hunk = s.hunk /\ total = s.total
    BY DEF DiffInv, ReadLine, PassOk, Passes, Pass
  <1>2. MaxLines \in Nat /\ passed < MaxLines /\ ~Ended
    BY DiffAssumption, <1>1 DEF ReadLine, Ended
  <1>3. page' \in Pages /\ passed' \in Nat /\ truth' \in Truths
    BY <1>1, ToldFields
  <1>4. /\ truth.added \in Nat /\ truth.removed \in Nat
        /\ truth.plusPlus \in Nat /\ truth.minusMinus \in Nat
        /\ total.added \in Nat /\ total.removed \in Nat
        /\ hunk.added \in Nat /\ hunk.removed \in Nat
    BY <1>1 DEF Truths, PassOk, Passes, Totals, HunkRecords
  <1>5. /\ total.added + hunk.added = Countable(truth)[1]
        /\ total.removed + hunk.removed = Countable(truth)[2]
        /\ Lines(Pass) = Countable(truth)
    BY DEF DiffInv, LinesAreCounted, Lines, Countable, Pass
  <1>6. ASSUME PassOk(Pass)', truth'.at = "hunk" => hunk'.open,
               Lines(Pass)' = Countable(truth)'
        PROVE  DiffInv'
    BY <1>3, <1>6 DEF DiffInv, LinesAreCounted, Lines, Countable, Pass
  <1>6a. Countable(truth)' = <<Countable(truth)[1] + (IF line = "add" THEN 1 ELSE 0),
                               Countable(truth)[2] + (IF line = "remove" THEN 1 ELSE 0)>>
    BY <1>1, ToldCountable DEF Countable
  <1>6b. ASSUME line \notin {"add", "remove"} PROVE Countable(truth)' = Countable(truth)
    BY <1>4, <1>6a, <1>6b DEF Countable
  <1>7. truth.at = "hunk" => hunk.open
    BY <1>2 DEF DiffInv
  <1> HIDE DEF s
  <1>8. CASE line = "git"
    <2> DEFINE t == FinishFile(s)
               u == EnsureFile(t)
               v == Named(u)
    <2>1. Becomes(v)
      BY <1>8 DEF ReadLine, LooksLike, GitLine, s
    <2>2. PassOk(t) /\ Lines(t) = Lines(s)
      BY <1>1, FinishFileKeeps
    <2> HIDE DEF t
    <2>3. PassOk(u) /\ Lines(u) = Lines(s)
      BY <1>1, <2>2, EnsureFileKeeps
    <2> HIDE DEF u
    <2>4. PassOk(v) /\ Lines(v) = Lines(s)
      BY <1>1, <2>3, NamedKeeps
    <2> HIDE DEF v
    <2>5. PassOk(Pass)' /\ Lines(Pass)' = Lines(Pass)
      BY <1>1, <2>1, <2>4, Carried DEF s
    <2>6. truth'.at = "names"
      BY <1>1, <1>8, ToldFields
    <2> QED BY <1>5, <1>6, <1>6b, <1>8, <2>5, <2>6
  <1>9. CASE line \in {"old", "new", "dashes", "pluses"}
    <2> DEFINE u == EnsureFile(s)
               v == Named(u)
    <2>1. Becomes(v)
      BY <1>9 DEF ReadLine, LooksLike, PathLine, s
    <2>2. PassOk(u) /\ Lines(u) = Lines(s) /\ u.hunk = s.hunk
      BY <1>1, EnsureFileKeeps
    <2> HIDE DEF u
    <2>3. PassOk(v) /\ Lines(v) = Lines(s) /\ v.hunk = s.hunk
      BY <1>1, <2>2, NamedKeeps
    <2> HIDE DEF v
    <2>4. PassOk(Pass)' /\ Lines(Pass)' = Lines(Pass) /\ hunk' = hunk
      BY <1>1, <2>1, <2>3, Carried DEF s
    <2>5. truth'.at \in {"names", truth.at}
      BY <1>1, <1>9, ToldFields
    <2> QED BY <1>5, <1>6, <1>6b, <1>7, <1>9, <2>4, <2>5
  <1>10. CASE line = "header"
    <2> DEFINE u == EnsureFile(s)
               t == FinishHunk(u)
               b == /\ page.includeLines
                    /\ page.offset <= t.total.hunks
                    /\ t.total.hunks < page.offset + page.limit
               v == [t EXCEPT !.hunk = [NoHunk EXCEPT !.open = TRUE, !.collect = b]]
    <2>1. Becomes(v)
      BY <1>10 DEF ReadLine, LooksLike, HunkHeader, s
    <2>2. PassOk(u) /\ Lines(u) = Lines(s) /\ u.file.open
      BY <1>1, EnsureFileKeeps
    <2> HIDE DEF u
    <2>3. PassOk(t) /\ Lines(t) = Lines(s) /\ t.file.open /\ ~t.hunk.open
      BY <1>1, <2>2, FinishHunkKeeps
    <2> HIDE DEF t
    <2>4. b \in BOOLEAN /\ (b <=> page.includeLines /\ InPage(t.total.hunks))
      BY DEF InPage
    <2> HIDE DEF b
    <2>5. PassOk(v) /\ Lines(v) = Lines(s) /\ v.hunk.open
      BY <1>1, <2>3, <2>4, OpenedKeeps
    <2> HIDE DEF v
    <2>6. PassOk(Pass)' /\ Lines(Pass)' = Lines(Pass) /\ hunk'.open
      BY <1>1, <2>1, <2>5, Carried DEF s
    <2> QED BY <1>5, <1>6, <1>6b, <1>10, <2>6
  <1>11. CASE line \in {"add", "remove", "context", "meta", "hyphens", "increments"}
    <2> DEFINE look == LooksLike(line)
    <2>0. /\ look = IF line \in {"hyphens", "increments"} THEN "meta" ELSE line
          /\ BodyLine(look)
      BY <1>11 DEF ReadLine, LooksLike
    <2>1. UNCHANGED <<total, listed, file>>
      BY <2>0 DEF BodyLine
    <2>2. truth'.at = truth.at
      BY <1>1, <1>11, ToldFields
    <2>3. line # "meta" => hunk.open
      BY <1>7, <1>11 DEF ReadLine, Follows
    <2> HIDE DEF look
    <2>4. CASE ~hunk.open
      <3>1. hunk' = hunk
        BY <2>0, <2>4 DEF BodyLine
      <3>2. Becomes(s)
        BY <2>1, <3>1 DEF Becomes, s, Pass
      <3>3. PassOk(Pass)' /\ Lines(Pass)' = Lines(Pass)
        BY <1>1, <3>2, Carried DEF s
      <3>4. line = "meta"
        BY <2>3, <2>4
      <3> QED BY <1>5, <1>6, <1>6b, <1>7, <2>2, <3>1, <3>3, <3>4
    <2>5. CASE hunk.open
      <3> DEFINE h == Collected(Row(look))
                 v == [s EXCEPT !.hunk = h]
      <3>1. hunk' = h
        BY <2>0, <2>5 DEF BodyLine, Row
      <3>2. /\ h \in HunkRecords /\ h.open = hunk.open /\ h.collect = hunk.collect
            /\ h.added = hunk.added + (IF look = "add" THEN 1 ELSE 0)
            /\ h.removed = hunk.removed + (IF look = "remove" THEN 1 ELSE 0)
        BY <1>1, RowFields
      <3> HIDE DEF h
      <3>3. s \in Passes
        BY <1>1 DEF PassOk
      <3>4. /\ v \in Passes /\ v.total = s.total /\ v.listed = s.listed
            /\ v.file = s.file /\ v.hunk = h
        BY <3>2, <3>3 DEF Passes
      <3> HIDE DEF v
      <3>5. \A i \in Nat : Has(v, i) <=> Has(s, i)
        BY <3>4 DEF Has
      <3>6. HunkOk(v)
        BY <1>1, <2>5, <3>2, <3>4 DEF PassOk, HunkOk
      <3>7. PassOk(v)
        BY <1>1, <3>4, <3>5, <3>6 DEF PassOk
      <3>8. Becomes(v)
        BY <2>1, <3>1, <3>4 DEF Becomes, s, Pass
      <3>9. PassOk(Pass)' /\ Lines(Pass)' = Lines(v) /\ hunk'.open
        BY <1>1, <2>5, <3>1, <3>2, <3>7, <3>8, Carried
      <3>10. /\ total.added + h.added
                 = (total.added + hunk.added) + (IF line = "add" THEN 1 ELSE 0)
             /\ total.removed + h.removed
                 = (total.removed + hunk.removed) + (IF line = "remove" THEN 1 ELSE 0)
        BY <1>4, <1>11, <2>0, <3>2
      <3>11. Lines(v) = <<total.added + h.added, total.removed + h.removed>>
        BY <1>1, <3>4 DEF Lines
      <3>12. Lines(Pass)' = Countable(truth)'
        BY <1>5, <1>6a, <3>9, <3>10, <3>11
      <3> QED BY <1>6, <3>9, <3>12
    <2> QED BY <2>4, <2>5
  <1> QED BY <1>8, <1>9, <1>10, <1>11 DEF LineKind, AddedLine, RemovedLine

LEMMA EndStep ==
    ASSUME DiffInv, EndOfDiff
    PROVE  DiffInv'
  <1> DEFINE t == FinishFile(Pass)
  <1>1. /\ page \in Pages /\ truth \in Truths /\ PassOk(Pass)
        /\ UNCHANGED <<page, truth>> /\ passed' = MaxLines + 1 /\ Becomes(t)
        /\ Lines(Pass) = Countable(truth)
    BY DEF DiffInv, EndOfDiff, LinesAreCounted, Lines, Countable, Pass
  <1>2. PassOk(t) /\ Lines(t) = Lines(Pass)
    BY <1>1, FinishFileKeeps
  <1> HIDE DEF t
  <1>3. PassOk(Pass)' /\ Lines(Pass)' = Lines(Pass)
    BY <1>1, <1>2, Carried
  <1>4. passed' \in Nat /\ Ended'
    BY <1>1, DiffAssumption DEF Ended
  <1>5. LinesAreCounted'
    BY <1>1, <1>3 DEF LinesAreCounted, Lines, Countable, Pass
  <1> QED BY <1>1, <1>3, <1>4, <1>5 DEF DiffInv

LEMMA DiffStart == DiffInit => DiffInv
  <1> SUFFICES ASSUME DiffInit PROVE DiffInv
    OBVIOUS
  <1>1. page \in Pages
    BY DiffAssumption DEF DiffInit, Pages, Clamp
  <1>2. /\ truth \in Truths /\ truth.at = "text" /\ passed = 0 /\ LinesAreCounted
    BY DEF DiffInit, Truths, LinesAreCounted, NoHunk
  <1>3. /\ total \in Totals /\ total.hunks = 0 /\ total.returned = 0 /\ ~total.truncated
        /\ listed = <<>> /\ file = NoFile /\ ~NoFile.open
        /\ hunk \in HunkRecords /\ ~hunk.open /\ hunk.added = 0 /\ hunk.removed = 0
    BY DEF DiffInit, Totals, NoHunk, NoFile, HunkRecords
  <1>4. /\ NoFile \in FileRecords /\ NoFile.hunks = {} /\ FileOk(NoFile, 0)
    BY EmptyFile
  <1>5. /\ Pass \in Passes /\ Pass.total = total /\ Pass.listed = listed
        /\ Pass.file = file /\ Pass.hunk = hunk
    BY <1>3, <1>4 DEF Pass, Passes
  <1>6. Counted(total)
    BY <1>1, <1>3 DEF Counted, Returned, Pages
  <1>7. \A i \in Nat : Has(Pass, i) <=> i < Pass.total.hunks /\ InPage(i)
    BY <1>3, <1>4, <1>5 DEF Has
  <1>8. PassOk(Pass)
    BY <1>3, <1>4, <1>5, <1>6, <1>7 DEF PassOk, HunkOk
  <1> QED BY <1>1, <1>2, <1>8 DEF DiffInv

LEMMA DiffKept == DiffSpec => []DiffInv
  <1>1. DiffInv /\ [DiffNext]_diffVars => DiffInv'
    <2> SUFFICES ASSUME DiffInv, [DiffNext]_diffVars PROVE DiffInv'
      OBVIOUS
    <2>1. CASE UNCHANGED diffVars
      <3>1. Becomes(Pass) /\ UNCHANGED <<page, passed, truth>>
        BY <2>1 DEF diffVars, Becomes, Pass
      <3>2. PassOk(Pass)'
        BY <3>1, Carried DEF DiffInv
      <3> QED BY <2>1, <3>2 DEF diffVars, DiffInv, LinesAreCounted, Ended
    <2> QED BY <2>1, LineStep, EndStep DEF DiffNext
  <1> QED BY <1>1, DiffStart, PTL DEF DiffSpec

\* Whatever the page is, the added lines that are counted are all but those
\* whose text begins with "++", and the removed lines all but those whose text
\* begins with "--".
THEOREM EveryLineIsCounted == DiffSpec => []LinesAreCounted
  <1>1. DiffInv => LinesAreCounted
    BY DEF DiffInv
  <1> QED BY <1>1, DiffKept, PTL

\* The rows are those of the hunks of the page, for every page.
THEOREM RowsAreThoseOfThePage == DiffSpec => []RowsFollowPage
  <1>1. DiffInv => RowsFollowPage
    BY DEF DiffInv, PassOk, FileOk, Pass, RowsFollowPage, Entries
  <1> QED BY <1>1, DiffKept, PTL

LEMMA PageSize ==
    ASSUME DiffInv
    PROVE  total.returned = Cardinality(OnPage)
  <1> DEFINE n == total.hunks
             m == IF n < page.offset + page.limit THEN n ELSE page.offset + page.limit
  <1>1. /\ page.offset \in Nat /\ page.limit \in Nat /\ n \in Nat
        /\ total.returned = Returned(n)
    BY DEF DiffInv, Pages, PassOk, Passes, Totals, Counted, Pass
  <1>2. OnPage = page.offset..(m - 1)
    BY <1>1 DEF OnPage
  <1>3. page.offset \in Int /\ m - 1 \in Int
    BY <1>1
  <1>4. Cardinality(OnPage) = IF page.offset > m - 1 THEN 0 ELSE (m - 1) - page.offset + 1
    <2> HIDE DEF m
    <2> QED BY <1>2, <1>3, FS_Interval
  <1> QED BY <1>1, <1>4 DEF Returned

\* The page is exact for every offset, limit and diff: pages that follow each
\* other at nextHunkOffset return every hunk once.
THEOREM PagesMeet == DiffSpec => []PageIsExact
  <1>1. ASSUME DiffInv PROVE PageIsExact
    <2>1. /\ PassOk(Pass) /\ page.offset \in Nat /\ page.limit \in Nat /\ total.hunks \in Nat
          /\ total.truncated \in BOOLEAN /\ total.returned = Returned(total.hunks)
          /\ total.truncated <=> page.offset + page.limit < total.hunks
          /\ Pass.listed = listed /\ Pass.file = file /\ Pass.total = total
          /\ listed \in Seq(FileRecords) /\ file \in FileRecords
      BY <1>1 DEF DiffInv, Pages, PassOk, Passes, Totals, Counted, Pass
    <2>2. UNION {f.hunks : f \in Entries} = OnPage
      <3>1. ASSUME NEW i \in UNION {f.hunks : f \in Entries} PROVE i \in OnPage
        <4>1. PICK f \in Entries : i \in f.hunks
          OBVIOUS
        <4>2. f \in FileRecords
          BY <2>1, <4>1 DEF Entries
        <4>2a. i \in Nat
          BY <4>1, <4>2 DEF FileRecords
        <4>3. Has(Pass, i)
          BY <2>1, <4>1 DEF Entries, Has
        <4>4. i < total.hunks /\ InPage(i)
          BY <2>1, <4>2a, <4>3 DEF PassOk
        <4>5. i \in 0..(total.hunks - 1)
          BY <2>1, <4>2a, <4>4
        <4> QED BY <4>4, <4>5 DEF InPage, OnPage
      <3>2. ASSUME NEW i \in OnPage PROVE i \in UNION {f.hunks : f \in Entries}
        <4>1. i \in Nat /\ i < total.hunks /\ InPage(i)
          BY <2>1 DEF OnPage, InPage
        <4>2. Has(Pass, i)
          BY <2>1, <4>1 DEF PassOk
        <4> QED BY <2>1, <4>2 DEF Has, Entries
      <3> QED BY <3>1, <3>2
    <2>3. \A f \in Entries : f.before + Cardinality(f.hunks) + f.after = f.count
      BY <2>1 DEF PassOk, FileOk, Entries
    <2>4. total.truncated = (page.offset + total.returned < total.hunks)
      BY <2>1 DEF Returned
    <2> QED BY <1>1, <2>2, <2>3, <2>4, PageSize DEF PageIsExact
  <1> QED BY <1>1, DiffKept, PTL

-----------------------------------------------------------------------------
(* The files.                                                              *)

\* The files that are counted, and the one that is open.
Files(s) == s.total.files + (IF s.file.open THEN 1 ELSE 0)

\* The open file of a pass has a name.
NamedOk(s) == s.file.open => s.file.named

LEMMA FinishHunkFiles ==
    ASSUME page \in Pages, NEW s, PassOk(s)
    PROVE  LET t == FinishHunk(s) IN
           /\ t.total.files = s.total.files
           /\ t.file.open = s.file.open /\ t.file.named = s.file.named
  <1>0. s.total \in Totals /\ s.file \in FileRecords
    BY DEF PassOk, Passes
  <1>1. CASE ~s.hunk.open
    BY <1>1 DEF FinishHunk
  <1>2. CASE s.hunk.open
    <2> DEFINE c == Totalled(s.total, s.hunk, Place(s))
               g == Filed(s.file, s.total.hunks, s.hunk, Place(s))
    <2>1. FinishHunk(s) = [total |-> c, listed |-> s.listed, file |-> g, hunk |-> NoHunk]
      BY <1>2 DEF FinishHunk
    <2>2. c.files = s.total.files
      BY <1>0 DEF Totalled, Totals
    <2>3. g.open = s.file.open /\ g.named = s.file.named
      BY <1>0 DEF Filed, FileRecords
    <2> HIDE DEF c, g
    <2> QED BY <2>1, <2>2, <2>3
  <1> QED BY <1>1, <1>2

\* The open file, which is named, is counted.
LEMMA FinishFileFiles ==
    ASSUME page \in Pages, NEW s, PassOk(s), NamedOk(s)
    PROVE  LET t == FinishFile(s) IN t.total.files = Files(s) /\ ~t.file.open
  <1>0. s.total.files \in Nat
    BY DEF PassOk, Passes, Totals
  <1>1. CASE ~s.file.open
    BY <1>0, <1>1 DEF FinishFile, Files
  <1>2. CASE s.file.open
    <2> DEFINE u == FinishHunk(s)
               c == [u.total EXCEPT !.files = @ + 1]
               list == Listed(u.listed, u.file)
    <2>1. u.total.files = s.total.files /\ u.file.named /\ u.total \in Totals
      <3>1. PassOk(u)
        BY FinishHunkKeeps
      <3>2. u.total.files = s.total.files /\ u.file.named = s.file.named
        BY FinishHunkFiles
      <3> HIDE DEF u
      <3> QED BY <1>2, <3>1, <3>2 DEF NamedOk, PassOk, Passes
    <2>2. Evidence(u.file)
      BY <2>1 DEF Evidence
    <2>3. FinishFile(s) = [total |-> [u.total EXCEPT !.files = @ + (IF Evidence(u.file) THEN 1 ELSE 0)],
                           listed |-> list, file |-> NoFile, hunk |-> u.hunk]
      BY <1>2 DEF FinishFile
    <2> HIDE DEF u, list
    <2>4. FinishFile(s) = [total |-> c, listed |-> list, file |-> NoFile, hunk |-> u.hunk]
      BY <2>2, <2>3
    <2>5. c.files = s.total.files + 1
      BY <2>1 DEF Totals
    <2>6. ~NoFile.open
      BY DEF NoFile
    <2> HIDE DEF c
    <2> QED BY <1>2, <2>4, <2>5, <2>6 DEF Files
  <1> QED BY <1>1, <1>2

\* A line that opens a file, unless one is open, and names it.
LEMMA NamedFiles ==
    ASSUME NEW s, s \in Passes
    PROVE  LET t == Named(EnsureFile(s)) IN
           t.total = s.total /\ t.file.open /\ t.file.named
  <1> DEFINE f == IF s.file.open THEN s.file ELSE [NoFile EXCEPT !.open = TRUE]
             g == [f EXCEPT !.named = TRUE]
             u == EnsureFile(s)
  <1>1. f \in FileRecords /\ f.open
    BY DEF NoFile, FileRecords, Passes
  <1>2. u \in Passes /\ u.total = s.total /\ u.file = f
    BY <1>1 DEF EnsureFile, Passes
  <1> HIDE DEF f
  <1>3. g \in FileRecords /\ g.open /\ g.named
    BY <1>1 DEF FileRecords
  <1> HIDE DEF u
  <1>4. Named(u) = [u EXCEPT !.file = g]
    BY <1>2 DEF Named, Passes
  <1> HIDE DEF g
  <1>5. Named(u).total = s.total /\ Named(u).file = g
    BY <1>2, <1>4 DEF Passes
  <1> QED BY <1>3, <1>5 DEF u

\* A file is open from its first line on, and counted when the next begins.
FilesInv ==
    /\ FilesAreCounted
    /\ ~Ended =>
         /\ file.open <=> truth.at # "text"
         /\ NamedOk(Pass)
         /\ ~truth.plain => Files(Pass) = truth.files

\* What Told makes of the files.
LEMMA ToldFiles ==
    ASSUME truth \in Truths, NEW line \in LineKind
    PROVE  /\ Told(line).plain <=> truth.plain \/ (line = "old" /\ truth.at # "names")
           /\ Told(line).files =
                truth.files + (IF line = "git" \/ (line = "old" /\ truth.at # "names")
                               THEN 1 ELSE 0)
  BY DEF Told

LEMMA LineFiles ==
    ASSUME DiffInv, FilesInv, NEW line \in LineKind, ReadLine(line)
    PROVE  FilesInv'
  <1> DEFINE s == Pass
  <1>1. /\ page \in Pages /\ PassOk(s) /\ s \in Passes /\ truth \in Truths
        /\ passed \in Nat /\ MaxLines \in Nat
        /\ truth' = Told(line) /\ passed' = passed + 1 /\ passed < MaxLines
    BY DiffAssumption DEF DiffInv, ReadLine, PassOk
  <1>2. ~Ended /\ ~Ended'
    BY <1>1 DEF Ended
  <1>3. /\ s.total = total /\ s.file = file
        /\ file.open <=> truth.at # "text"
        /\ NamedOk(s)
        /\ ~truth.plain => Files(s) = truth.files
        /\ truth.files \in Nat /\ total.files \in Nat
    BY <1>1, <1>2 DEF FilesInv, Pass, Truths, Passes, Totals
  <1>4. ASSUME file'.open <=> truth'.at # "text", file'.open => file'.named,
               ~truth'.plain => total'.files + (IF file'.open THEN 1 ELSE 0) = truth'.files
        PROVE  FilesInv'
    BY <1>2, <1>4 DEF FilesInv, FilesAreCounted, NamedOk, Files, Pass
  <1>5. ~truth.plain => total.files + (IF file.open THEN 1 ELSE 0) = truth.files
    BY <1>3 DEF Files
  <1>6. file.open => file.named
    BY <1>3 DEF NamedOk
  <1>7. Follows(line)
    BY DEF ReadLine
  <1> HIDE DEF s
  <1>8. CASE line = "git"
    <2> DEFINE t == FinishFile(s)
               v == Named(EnsureFile(t))
    <2>1. total' = v.total /\ file' = v.file
      BY <1>8 DEF ReadLine, LooksLike, GitLine, Becomes, s
    <2>2. t.total.files = Files(s) /\ t \in Passes
      BY <1>1, <1>3, FinishFileFiles, FinishFileKeeps DEF PassOk
    <2> HIDE DEF t
    <2>3. v.total = t.total /\ v.file.open /\ v.file.named
      BY <2>2, NamedFiles
    <2>4. /\ truth'.at = "names" /\ truth'.files = truth.files + 1
          /\ truth'.plain <=> truth.plain
      BY <1>1, <1>8, ToldFields, ToldFiles
    <2> HIDE DEF v
    <2> QED BY <1>3, <1>4, <2>1, <2>2, <2>3, <2>4
  <1>9. CASE line \in {"old", "new", "dashes", "pluses"}
    <2> DEFINE v == Named(EnsureFile(s))
    <2>1. total' = v.total /\ file' = v.file
      BY <1>9 DEF ReadLine, LooksLike, PathLine, Becomes, s
    <2>2. v.total = s.total /\ v.file.open /\ v.file.named
      BY <1>1, NamedFiles
    <2>3. truth'.at # "text" /\ (line # "old" => truth.at # "text")
      BY <1>1, <1>7, <1>9, ToldFields DEF Follows
    <2>4. ~truth'.plain => truth.at # "text" /\ truth'.files = truth.files /\ ~truth.plain
      BY <1>1, <1>3, <1>9, <2>3, ToldFiles
    <2> HIDE DEF v
    <2> QED BY <1>3, <1>4, <1>5, <2>1, <2>2, <2>3, <2>4
  <1>10. CASE line = "header"
    <2>1. file.open /\ truth'.at = "hunk"
      BY <1>1, <1>3, <1>7, <1>10, ToldFields DEF Follows
    <2>2. EnsureFile(s) = s
      BY <1>3, <2>1 DEF EnsureFile
    <2> DEFINE u == FinishHunk(s)
    <2>3. u.total.files = total.files /\ u.file.open /\ u.file.named /\ u \in Passes
      <3>1. u \in Passes
        BY <1>1, FinishHunkKeeps DEF PassOk
      <3>2. u.total.files = s.total.files /\ u.file.open = s.file.open
            /\ u.file.named = s.file.named
        BY <1>1, FinishHunkFiles
      <3> HIDE DEF u
      <3> QED BY <1>3, <1>6, <2>1, <3>1, <3>2
    <2>4. total' = u.total /\ file' = u.file
      <3>1. HunkHeader
        BY <1>10 DEF ReadLine, LooksLike
      <3> DEFINE k == page.includeLines /\ page.offset <= u.total.hunks
                      /\ u.total.hunks < page.offset + page.limit
                 h == [NoHunk EXCEPT !.open = TRUE, !.collect = k]
      <3>2. Becomes([u EXCEPT !.hunk = h])
        BY <2>2, <3>1 DEF HunkHeader, s
      <3> HIDE DEF u, h
      <3> QED BY <2>3, <3>2 DEF Becomes, Passes
    <2>5. truth'.files = truth.files /\ (truth'.plain <=> truth.plain)
      BY <1>1, <1>3, <1>10, ToldFiles
    <2> HIDE DEF u
    <2> QED BY <1>4, <1>5, <2>1, <2>3, <2>4, <2>5
  <1>11. CASE line \in {"add", "remove", "context", "meta", "hyphens", "increments"}
    <2>1. UNCHANGED <<total, file>>
      BY <1>11 DEF ReadLine, LooksLike, BodyLine
    <2>2. truth'.files = truth.files /\ (truth'.plain <=> truth.plain) /\ truth'.at = truth.at
      BY <1>1, <1>3, <1>11, ToldFiles, ToldFields
    <2> QED BY <1>3, <1>4, <1>5, <1>6, <2>1, <2>2
  <1> QED BY <1>8, <1>9, <1>10, <1>11 DEF LineKind, AddedLine, RemovedLine

\* With a git line before every file, each file is counted once, whatever the
\* lines of its hunks look like.
THEOREM FilesAreCountedOnce == DiffSpec => []FilesAreCounted
  <1>1. DiffInit => FilesInv
    BY DiffAssumption DEF DiffInit, FilesInv, FilesAreCounted, Ended, Files, NamedOk, Pass, NoFile
  <1>2. DiffInv /\ FilesInv /\ [DiffNext]_diffVars => FilesInv'
    <2> SUFFICES ASSUME DiffInv, FilesInv, [DiffNext]_diffVars PROVE FilesInv'
      OBVIOUS
    <2>1. CASE EndOfDiff
      <3>1. page \in Pages /\ PassOk(Pass) /\ NamedOk(Pass) /\ ~Ended /\ truth' = truth
            /\ total' = FinishFile(Pass).total /\ passed' = MaxLines + 1
        BY <2>1 DEF EndOfDiff, DiffInv, FilesInv, Becomes
      <3>2. total'.files = Files(Pass)
        BY <3>1, FinishFileFiles
      <3> QED BY <3>1, <3>2 DEF FilesInv, FilesAreCounted, Ended
    <2>2. CASE UNCHANGED diffVars
      BY <2>2 DEF diffVars, FilesInv, FilesAreCounted, Ended, NamedOk, Files, Pass
    <2> QED BY <2>1, <2>2, LineFiles DEF DiffNext
  <1>3. FilesInv => FilesAreCounted
    BY DEF FilesInv
  <1> QED BY <1>1, <1>2, <1>3, DiffKept, PTL DEF DiffSpec
=============================================================================
