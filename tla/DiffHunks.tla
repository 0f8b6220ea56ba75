----------------------------- MODULE DiffHunks ------------------------------
(***************************************************************************)
(* parse_unified_diff_hunks of scripts/agent_tooling.py, the offline       *)
(* mirror of the diff.hunks method: one pass over the lines of a diff that *)
(* counts everything and returns one page of its hunks, by file, with the  *)
(* rows of a hunk only when the hunk is on the page.                       *)
(*                                                                         *)
(* A line is what it is in the diff; the parser sees how it begins.  Texts *)
(* and paths are left out.                                                 *)
(***************************************************************************)
EXTENDS Naturals, FiniteSets, Sequences

CONSTANTS
    MaxHunks, HunkOffset, MaxRows,  \* what the arguments may be
    DefaultHunks, HunkCap,          \* 500 and 5000 in the code
    DefaultRows, RowCap,            \* 200 and 1000
    MaxLines                        \* bound of the model on the diff

ASSUME DiffAssumption ==
    /\ MaxHunks \subseteq Nat /\ HunkOffset \subseteq Nat /\ MaxRows \subseteq Nat
    /\ {DefaultHunks, HunkCap, DefaultRows, RowCap} \subseteq Nat \ {0}
    /\ MaxLines \in Nat

VARIABLES
    page,    \* the arguments, as the parser clamps them
    total,   \* what is counted over the whole diff
    listed,  \* the files of the answer
    file,    \* current_file with its counters
    hunk,    \* current_hunk with its counters
    passed,  \* lines read so far, "end" included
    truth    \* history: what the lines really were

diffVars == <<page, total, listed, file, hunk, passed, truth>>

-----------------------------------------------------------------------------
\* What a line of a diff can be.  "dashes" is a removed line whose text begins
\* with "-- ", a comment of SQL or Lua, and "hyphens" one whose text begins with
\* "--" and goes on otherwise; "pluses" and "increments" ("++i;") are added
\* lines of the same kinds.
RemovedLine == {"remove", "dashes", "hyphens"}
AddedLine == {"add", "pluses", "increments"}
LineKind == {"git", "old", "new", "header", "context", "meta"} \cup RemovedLine \cup AddedLine

\* The test of the parser that the line meets first: with its sign, a text that
\* begins with "-- " or "++ " makes a path line, and any other text that begins
\* with "--" or "++" a line of no kind.
LooksLike(line) ==
    CASE line = "dashes" -> "old"
      [] line = "pluses" -> "new"
      [] line \in {"hyphens", "increments"} -> "meta"
      [] OTHER -> line

Clamp(n, default, cap) == IF n = 0 THEN default ELSE IF n > cap THEN cap ELSE n

NoHunk == [open |-> FALSE, collect |-> FALSE, added |-> 0, removed |-> 0,
           context |-> 0, rows |-> 0, kept |-> 0]

NoFile == [open |-> FALSE, named |-> FALSE, hunks |-> {}, rows |-> {}, count |-> 0,
           before |-> 0, after |-> 0, added |-> 0, removed |-> 0]

DiffInit ==
    /\ \E h \in MaxHunks, o \in HunkOffset, r \in MaxRows, i \in BOOLEAN :
         page = [limit |-> Clamp(h, DefaultHunks, HunkCap), offset |-> o,
                 rows |-> Clamp(r, DefaultRows, RowCap), includeLines |-> i]
    /\ total = [files |-> 0, hunks |-> 0, returned |-> 0,
                added |-> 0, removed |-> 0, truncated |-> FALSE]
    /\ listed = <<>>
    /\ file = NoFile
    /\ hunk = NoHunk
    /\ passed = 0
    /\ truth = [at |-> "text", files |-> 0, plain |-> FALSE,
                added |-> 0, removed |-> 0, plusPlus |-> 0, minusMinus |-> 0]

-----------------------------------------------------------------------------
(* The state of the pass as one record, for the steps that follow each     *)
(* other within one line.                                                  *)

Pass == [total |-> total, listed |-> listed, file |-> file, hunk |-> hunk]

Becomes(s) ==
    /\ total' = s.total /\ listed' = s.listed
    /\ file' = s.file /\ hunk' = s.hunk

EnsureFile(s) == IF s.file.open THEN s ELSE [s EXCEPT !.file = [NoFile EXCEPT !.open = TRUE]]

\* Mutant: the page is full one hunk late.
PlaceLate(s) ==
    IF s.total.hunks < page.offset THEN "before"
    ELSE IF s.total.returned <= page.limit THEN "on" ELSE "after"

\* Where the hunk that ends now belongs: before, on or after the page.
Place(s) ==
    IF s.total.hunks < page.offset THEN "before"
    ELSE IF s.total.returned < page.limit THEN "on" ELSE "after"

\* The totals and the file, with the hunk that ends.
Totalled(counts, h, place) ==
    [counts EXCEPT
        !.hunks = @ + 1,
        !.returned = @ + (IF place = "on" THEN 1 ELSE 0),
        !.truncated = @ \/ place = "after",
        !.added = @ + h.added,
        !.removed = @ + h.removed]

Filed(f, index, h, place) ==
    [f EXCEPT
        !.count = @ + 1,
        !.added = @ + h.added,
        !.removed = @ + h.removed,
        !.before = @ + (IF place = "before" THEN 1 ELSE 0),
        !.after = @ + (IF place = "after" THEN 1 ELSE 0),
        !.hunks = IF place = "on" THEN @ \cup {index} ELSE @,
        !.rows = IF place = "on" /\ h.collect THEN @ \cup {index} ELSE @]

\* finish_hunk.
FinishHunk(s) ==
    IF ~s.hunk.open THEN s
    ELSE [total |-> Totalled(s.total, s.hunk, Place(s)), listed |-> s.listed,
          file |-> Filed(s.file, s.total.hunks, s.hunk, Place(s)), hunk |-> NoHunk]

\* A hunk without a file line is evidence of a file as well.
Evidence(f) == f.named \/ f.count > 0

\* A file all of whose hunks are off the page is not listed.
Listed(list, f) ==
    IF f.hunks # {} \/ (Evidence(f) /\ f.count = 0)
    THEN Append(list, [f EXCEPT !.open = FALSE]) ELSE list

\* Mutant: the counters of the file before are kept.
FinishFileKeepsCounts(s) ==
    LET t == FinishHunk(s)
        f == t.file
    IN  IF ~s.file.open THEN s
        ELSE [total |-> [t.total EXCEPT !.files = @ + (IF Evidence(f) THEN 1 ELSE 0)],
              listed |-> Listed(t.listed, f), hunk |-> t.hunk,
              file |-> [f EXCEPT !.open = FALSE, !.named = FALSE, !.hunks = {}]]

\* finish_file.
FinishFile(s) ==
    LET t == FinishHunk(s)
    IN  IF ~s.file.open THEN s
        ELSE [total |-> [t.total EXCEPT !.files = @ + (IF Evidence(t.file) THEN 1 ELSE 0)],
              listed |-> Listed(t.listed, t.file), file |-> NoFile, hunk |-> t.hunk]

Named(s) == [s EXCEPT !.file.named = TRUE]

-----------------------------------------------------------------------------
(* What a line does.                                                       *)

\* Mutant: the file before is not finished.
GitLineKeepsFile == Becomes(Named(EnsureFile(Pass)))

GitLine == Becomes(Named(EnsureFile(FinishFile(Pass))))

\* "--- " and "+++ " lines end neither the file nor the hunk.
PathLine == Becomes(Named(EnsureFile(Pass)))

\* Mutant: the index is taken before the hunk that ends here is counted.
HunkHeaderEarly ==
    LET s == FinishHunk(EnsureFile(Pass))
        collect == /\ page.includeLines
                   /\ page.offset <= total.hunks
                   /\ total.hunks < page.offset + page.limit
    IN  Becomes([s EXCEPT !.hunk = [NoHunk EXCEPT !.open = TRUE, !.collect = collect]])

\* Mutant: the hunk before is dropped.
HunkHeaderDrops ==
    LET s == EnsureFile(Pass)
        collect == /\ page.includeLines
                   /\ page.offset <= s.total.hunks
                   /\ s.total.hunks < page.offset + page.limit
    IN  Becomes([s EXCEPT !.hunk = [NoHunk EXCEPT !.open = TRUE, !.collect = collect]])

\* The header decides whether rows are collected, before the hunk is counted.
HunkHeader ==
    LET s == FinishHunk(EnsureFile(Pass))
        collect == /\ page.includeLines
                   /\ page.offset <= s.total.hunks
                   /\ s.total.hunks < page.offset + page.limit
    IN  Becomes([s EXCEPT !.hunk = [NoHunk EXCEPT !.open = TRUE, !.collect = collect]])

Collected(h) ==
    IF h.collect
    THEN [h EXCEPT !.rows = @ + 1, !.kept = @ + (IF h.kept < page.rows THEN 1 ELSE 0)]
    ELSE h

\* The lines of a hunk; before the first hunk they are skipped.
BodyLine(look) ==
    /\ hunk' = IF ~hunk.open THEN hunk
               ELSE Collected(
                 [hunk EXCEPT
                    !.added = @ + (IF look = "add" THEN 1 ELSE 0),
                    !.removed = @ + (IF look = "remove" THEN 1 ELSE 0),
                    !.context = @ + (IF look = "context" THEN 1 ELSE 0)])
    /\ UNCHANGED <<total, listed, file>>

\* What a diff may go on with: the lines of a hunk follow its header, a file
\* begins with a git line, or, in a plain diff, with its two paths.
Follows(line) ==
    CASE line \in {"git", "old"} -> TRUE
      [] line = "new" -> truth.at = "names"
      [] line = "header" -> truth.at # "text"
      [] line = "meta" -> TRUE
      [] OTHER -> truth.at = "hunk"

\* What the line is: a path line after a text or a hunk begins a file.
Told(line) ==
    LET plain == line = "old" /\ truth.at # "names"
    IN  [at |-> CASE line \in {"git", "old"} -> "names"
                  [] line = "header" -> "hunk"
                  [] OTHER -> truth.at,
         files |-> truth.files + (IF line = "git" \/ plain THEN 1 ELSE 0),
         plain |-> truth.plain \/ plain,
         added |-> truth.added + (IF line \in AddedLine THEN 1 ELSE 0),
         removed |-> truth.removed + (IF line \in RemovedLine THEN 1 ELSE 0),
         plusPlus |-> truth.plusPlus + (IF line \in {"pluses", "increments"} THEN 1 ELSE 0),
         minusMinus |-> truth.minusMinus + (IF line \in {"dashes", "hyphens"} THEN 1 ELSE 0)]

ReadLine(line) ==
    /\ passed < MaxLines
    /\ Follows(line)
    /\ CASE LooksLike(line) = "git" -> GitLine
         [] LooksLike(line) \in {"old", "new"} -> PathLine
         [] LooksLike(line) = "header" -> HunkHeader
         [] OTHER -> BodyLine(LooksLike(line))
    /\ passed' = passed + 1
    /\ truth' = Told(line)
    /\ UNCHANGED page

Ended == passed = MaxLines + 1

\* The last file is finished.
EndOfDiff ==
    /\ ~Ended
    /\ Becomes(FinishFile(Pass))
    /\ passed' = MaxLines + 1
    /\ UNCHANGED <<page, truth>>

DiffNext == (\E line \in LineKind : ReadLine(line)) \/ EndOfDiff

DiffSpec == DiffInit /\ [][DiffNext]_diffVars

-----------------------------------------------------------------------------
(* Properties.                                                             *)

OnPage == {i \in 0..(total.hunks - 1) :
             page.offset <= i /\ i < page.offset + page.limit}

\* The files of the answer, and the one that is being read.
Entries == {listed[i] : i \in DOMAIN listed} \cup {file}

\* The page is exact: its hunks are those from the offset on, as many as the
\* limit allows, every file accounts for the hunks that are missing, and
\* "truncated" says that there is a next page.  So pages that start at
\* nextHunkOffset meet without a gap (finish_hunk, finish_file).
PageIsExact ==
    /\ UNION {f.hunks : f \in Entries} = OnPage
    /\ \A f \in Entries : f.before + Cardinality(f.hunks) + f.after = f.count
    /\ total.returned = Cardinality(OnPage)
    /\ total.truncated = (page.offset + total.returned < total.hunks)

\* The decision to collect rows is made at the header of a hunk, the decision
\* to return the hunk at its end: they agree for every hunk (the hunk header
\* and finish_hunk).
RowsFollowPage ==
    \A f \in Entries : f.rows = IF page.includeLines THEN f.hunks ELSE {}

\* Each count is exact, on the page or off it, but for one kind of line: an
\* added line whose text begins with "++" is missing from the added lines, a
\* removed line whose text begins with "--" from the removed ones.  Nothing else
\* is lost, and none of those lines ends the hunk or is counted on the other
\* side (the hunk lines, finish_hunk).
LinesAreCounted ==
    /\ total.added + hunk.added = truth.added - truth.plusPlus
    /\ total.removed + hunk.removed = truth.removed - truth.minusMinus

\* With a git line before every file, each file is counted once (finish_file);
\* a plain diff of several files, like that of build_unified_diff, is taken
\* for one file.
FilesAreCounted == Ended /\ ~truth.plain => total.files = truth.files
=============================================================================
