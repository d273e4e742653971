------------------------------ MODULE FileReads -------------------------------
(***************************************************************************)
(* Reading files: Service.Read (filesystem/read.go), the file tool's read  *)
(* and read_many that cut its answers to the model's budget                *)
(* (fstools/mcp_file.go), and ReadFilesInRepo (fileops/safe_edit.go).      *)
(*                                                                         *)
(* One client works through a list of paths: page by page, following the   *)
(* next_offset of each answer ("page"), or with one call for them all      *)
(* ("batch" for read_many, "repo" for ReadFilesInRepo). A file is looked   *)
(* at twice, by Stat and by Open, and may change in between.               *)
(*                                                                         *)
(* A page is a range of units, lines of a text or bytes of a binary file.  *)
(***************************************************************************)
EXTENDS FileTree

CONSTANTS
  ReadLines, ReadBytes,   \* filesystem.Limits
  Headroom,         \* fitMCPRead's truncationHeadroom
  Reserve,          \* what read_many keeps free, and needs to go on
  RepoFileBytes, RepoTotalBytes,   \* maxReadFileBytes, maxReadFilesTotalBytes
  MaxPaths          \* maxReadManyFiles, maxReadFilesPaths

ASSUME ReadAssumption ==
  /\ {ReadLines, ReadBytes} \subseteq Nat \ {0}
  /\ {Headroom, Reserve, RepoFileBytes, RepoTotalBytes, MaxPaths} \subseteq Nat
  /\ Meta <= Headroom

VARIABLES
  mode,     \* "off", "page", "batch" or "repo"
  paths,    \* the paths still to be read, first to last
  limit,    \* the line limit in force
  offset,   \* the offset of the request
  step,     \* "stat" or "open" of the first path; "end"
  info,     \* the size Stat reported
  pages,    \* the answers: a page, or why a file has none
  outcome   \* "going", "done", "failed" or "stalled"

readVars == <<mode, paths, limit, offset, step, info, pages, outcome>>

Units(c) == IF c.binary THEN SizeOf(c) ELSE Len(c.lines)

\* The greatest e in lo..hi for which Ok holds of every number up to it.
Greatest(lo, hi, Ok(_)) == Max({e \in lo..hi : e = lo \/ Ok(e)})

-----------------------------------------------------------------------------
(* Service.Read, once it has the bytes. *)

LineWindow(c, first, lines) ==
  LET Used(e) == SumFunction([i \in first..e |-> c.lines[i].w + IF i > first THEN 1 ELSE 0])
      Fits(e) == e - first + 1 <= lines /\ Used(e) <= ReadBytes
  IN Greatest(first - 1, Len(c.lines), Fits)

\* Faulty form: the page after a full one skips the line that did not fit.
PageSkips(c, first, lines) ==
  LET end == LineWindow(c, first, lines)
      more == end < Len(c.lines)
  IN [path |-> 0, of |-> c, from |-> first, to |-> end,
      next |-> IF more THEN end + 2 ELSE 0, truncated |-> more]

Page(c, first, lines) ==
  LET size == Units(c)
      start == IF first - 1 > size THEN size + 1 ELSE first
      end == IF first > size THEN start - 1
             ELSE IF c.binary THEN Min({start - 1 + ReadBytes, size})
             ELSE LineWindow(c, first, lines)
      more == end < size
  IN [path |-> 0, of |-> c, from |-> start, to |-> end,
      next |-> IF more THEN end + 1 ELSE 0, truncated |-> more]

-----------------------------------------------------------------------------
(* Cutting a page to a budget. *)

\* jsonSize: a text is encoded twice, as content and as lines; bytes as base64.
JsonSize(page, to, cut) ==
  Envelope + (IF cut THEN Meta ELSE 0) +
    IF page.of.binary THEN 4 * ((to - page.from + 3) \div 3)
    ELSE SumFunction([i \in page.from..to |-> 2 * page.of.lines[i].w + 1])

\* The end of what is left: lines go one by one, bytes by three quarters of the
\* excess and one, until the rest fits or nothing is left.
FitEnd(page, budget) ==
  LET Fits(e) == JsonSize(page, e, page.truncated) <= budget
      Shrink[e \in (page.from - 1)..page.to] ==
        IF Fits(e) \/ e = page.from - 1 THEN e
        ELSE LET over == JsonSize(page, e, page.truncated) - budget
                 remove == Min({(over * 3) \div 4 + 1, e - page.from + 1})
             IN Shrink[e - remove]
  IN IF page.of.binary THEN Shrink[page.to] ELSE Greatest(page.from - 1, page.to, Fits)

\* Faulty form: no room is kept for the metadata of the truncation.
FitWithoutHeadroom(page, budget) ==
  LET end == FitEnd(page, budget)
      over == JsonSize(page, page.to, page.truncated) > budget
  IN [page EXCEPT !.to = end, !.next = IF end < page.to THEN end + 1 ELSE @,
                  !.truncated = @ \/ over]

\* fitMCPRead.
Fit(page, budget) ==
  LET room == IF budget > Headroom THEN budget - Headroom ELSE budget
      end == FitEnd(page, room)
      over == JsonSize(page, page.to, page.truncated) > room
  IN [page EXCEPT !.to = end, !.next = IF end < page.to THEN end + 1 ELSE @,
                  !.truncated = @ \/ over]

PageBytes(page) == JsonSize(page, page.to, page.truncated)

-----------------------------------------------------------------------------
(* The calls. *)

\* validateMCPFileInput and requestInt: a limit may lower the cap, and 0 leaves
\* it; a path may be named twice.
ReadsInit(m) ==
  /\ mode = m
  /\ paths \in UNION {[1..n -> Files] : n \in IF m = "page" THEN {1} ELSE 1..MaxPaths}
  /\ limit \in IF m = "repo" THEN {0} ELSE 1..ReadLines
  /\ offset = 1
  /\ step = "stat"
  /\ info = 0
  /\ pages = <<>>
  /\ outcome = "going"

ReadsOff ==
  /\ mode = "off" /\ paths = <<>> /\ limit = 0 /\ offset = 1
  /\ step = "end" /\ info = 0 /\ pages = <<>> /\ outcome = "done"

Reading(m, at) == mode = m /\ outcome = "going" /\ step = at /\ paths # <<>>

Fail == outcome' = "failed" /\ step' = "end"
        /\ UNCHANGED <<mode, paths, limit, offset, info, pages>>

\* Stat of Service.Read: a missing or too large file ends the call.
ReadStat ==
  /\ mode \in {"page", "batch"} /\ outcome = "going" /\ step = "stat"
  /\ IF ~Exists(paths[1]) \/ NodeSize(paths[1]) > WholeFileBytes THEN Fail
     ELSE /\ info' = NodeSize(paths[1])
          /\ step' = "open"
          /\ UNCHANGED <<mode, paths, limit, offset, pages, outcome>>

\* Open and ReadAll: the file may have gone or outgrown the cap meanwhile.
Unreadable(n) == content[n] = NoFile \/ SizeOf(content[n]) > WholeFileBytes

ReadFailsLate ==
  /\ mode \in {"page", "batch"} /\ outcome = "going" /\ step = "open"
  /\ Unreadable(paths[1])
  /\ Fail

Got(page) == [page EXCEPT !.path = paths[1]]

\* mcpRead: the client goes on from next_offset while that is ahead of it.
ReadPage ==
  /\ Reading("page", "open")
  /\ ~Unreadable(paths[1])
  /\ LET page == Fit(Got(Page(content[paths[1]], offset, limit)), ModelBytes)
     IN /\ pages' = Append(pages, page)
        /\ IF page.next = 0 THEN outcome' = "done" /\ step' = "end" /\ UNCHANGED offset
           ELSE IF page.next <= offset THEN outcome' = "stalled" /\ step' = "end" /\ UNCHANGED offset
           ELSE offset' = page.next /\ step' = "stat" /\ UNCHANGED outcome
  /\ UNCHANGED <<mode, paths, limit, info>>

Total(answers) == Envelope + SumFunction([i \in DOMAIN answers |-> PageBytes(answers[i])])

\* mcpReadMany: the files that fit in what is left of the budget, in order; the
\* first that does not ends the answer.
BatchPage ==
  /\ Reading("batch", "open")
  /\ ~Unreadable(paths[1])
  /\ LET payload == IF ModelBytes > Reserve THEN ModelBytes - Reserve ELSE 0
         left == IF payload > Total(pages) THEN payload - Total(pages) ELSE 0
         page == Fit(Got(Page(content[paths[1]], offset, limit)), left)
         enough == left >= Reserve /\ Total(Append(pages, page)) <= payload
         last == ~enough \/ Len(paths) = 1
     IN /\ pages' = IF enough THEN Append(pages, page) ELSE pages
        /\ paths' = IF enough THEN Tail(paths) ELSE paths
        /\ step' = IF last THEN "end" ELSE "stat"
        /\ outcome' = IF last THEN "done" ELSE "going"
  /\ UNCHANGED <<mode, limit, offset, info>>

-----------------------------------------------------------------------------
(* ReadFilesInRepo: each path gets an entry, whatever becomes of the others. *)

Entry(why, size) == [path |-> paths[1], why |-> why, size |-> size]

RepoTotal(answers) ==
  SumFunction([i \in {j \in DOMAIN answers : answers[j].why = "read"} |-> answers[i].size])

Answered(entry) ==
  /\ pages' = Append(pages, entry)
  /\ paths' = Tail(paths)
  /\ step' = IF Len(paths) = 1 THEN "end" ELSE "stat"
  /\ outcome' = IF Len(paths) = 1 THEN "done" ELSE "going"
  /\ UNCHANGED <<mode, limit, offset, info>>

RepoStat ==
  /\ Reading("repo", "stat")
  /\ IF ~Exists(paths[1]) THEN Answered(Entry("missing", 0))
     ELSE IF NodeSize(paths[1]) > RepoFileBytes THEN Answered(Entry("oversized", NodeSize(paths[1])))
     ELSE /\ info' = NodeSize(paths[1])
          /\ step' = "open"
          /\ UNCHANGED <<mode, paths, limit, offset, pages, outcome>>

\* Faulty form: the size that Stat reported is charged to the total.
RepoReadStale ==
  /\ Reading("repo", "open")
  /\ Answered(IF ~Exists(paths[1]) THEN Entry("error", 0)
              ELSE IF RepoTotal(pages) + info > RepoTotalBytes THEN Entry("total", info)
              ELSE Entry("read", NodeSize(paths[1])))

\* The size counted is that of the bytes read.
RepoRead ==
  /\ Reading("repo", "open")
  /\ LET size == NodeSize(paths[1])
     IN Answered(IF ~Exists(paths[1]) THEN Entry("error", 0)
                 ELSE IF size > RepoFileBytes THEN Entry("oversized", size)
                 ELSE IF RepoTotal(pages) + size > RepoTotalBytes THEN Entry("total", size)
                 ELSE Entry("read", size))

\* The context of the call ends.
ReadCancelled ==
  /\ mode \in {"page", "batch"} /\ outcome = "going"
  /\ Fail

ReadsNext ==
  /\ \/ ReadStat \/ ReadFailsLate \/ ReadPage \/ BatchPage
     \/ RepoStat \/ RepoRead \/ ReadCancelled
  /\ UNCHANGED treeVars

-----------------------------------------------------------------------------
(* Properties. *)

\* A client that follows next_offset while the digest of the file stays the
\* same has seen each unit of that content once and in order, and all of them
\* when it is told that there is no more, even if the file was changed and
\* changed back between two pages (Read, fitMCPRead).
PagesCompose ==
  mode = "page" /\ pages # <<>> /\ (\A i \in DOMAIN pages : pages[i].of = pages[1].of) =>
    /\ pages[1].from = 1
    /\ \A i \in 2..Len(pages) : pages[i].from = pages[i - 1].to + 1
    /\ \A i \in DOMAIN pages :
         pages[i].to < Units(pages[i].of) =>
           pages[i].truncated /\ pages[i].next = pages[i].to + 1
    /\ outcome = "done" => Last(pages).to = Units(pages[1].of)

\* An answer fits the budget unless it is empty of lines, and the client stalls,
\* or is sent back, only at a line that alone exceeds a budget; with read_many
\* the answers together fit what is left after the reserve (fitMCPRead).
PagesFit ==
  /\ mode = "page" =>
       /\ \A i \in DOMAIN pages :
            PageBytes(pages[i]) <= ModelBytes \/ pages[i].to < pages[i].from
       /\ outcome = "stalled" =>
            LET page == Last(pages)
            IN \/ page.of.binary
               \/ page.of.lines[page.from].w > ReadBytes
               \/ Envelope + Meta + 2 * page.of.lines[page.from].w + 1 + Headroom > ModelBytes
  /\ mode = "batch" => pages = <<>> \/ Total(pages) + Reserve <= ModelBytes

\* ReadFilesInRepo gives every path one entry in the order asked for, never
\* returns more than its total, and leaves out a file nobody touched only if
\* the file, or the file with those before it, is over a limit
\* (readFileContentInRepoLimited, which looks at a file twice).
RepoReadAccounts ==
  mode = "repo" =>
    /\ RepoTotal(pages) <= RepoTotalBytes
    /\ outcome = "done" => paths = <<>>
    /\ \A i \in DOMAIN pages :
         LET n == pages[i].path
             before == RepoTotal(SubSeq(pages, 1, i - 1))
         IN n \notin touched => CASE pages[i].why = "read" -> pages[i].size = NodeSize(n)
                                  [] pages[i].why = "missing" -> content[n] = NoFile
                                  [] pages[i].why = "oversized" -> NodeSize(n) > RepoFileBytes
                                  [] pages[i].why = "total" -> before + NodeSize(n) > RepoTotalBytes
                                  [] OTHER -> FALSE
=============================================================================
