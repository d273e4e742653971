------------------------------- MODULE FileWalk -------------------------------
(***************************************************************************)
(* Service.List, Service.Find and Service.Search over the bounded walk of  *)
(* filesystem/walk.go, with the cuts that the file tool makes to their     *)
(* answers (fstools/mcp_file.go).                                          *)
(*                                                                         *)
(* The recursion of walk is a flat list of what is still to do: a          *)
(* directory to open, an entry to look at, or the mark that a directory    *)
(* had more entries than were asked of it. Between two steps of the walk,  *)
(* and between the walk and the reading of a file, the tree may change.    *)
(***************************************************************************)
EXTENDS FileTree

CONSTANTS
  ScanFiles, ScanBytes, ListEntries, FindMatches, SearchMatches, SearchBytes,  \* filesystem.Limits
  PathBytes,     \* the bytes of a path in an answer
  IgnoreRules,   \* the rules a root .gitignore may hold, as sequences
  WalkDepths,    \* the max_depth of List
  ScanLimits     \* the scan_files of a request, none of them over ScanFiles

ASSUME WalkAssumption ==
  /\ {ScanFiles, ScanBytes, ListEntries, FindMatches, SearchMatches, SearchBytes, PathBytes}
       \subseteq Nat \ {0}
  /\ WalkDepths \subseteq Nat \ {0}
  /\ ScanLimits \subseteq 1..ScanFiles
  /\ \A rules \in IgnoreRules : \A i \in DOMAIN rules :
       /\ DOMAIN rules[i] = {"negate", "dirOnly", "direct"}
       /\ rules[i].direct \subseteq Nodes

VARIABLES
  request,  \* the call
  stage,    \* "off", "start", "walk", "search", "done" or "failed"
  walk,     \* walkState: todo, items, scanned, bytes, truncated
  found,    \* the entries or matches of the answer
  used,     \* the bytes of the matches
  skipped,  \* SkippedFiles
  cut,      \* Truncation.Truncated of the answer
  readIn    \* history: the bytes read from files

walkVars == <<request, stage, walk, found, used, skipped, cut, readIn>>

\* ignoreMatcher.ignored: a rule matches what it names and all below it, and the
\* last rule that matches decides; a rule for directories passes over a file
\* that it names itself.
Ignored(rules, n) ==
  LET Decides(rule) ==
        /\ Upto(n) \cap rule.direct # {}
        /\ ~(rule.dirOnly /\ n \notin Dirs /\ n \in rule.direct)
      last == SelectLastInSeq(rules, Decides)
  IN last # 0 /\ ~rules[last].negate

Regular(n) == n \in Files

-----------------------------------------------------------------------------
(* The walk. *)

Open(d, depth) == [op |-> "open", node |-> d, depth |-> depth]
EntryOf(n, depth) == [op |-> "entry", node |-> n, depth |-> depth]
More == [op |-> "more", node |-> 0, depth |-> 0]

\* The requests: requestInt lets one lower a limit, and a pattern may name a
\* directory that is passed over by default.
Requests ==
  {r \in [tool: {"list", "find", "search"}, start: {0} \cup Nodes,
          depth: WalkDepths \cup {Cardinality(Nodes)}, hidden: BOOLEAN, named: BOOLEAN,
          scan: ScanLimits, rules: IgnoreRules, context: {0, 1}, filter: BOOLEAN] :
     /\ r.tool = "list" => ~r.filter
     /\ r.tool = "find" => r.filter
     /\ r.tool # "list" => r.depth = Cardinality(Nodes)
     /\ r.tool # "search" => r.context = 0
     /\ r.named => r.filter}

WalkInit ==
  /\ request \in Requests
  /\ stage = "start"
  /\ walk = [todo |-> <<>>, items |-> <<>>, scanned |-> 0, bytes |-> 0, truncated |-> FALSE]
  /\ found = <<>> /\ used = 0 /\ skipped = 0 /\ cut = FALSE /\ readIn = 0

WalkOff ==
  /\ request = [tool |-> "none"] /\ stage = "off"
  /\ walk = [todo |-> <<>>, items |-> <<>>, scanned |-> 0, bytes |-> 0, truncated |-> FALSE]
  /\ found = <<>> /\ used = 0 /\ skipped = 0 /\ cut = FALSE /\ readIn = 0

Item(n) == [node |-> n, size |-> NodeSize(n)]

\* Whatever is left to do is dropped when a limit is met.
Stopped(w) == [w EXCEPT !.truncated = TRUE, !.todo = <<>>]

Walked(w) ==
  /\ walk' = w
  /\ stage' = "walk"
  /\ UNCHANGED <<request, found, used, skipped, cut, readIn>>

WalkFails ==
  /\ stage' = "failed"
  /\ UNCHANGED <<request, walk, found, used, skipped, cut, readIn>>

\* Lstat of the start: a missing one fails, what is not a directory is the only
\* item, and a link is not followed.
WalkStart ==
  /\ stage = "start"
  /\ LET n == request.start
     IN IF n \in Dirs THEN Walked([walk EXCEPT !.todo = <<Open(n, 0)>>])
        ELSE IF ~Exists(n) THEN WalkFails
        ELSE IF NodeSize(n) > ScanBytes THEN Walked(Stopped([walk EXCEPT !.scanned = 1]))
        ELSE Walked([walk EXCEPT !.scanned = 1, !.bytes = NodeSize(n), !.items = <<Item(n)>>])

Doing(op) == stage = "walk" /\ walk.todo # <<>> /\ Head(walk.todo).op = op

\* Faulty form: no more entries are asked for than may still be scanned.
OpenExactly ==
  /\ Doing("open")
  /\ LET here == Head(walk.todo)
         remaining == request.scan - walk.scanned
         all == Children(here.node)
     IN IF remaining < 1 THEN Walked(Stopped(walk))
        ELSE \E got \in kSubset(Min({remaining, Cardinality(all)}), all) :
               LET names == InNameOrder(got)
               IN Walked([walk EXCEPT
                    !.todo = [i \in DOMAIN names |-> EntryOf(names[i], here.depth + 1)] \o Tail(@)])

\* visit: one entry more than may still be scanned is asked for; the directory
\* yields its entries in an order of its own, and they are sorted afterwards.
OpenDirectory ==
  /\ Doing("open")
  /\ LET here == Head(walk.todo)
         remaining == request.scan - walk.scanned
         all == Children(here.node)
     IN IF remaining < 1 THEN Walked(Stopped(walk))
        ELSE \E got \in kSubset(Min({remaining + 1, Cardinality(all)}), all) :
               LET sorted == InNameOrder(got)
                   overflow == Len(sorted) > remaining
                   names == IF overflow THEN SubSeq(sorted, 1, remaining) ELSE sorted
               IN Walked([walk EXCEPT
                    !.todo = [i \in DOMAIN names |-> EntryOf(names[i], here.depth + 1)]
                             \o (IF overflow THEN <<More>> ELSE <<>>) \o Tail(@)])

\* explicitSkipAddress: the start or the pattern names a directory that is passed
\* over by default, and then none is.
Explicit == request.named \/ \E m \in Upto(request.start) \ {0} : Tree[m].skipped

Unlisted(n) ==
  \/ ~request.hidden /\ Tree[n].hidden
  \/ n \in Dirs /\ ~Explicit /\ Tree[n].skipped

\* The body of visit's loop; an ignored directory is not listed but walked.
VisitEntry ==
  /\ Doing("entry")
  /\ LET here == Head(walk.todo)
         n == here.node
         seen == [walk EXCEPT !.scanned = @ + 1]
         counted == [seen EXCEPT !.bytes = @ + NodeSize(n), !.todo = Tail(@)]
         listed == IF Ignored(request.rules, n) THEN counted
                   ELSE [counted EXCEPT !.items = Append(@, Item(n))]
     IN IF walk.scanned >= request.scan THEN Walked(Stopped(walk))
        ELSE IF ~Exists(n) THEN WalkFails
        ELSE IF walk.bytes + NodeSize(n) > ScanBytes THEN Walked(Stopped(seen))
        ELSE IF Unlisted(n) THEN Walked(counted)
        ELSE IF n \in Dirs /\ here.depth < request.depth
             THEN Walked([listed EXCEPT !.todo = <<Open(n, here.depth)>> \o @])
        ELSE Walked(listed)

\* The overflow of a directory whose entries are done.
MoreEntries ==
  /\ Doing("more")
  /\ Walked(Stopped(walk))

-----------------------------------------------------------------------------
(* The answers. *)

EntrySize(x) == IF request.tool = "search" THEN x.cost ELSE PathBytes
AnswerSize(xs, truncated) ==
  Envelope + (IF truncated THEN Meta ELSE 0) + SumFunction([i \in DOMAIN xs |-> EntrySize(xs[i])])

\* mcpList, mcpSearch: entries are dropped from the end while the answer is over
\* the budget, and one that lost an entry says so.
Trimmed(xs, truncated) ==
  IF AnswerSize(xs, truncated) <= ModelBytes THEN xs
  ELSE LET Keeps(k) == AnswerSize(SubSeq(xs, 1, k), TRUE) <= ModelBytes
       IN SubSeq(xs, 1, Max({0} \cup {k \in 1..(Len(xs) - 1) : Keeps(k)}))

Answer(xs, truncated) ==
  /\ found' = Trimmed(xs, truncated)
  /\ cut' = (truncated \/ Len(found') < Len(xs))
  /\ stage' = "done"
  /\ UNCHANGED <<request, walk, used, skipped, readIn>>

WalkDone(tool) == stage = "walk" /\ walk.todo = <<>> /\ request.tool = tool

ListAnswer ==
  /\ WalkDone("list")
  /\ Answer(SubSeq(walk.items, 1, Min({Len(walk.items), ListEntries})),
            walk.truncated \/ Len(walk.items) > ListEntries)

\* Find's answer is sorted by path, which is not the order of the walk, and not cut.
FindAnswer ==
  /\ WalkDone("find")
  /\ LET picked == {i \in DOMAIN walk.items : Tree[walk.items[i].node].glob}
         Node(i) == walk.items[i].node
         Place(i) == Cardinality({j \in picked : Node(j) < Node(i) \/ (Node(j) = Node(i) /\ j <= i)})
         matches == [k \in 1..Cardinality(picked) |-> walk.items[CHOOSE i \in picked : Place(i) = k]]
     IN /\ found' = SubSeq(matches, 1, Min({Len(matches), FindMatches}))
        /\ cut' = (walk.truncated \/ Len(matches) > FindMatches)
  /\ stage' = "done"
  /\ UNCHANGED <<request, walk, used, skipped, readIn>>

-----------------------------------------------------------------------------
(* Search reads the items of the walk one by one. *)

SearchBegin ==
  /\ WalkDone("search")
  /\ stage' = "search"
  /\ UNCHANGED <<request, walk, found, used, skipped, cut, readIn>>

\* makeSearchMatch and searchMatchBytes: a hit with its context.
MatchOf(n, c, i) ==
  LET first == IF request.context < i THEN i - request.context ELSE 1
      last == Min({i + request.context, Len(c.lines)})
  IN [node |-> n, line |-> i, of |-> c,
      cost |-> PathBytes + SumFunction([j \in first..last |-> c.lines[j].w + 1])]

\* The lines with a hit, first to last.
HitLine(c, k) == Kth({i \in DOMAIN c.lines : c.lines[i].spans > 0}, k)

\* The hits of a file, up to the first that one of the two limits refuses.
Hits(n, c) ==
  LET hits == Cardinality({i \in DOMAIN c.lines : c.lines[i].spans > 0})
      match == [k \in 1..hits |-> MatchOf(n, c, HitLine(c, k))]
      Cost(k) == used + SumFunction([j \in 1..k |-> match[j].cost])
      Fits(k) == Len(found) + k <= SearchMatches /\ Cost(k) <= SearchBytes
      taken == Max({0} \cup {k \in 1..hits : Fits(k)})
  IN [matches |-> SubSeq(match, 1, taken), used |-> Cost(taken), stop |-> taken < hits]

SkipItem(more) ==
  /\ walk' = [walk EXCEPT !.items = Tail(@)]
  /\ skipped' = skipped + more
  /\ UNCHANGED <<request, stage, found, used, cut>>

Searching == stage = "search" /\ walk.items # <<>> /\ ~cut

\* What is passed over without being read.
SearchPassesOver ==
  /\ Searching
  /\ LET item == Head(walk.items)
     IN \/ /\ ~Regular(item.node) \/ (request.filter /\ ~Tree[item.node].glob)
           /\ SkipItem(0)
        \/ /\ Regular(item.node) /\ (request.filter => Tree[item.node].glob)
           /\ item.size > WholeFileBytes
           /\ SkipItem(1)
  /\ UNCHANGED readIn

Readable(item) ==
  /\ Regular(item.node) /\ (request.filter => Tree[item.node].glob)
  /\ item.size <= WholeFileBytes

\* The bytes a read returns: one more than the limit is asked for.
Raw(n) == Min({NodeSize(n), WholeFileBytes + 1})

\* Faulty form: what a file grew by since the walk is not accounted for.
SearchGrowthFree ==
  /\ Searching /\ Readable(Head(walk.items))
  /\ LET n == Head(walk.items).node
     IN IF ~Exists(n) THEN WalkFails
        ELSE /\ readIn' = readIn + Raw(n)
             /\ IF Raw(n) > WholeFileBytes \/ content[n].binary THEN SkipItem(1)
                ELSE LET hits == Hits(n, content[n])
                     IN /\ found' = found \o hits.matches
                        /\ used' = hits.used
                        /\ cut' = hits.stop
                        /\ walk' = [walk EXCEPT !.items = Tail(@)]
                        /\ UNCHANGED <<request, stage, skipped>>

\* Open, read and match one file.
SearchFile ==
  /\ Searching /\ Readable(Head(walk.items))
  /\ LET item == Head(walk.items)
         n == item.node
         growth == IF Raw(n) > item.size THEN Raw(n) - item.size ELSE 0
     IN IF ~Exists(n) THEN WalkFails
        ELSE /\ readIn' = readIn + Raw(n)
             /\ IF walk.bytes + growth > ScanBytes
                THEN /\ walk' = [walk EXCEPT !.truncated = TRUE, !.items = <<>>]
                     /\ UNCHANGED <<request, stage, found, used, skipped, cut>>
                ELSE /\ walk' = [walk EXCEPT !.bytes = @ + growth, !.items = Tail(@)]
                     /\ IF Raw(n) > WholeFileBytes \/ content[n].binary
                        THEN /\ skipped' = skipped + 1
                             /\ UNCHANGED <<found, used, cut>>
                        ELSE LET hits == Hits(n, content[n])
                             IN /\ found' = found \o hits.matches
                                /\ used' = hits.used
                                /\ cut' = hits.stop
                                /\ UNCHANGED skipped
                     /\ UNCHANGED <<request, stage>>

SearchAnswer ==
  /\ stage = "search" /\ (walk.items = <<>> \/ cut)
  /\ Answer(found, cut \/ walk.truncated)

\* checkContext, between any two steps.
WalkCancelled ==
  /\ stage \in {"walk", "search"}
  /\ WalkFails

WalkNext ==
  /\ \/ WalkStart \/ OpenDirectory \/ VisitEntry \/ MoreEntries
     \/ ListAnswer \/ FindAnswer \/ SearchBegin
     \/ SearchPassesOver \/ SearchFile \/ SearchAnswer \/ WalkCancelled
  /\ UNCHANGED treeVars

-----------------------------------------------------------------------------
(* Properties. *)

\* What a walk with the caller's options comes to: nothing in its way is hidden
\* or passed over by default, and no rule ignores the node.
Eligible(n) ==
  IF n = request.start THEN n \in Nodes \ Dirs
  ELSE LET way == {m \in Upto(n) : request.start \in Above[m]}
       IN /\ request.start \in Above[n]
          /\ Cardinality(way) <= request.depth
          /\ \A m \in way : ~Unlisted(m)
          /\ ~Ignored(request.rules, n)

Searchable(n) ==
  n \in Files /\ content[n] # NoFile /\ (request.filter => Tree[n].glob)
  /\ SizeOf(content[n]) <= WholeFileBytes /\ ~content[n].binary

\* An answer that does not say it is truncated leaves out nothing that nobody
\* touched: every entry below the start for List, every match for Find, every
\* line with a hit for Search; and it names nothing twice, whatever the order in
\* which the directories yield their entries (walk, List, Find, Search, mcpList).
NothingLostSilently ==
  stage = "done" =>
    /\ \A i, j \in DOMAIN found :
         i # j => \/ found[i].node # found[j].node
                  \/ request.tool = "search" /\ found[i].line # found[j].line
    /\ ~cut => \A n \in Nodes \ touched :
         Eligible(n) /\ Exists(n) =>
           CASE request.tool = "list" -> \E i \in DOMAIN found : found[i].node = n
             [] request.tool = "find" ->
                  Tree[n].glob => \E i \in DOMAIN found : found[i].node = n
             [] OTHER ->
                  Searchable(n) => \A l \in DOMAIN content[n].lines :
                    content[n].lines[l].spans > 0 =>
                      \E i \in DOMAIN found : found[i].node = n /\ found[i].line = l

\* The budgets hold whatever is edited meanwhile: no more entries and bytes are
\* accounted for than the limits allow, all that was read is accounted for unless
\* the answer is truncated at the file that grew, and the answer fits its limits
\* and the model's budget (walk, Search, mcpSearch).
WalkBudgets ==
  stage \notin {"off", "failed"} =>
    /\ walk.scanned <= request.scan
    /\ walk.bytes <= ScanBytes
    /\ readIn <= walk.bytes + IF walk.truncated THEN WholeFileBytes + 1 ELSE 0
    /\ request.tool = "search" => Len(found) <= SearchMatches /\ used <= SearchBytes
    /\ stage = "done" /\ request.tool # "find" =>
         AnswerSize(found, cut) <= ModelBytes \/ found = <<>>
=============================================================================
