------------------------------ MODULE RepoSearch ------------------------------
(***************************************************************************)
(* searchFilesAtRoot (fileops/search.go) and the cascade of ignore files   *)
(* it keeps while it walks (fileops/gitignore.go).                         *)
(*                                                                         *)
(* WalkDir visits a directory before what is in it. No event tells that it *)
(* left a directory, so the stack of rule levels is unwound at the next    *)
(* visit. What cannot be read, is too large or binary is passed over       *)
(* without a word. A start that is a link to a file is followed; a start   *)
(* that is a link to a directory is left out.                              *)
(***************************************************************************)
EXTENDS FileTree, MachineInts

CONSTANTS
  Queries,      \* the options of a search
  Cascades,     \* what is read of the ignore files: directory |-> its rules
  LinkTo,       \* a link that leads to a file of the tree |-> that file
  RepoSearchBytes,  \* the largest file that is searched
  MaxMatches

ASSUME RepoSearchAssumption ==
  /\ Queries \subseteq [files : BOOLEAN, count : BOOLEAN, only : BOOLEAN, invert : BOOLEAN,
                         before : Ints, after : Ints,
                         noIgnore : BOOLEAN, include : BOOLEAN, exclude : BOOLEAN]
  /\ Cascades \subseteq [Dirs -> Seq([negate : BOOLEAN, dirOnly : BOOLEAN, direct : SUBSET Nodes])]
  /\ DOMAIN LinkTo \subseteq {n \in Nodes : Tree[n].type = "link"}
  /\ \A n \in DOMAIN LinkTo : LinkTo[n] \in Files
  /\ RepoSearchBytes \in Nat /\ MaxMatches \in Nat \ {0}

VARIABLES
  query,     \* the options; "none" when no search is made
  base,      \* walkRoot
  cascade,   \* the rules of each directory, whose ignore files are read once; one
             \* that cannot be read adds none
  levels,    \* ignoreStack: the directories whose rules are loaded
  visits,    \* what WalkDir still has to do
  matches,   \* Matches
  total,     \* Total
  capped,    \* Truncated
  status,    \* "off", "start", "walk", "done" or "failed"
  unread     \* history: the entries passed over because reading them failed

searchVars == <<query, base, cascade, levels, visits, matches, total, capped, status, unread>>

-----------------------------------------------------------------------------
(* The cascade. *)

\* Faulty form: the first rule of a level that matches decides.
FirstRuleWins(loaded, n) ==
  LET Names(rule) == n \in rule.direct /\ (rule.dirOnly => n \in Dirs)
      Rule(d) == SelectInSeq(cascade[d], Names)
      level == SelectLastInSeq(loaded, LAMBDA d : d \in Above[n] /\ Rule(d) # 0)
  IN level # 0 /\ ~cascade[loaded[level]][Rule(loaded[level])].negate

\* ignores: the deepest level with a matching rule decides, by its last such rule;
\* a level sees only what is below its directory.
Ignores(loaded, n) ==
  LET Names(rule) == n \in rule.direct /\ (rule.dirOnly => n \in Dirs)
      Rule(d) == SelectLastInSeq(cascade[d], Names)
      level == SelectLastInSeq(loaded, LAMBDA d : d \in Above[n] /\ Rule(d) # 0)
  IN level # 0 /\ ~cascade[loaded[level]][Rule(loaded[level])].negate

\* popLeftDirs: levels are dropped down to one that holds the entry.
PopLeftDirs(loaded, n) ==
  SubSeq(loaded, 1, SelectLastInSeq(loaded, LAMBDA d : d = 0 \/ d \in Upto(n)))

\* ancestorIgnoreLevels: the root and each directory above the start.
AncestorLevels(n) == IF n = 0 THEN <<>> ELSE InNameOrder(Above[n])

-----------------------------------------------------------------------------
(* What one file contributes, the count so far being total. *)

HitLines(c) == Ascending({i \in DOMAIN c.lines : (c.lines[i].spans > 0) # query.invert})

Shown(n, line, mark) == [node |-> n, line |-> line, mark |-> mark]
MarkOf(c, i) == IF (c.lines[i].spans > 0) # query.invert THEN ":" ELSE "-"

\* The windows of the hits, each from where those before it ended. The lines
\* of context are any ints, and their sums wrap.
Windows(n, c, hits) ==
  LET Low(k) == Max({1, Wrap(hits[k] - 1 - query.before) + 1})
      High(k) == Min({Wrap(hits[k] - 1 + query.after) + 1, Len(c.lines)})
      Emitted(k) == Max({0} \cup {High(j) : j \in {i \in 1..(k - 1) : Low(i) <= High(i)}})
      Start(k) == Max({Low(k), Emitted(k) + 1})
      Window(k) == [i \in 1..(High(k) + 1 - Start(k)) |->
                      Shown(n, Start(k) + i - 1, MarkOf(c, Start(k) + i - 1))]
  IN FlattenSeq([k \in DOMAIN hits |-> Window(k)])

\* What is reported of a file, and by how much the total rises.
Report(n, c) ==
  LET hits == HitLines(c)
      room == MaxMatches - total
      Firsts(s) == SubSeq(s, 1, Min({room, Len(s)}))
      spans == FlattenSeq([k \in DOMAIN hits |->
                 [j \in 1..c.lines[hits[k]].spans |-> Shown(n, hits[k], j)]])
  IN IF hits = <<>> THEN [lines |-> <<>>, counted |-> 0]
     ELSE IF query.files THEN [lines |-> <<Shown(n, 0, "file")>>, counted |-> 1]
     ELSE IF query.count THEN [lines |-> <<Shown(n, Len(hits), "count")>>, counted |-> 1]
     ELSE IF query.only THEN [lines |-> Firsts(spans), counted |-> Len(Firsts(spans))]
     ELSE [lines |-> Windows(n, c, Firsts(hits)), counted |-> Len(Firsts(hits))]

-----------------------------------------------------------------------------
(* The walk. *)

Visit(n) == [op |-> "visit", node |-> n]
ReadIt(n) == [op |-> "read", node |-> n]

RepoSearchInit ==
  /\ query \in Queries
  /\ base \in {0} \cup Nodes
  /\ cascade \in Cascades
  /\ levels = <<>> /\ visits = <<>> /\ matches = <<>> /\ total = 0 /\ capped = FALSE
  /\ status = "start" /\ unread = {}

RepoSearchOff ==
  /\ query = "none" /\ base = 0 /\ cascade = <<>>
  /\ levels = <<>> /\ visits = <<>> /\ matches = <<>> /\ total = 0 /\ capped = FALSE
  /\ status = "off" /\ unread = {}

\* What the walk opens under the name of an entry: Stat and Open follow the start.
Source(n) == IF n = base /\ n \in DOMAIN LinkTo THEN LinkTo[n] ELSE n
IsThere(n) == n \in Dirs \/ (n \in Files /\ Exists(n))

\* validateSearchOptions, and Stat of the start.
SearchStart ==
  /\ status = "start"
  /\ IF (query.only /\ query.invert) \/ (query.count /\ query.files) \/ ~IsThere(Source(base))
     THEN status' = "failed" /\ UNCHANGED <<levels, visits>>
     ELSE /\ levels' = IF query.noIgnore THEN <<>> ELSE AncestorLevels(base)
          /\ visits' = <<Visit(base)>>
          /\ status' = "walk"
  /\ UNCHANGED <<query, base, cascade, matches, total, capped, unread>>

Visiting(op, what) ==
  status = "walk" /\ visits # <<>> /\ Head(visits).op = op /\ Head(visits).node \in what

\* The levels as the callback finds them, and whether they drop the entry.
Unwound(n) == IF query.noIgnore THEN <<>> ELSE PopLeftDirs(levels, n)
Dropped(n) == ~query.noIgnore /\ Ignores(Unwound(n), n)

\* An entry is passed over, because reading what is in lost failed or for another reason.
PassOver(n, lost) ==
  /\ levels' = Unwound(n)
  /\ visits' = Tail(visits)
  /\ unread' = unread \cup lost
  /\ UNCHANGED <<query, base, cascade, matches, total, capped, status>>

\* A directory that is left out is pruned whole, the start too when its name is
\* one of those always left out, or when it is ignored. When ReadDir fails,
\* WalkDir goes on with the entries it got.
VisitDirectory ==
  /\ Visiting("visit", Dirs)
  /\ LET n == Head(visits).node
     IN IF n # 0 /\ ((Tree[n].hidden /\ n # base) \/ Tree[n].skipped \/ Dropped(n)) THEN PassOver(n, {})
        ELSE \E got \in SUBSET Children(n) :
               LET names == InNameOrder(got)
               IN /\ levels' = IF query.noIgnore THEN <<>> ELSE Append(Unwound(n), n)
                  /\ visits' = [i \in DOMAIN names |-> Visit(names[i])] \o Tail(visits)
                  /\ unread' = unread \cup (Children(n) \ got)
                  /\ UNCHANGED <<query, base, cascade, matches, total, capped, status>>

\* The tests by name, and the size that the entry's Info reports if it does not fail.
VisitFile ==
  /\ Visiting("visit", Nodes \ Dirs)
  /\ LET n == Head(visits).node
         file == Source(n)
     IN IF \/ n # base /\ Dropped(n)
           \/ Tree[n].skipped
           \/ query.include /\ ~Tree[n].glob
           \/ query.exclude /\ Tree[n].glob
           \/ ~IsThere(file)
        THEN PassOver(n, {})
        ELSE \/ PassOver(n, {n})
             \/ NodeSize(file) > RepoSearchBytes /\ PassOver(n, {})
             \/ /\ NodeSize(file) <= RepoSearchBytes
                /\ levels' = Unwound(n)
                /\ visits' = <<ReadIt(n)>> \o Tail(visits)
                /\ UNCHANGED <<query, base, cascade, matches, total, capped, status, unread>>

\* The file is opened, read and closed, each of which may fail, and matched.
ReadAndMatch ==
  /\ Visiting("read", Nodes)
  /\ LET n == Head(visits).node
         c == content[Source(n)]
     IN IF c = NoFile THEN PassOver(n, {})
        ELSE \/ PassOver(n, {n})
             \/ (SizeOf(c) > RepoSearchBytes \/ c.binary) /\ PassOver(n, {})
             \/ /\ SizeOf(c) <= RepoSearchBytes /\ ~c.binary
                /\ LET report == Report(n, c)
                       full == report.counted > 0 /\ total + report.counted >= MaxMatches
                   IN /\ matches' = matches \o report.lines
                      /\ total' = total + report.counted
                      /\ capped' = full
                      /\ visits' = IF full THEN <<>> ELSE Tail(visits)
                      /\ UNCHANGED <<query, base, cascade, levels, status, unread>>

SearchDone ==
  /\ status = "walk" /\ visits = <<>>
  /\ status' = "done"
  /\ UNCHANGED <<query, base, cascade, levels, visits, matches, total, capped, unread>>

RepoSearchNext ==
  /\ SearchStart \/ VisitDirectory \/ VisitFile \/ ReadAndMatch \/ SearchDone
  /\ UNCHANGED treeVars

-----------------------------------------------------------------------------
(* Properties. *)

\* The rules of every directory above a node, deepest first, each last to first.
Excluded(n) ==
  LET Named(d) == {i \in DOMAIN cascade[d] :
                     n \in cascade[d][i].direct /\ (cascade[d][i].dirOnly => n \in Dirs)}
      deciding == {d \in Above[n] : Named(d) # {}}
  IN deciding # {} /\ ~cascade[Max(deciding)][Max(Named(Max(deciding)))].negate

\* What a search from base should look into.
InScope(n) ==
  LET way == {m \in Upto(n) : m # 0 /\ base \in Upto(m)}
  IN /\ Source(n) \in Files /\ base \in Upto(n)
     /\ ~Tree[n].skipped
     /\ query.include => Tree[n].glob
     /\ query.exclude => ~Tree[n].glob
     /\ \A m \in way :
          /\ m \in Dirs => ~Tree[m].skipped /\ (m # base => ~Tree[m].hidden)
          /\ query.noIgnore \/ (m = base /\ m \notin Dirs) \/ ~Excluded(m)

Matched(c) == {i \in DOMAIN c.lines : (c.lines[i].spans > 0) # query.invert}

ShowsLines == ~query.files /\ ~query.count /\ ~query.only

\* The context of a line is beyond the ints.
Overflows(c) ==
  ShowsLines /\ (-query.before > MaxInt - Len(c.lines) \/ query.after > MaxInt - Len(c.lines))

\* What should be shown of a content in the mode of the query, as the set of what
\* is shown. A negative number of lines of context asks for less than the line.
Expected(n, c) ==
  LET Near(k) == \E h \in Matched(c) : h - query.before <= k /\ k <= h + query.after
  IN IF Matched(c) = {} THEN {}
     ELSE IF query.files THEN {Shown(n, 0, "file")}
     ELSE IF query.count THEN {Shown(n, Cardinality(Matched(c)), "count")}
     ELSE IF query.only THEN UNION {{Shown(n, i, j) : j \in 1..c.lines[i].spans} : i \in Matched(c)}
     ELSE {Shown(n, i, IF i \in Matched(c) THEN ":" ELSE "-") :
             i \in {k \in DOMAIN c.lines : Overflows(c) \/ Near(k)}}

Legible(c) == c # NoFile /\ ~c.binary /\ SizeOf(c) <= RepoSearchBytes

\* What should be shown of an entry, and what is.
Due(n) == IF InScope(n) /\ Legible(content[Source(n)]) THEN Expected(n, content[Source(n)]) ELSE {}
ShownIn(ms, n) == {ms[i] : i \in {k \in DOMAIN ms : ms[k].node = n}}

Untouched(n) == Source(n) \in Files \ touched

\* The entry, or a directory above it, was passed over because reading it failed.
Lost(n) == unread \cap Upto(n) # {}

\* A search shows nothing twice and counts no more than its cap. Of a file that
\* nobody touched it shows only what the options and the ignore files it could
\* read leave in scope, and it shows all of that unless it says that it is
\* truncated, reading failed on the way to the file, or the lines of context are
\* beyond the ints; whatever the files that others edit meanwhile
\* (searchFilesAtRoot, ignoreStack).
SearchIsExact ==
  status = "done" =>
    /\ \A i, j \in DOMAIN matches : i # j => matches[i] # matches[j]
    /\ total <= MaxMatches /\ (capped <=> total = MaxMatches)
    /\ \A n \in Nodes : Untouched(n) =>
         /\ ShownIn(matches, n) \subseteq Due(n)
         /\ ShownIn(matches, n) = Due(n) \/ capped \/ Lost(n) \/ Overflows(content[Source(n)])
=============================================================================
