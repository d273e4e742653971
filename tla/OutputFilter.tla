----------------------------- MODULE OutputFilter -----------------------------
(***************************************************************************)
(* What a caller is shown of a command's output: lines, a grep-like filter *)
(* over them and the evidence distilled from them (command/runner.go from  *)
(* applyFilter on, evidence/evidence.go).                                  *)
(*                                                                         *)
(* A byte of output is a record with a kind, a line a sequence of bytes. A *)
(* pattern, a keyword or a regular expression is abstracted to the set of  *)
(* kinds it hits: it matches a line that has a byte of such a kind. The    *)
(* empty set is the pattern that is not set, and the kind "?" one that     *)
(* does not compile. Letter case is left out.                              *)
(***************************************************************************)
EXTENDS MachineInts, Sequences, FiniteSets, SequencesExt

\* builtInRegexPacks: the packs and what their expressions hit.
RegexPacks == [errors |-> {"k1"}, summary |-> {"k2"}]

\* normalizeLines: split at the newlines, blank lines left out.
NormalizeLines(text) ==
  LET Closed(acc) == IF acc.line = <<>> THEN acc.lines ELSE Append(acc.lines, acc.line)
      Split(acc, b) == IF b.kind = "n" THEN [lines |-> Closed(acc), line |-> <<>>]
                       ELSE [lines |-> acc.lines, line |-> Append(acc.line, b)]
  IN Closed(FoldLeft(Split, [lines |-> <<>>, line |-> <<>>], text))

\* tailN, and tail of the evidence package.
TailN(values, limit) ==
  IF limit <= 0 \/ Len(values) <= limit THEN values
  ELSE SubSeq(values, Len(values) - limit + 1, Len(values))

Matches(line, pattern) == \E i \in DOMAIN line : line[i].kind \in pattern

-----------------------------------------------------------------------------
(* The filter. *)

Presets == {"none", "errors", "tests", "summary"}

\* Any int is accepted for the lines of context and for the limit.
Filter == [include : SUBSET {"k1", "k2", "?"}, exclude : SUBSET {"k1", "k2", "e", "?"},
           keywords : SUBSET {{}, {"k1"}, {"k2"}}, regexes : SUBSET {{}, {"k1"}, {"k2"}, {"?"}},
           packs : SUBSET {"errors", "summary", "blank", "unknown"}, preset : Presets,
           before : Ints, after : Ints, maxLines : Ints]

HasPositiveSelectors(f) ==
  f.include # {} \/ f.keywords # {} \/ f.regexes # {} \/ f.packs # {}

\* A preset adds its pack or its expression when the caller selected nothing,
\* and context for a summary in any case.
ApplyPreset(f) ==
  LET bare == ~HasPositiveSelectors(f)
      wide == f.preset = "summary"
  IN [f EXCEPT
        !.packs = IF bare /\ f.preset \in {"errors", "summary"}
                  THEN @ \cup {f.preset} ELSE @,
        !.include = IF bare /\ f.preset = "tests" THEN {"k1", "k2"} ELSE @,
        !.before = IF wide /\ @ <= 0 THEN 1 ELSE @,
        !.after = IF wide /\ @ <= 0 THEN 1 ELSE @]

\* DefaultMaxLines stands for the 80 lines of a filter that names no limit.
DefaultMaxLines == 80

\* normalizeFilter; a blank pack is a selector without an expression.
NormalizeFilter(f) ==
  LET g == ApplyPreset(f)
  IN [g EXCEPT !.regexes = @ \cup {RegexPacks[p] : p \in g.packs \ {"blank"}},
               !.maxLines = IF @ <= 0 THEN DefaultMaxLines ELSE @]

\* normalizeFilter and applyFilter: an unknown pack is an error, and so is an
\* expression that does not compile.
FilterFails(f) ==
  \/ ~(ApplyPreset(f).packs \subseteq DOMAIN RegexPacks \cup {"blank"})
  \/ "?" \in f.include \cup f.exclude \cup UNION f.regexes

\* The line itself passes: not excluded, and one of each selector that is set.
\* Every line has the empty keyword; an empty expression is left out.
Passes(line, f) ==
  LET regexes == f.regexes \ {{}}
  IN /\ ~Matches(line, f.exclude)
     /\ f.include # {} => Matches(line, f.include)
     /\ f.keywords # {} => \E k \in f.keywords : k = {} \/ Matches(line, k)
     /\ regexes # {} => \E r \in regexes : Matches(line, r)

SetsNothing(f) == f.include = {} /\ f.exclude = {} /\ f.keywords = {} /\ f.regexes = {}

\* Faulty form: the lines of context count once for each line that passes.
SelectedTwice(lines, f) ==
  LET Around(i) == SubSeq(lines, IF i <= f.before THEN 1 ELSE i - f.before,
                          IF i + f.after > Len(lines) THEN Len(lines) ELSE i + f.after)
      Add(out, i) == IF Passes(lines[i], f) THEN out \o Around(i) ELSE out
  IN FoldLeft(Add, <<>>, [i \in DOMAIN lines |-> i])

\* Line j is in the context of line i, both counted from 0 as in the code.
InContext(i, j, f) == Wrap(i - f.before) <= j /\ j <= Wrap(i + f.after)

\* The lines in the context of one that passes, each once, in their order.
Selected(lines, f) ==
  LET near == {j \in DOMAIN lines :
                 \E i \in DOMAIN lines : Passes(lines[i], f) /\ InContext(i - 1, j - 1, f)}
  IN [n \in 1..Cardinality(near) |->
        lines[CHOOSE j \in near : Cardinality({m \in near : m <= j}) = n]]

\* applyFilter for a filter that does not fail: the first maxLines of the
\* selected lines, and whether there were more. Nothing set selects nothing.
ApplyFilter(lines, filter) ==
  LET f == NormalizeFilter(filter)
      all == IF SetsNothing(f) THEN <<>> ELSE Selected(lines, f)
      more == Len(all) > f.maxLines
  IN [lines |-> IF more THEN SubSeq(all, 1, f.maxLines) ELSE all, truncated |-> more]

-----------------------------------------------------------------------------
(* The evidence. *)

EvidenceKeywords == {"k1", "e"}

\* SelectDistilled: the first `limit` distinct lines that report a failure, or
\* else the tail of the output, and which of the two it is.
SelectDistilled(lines, limit) ==
  LET Kinds(line) == [i \in DOMAIN line |-> line[i].kind]
      Pick(out, line) ==
        IF Len(out) < limit /\ Matches(line, EvidenceKeywords)
           /\ \A i \in DOMAIN out : Kinds(out[i]) # Kinds(line)
        THEN Append(out, line) ELSE out
      failures == FoldLeft(Pick, <<>>, lines)
  IN [lines |-> IF failures # <<>> THEN failures ELSE TailN(lines, limit),
      distilled |-> failures # <<>>]
=============================================================================
