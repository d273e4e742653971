----------------------------- MODULE MCTailOutput -----------------------------
(* Small instances of TailOutput. *)
EXTENDS TailOutput

\* A filter with a selector and context, one by preset, one that excludes, one
\* that names a pack nobody knows, one that does not compile, one that selects
\* by a blank pack, and contexts that are negative or as large as an int can be.
NoFilter == [include |-> {}, exclude |-> {}, keywords |-> {}, regexes |-> {},
             packs |-> {}, preset |-> "none", before |-> 0, after |-> 0, maxLines |-> 0]
SomeFilters ==
  { [NoFilter EXCEPT !.keywords = {{"k1"}}, !.before = 1, !.maxLines = 2],
    [NoFilter EXCEPT !.preset = "summary", !.before = -1, !.maxLines = 1],
    [NoFilter EXCEPT !.exclude = {"k2"}, !.after = 1],
    [NoFilter EXCEPT !.packs = {"unknown"}],
    [NoFilter EXCEPT !.regexes = {{}, {"?"}}],
    [NoFilter EXCEPT !.packs = {"blank"}, !.preset = "errors"],
    [NoFilter EXCEPT !.include = {"k1", "k2"}, !.before = -1, !.after = 1, !.maxLines = -1],
    [NoFilter EXCEPT !.keywords = {{}}, !.before = -MaxInt - 1, !.after = MaxInt] }
=============================================================================
