---------------------------- MODULE MCFileQueries -----------------------------
(* A small tree: a directory with a file in it, a file whose path sorts       *)
(* between the two, a directory passed over by default, and a hidden link to  *)
(* the file in the first one.                                                 *)
EXTENDS FileQueries

Node(parent, type, hidden, skip, glob) ==
  [parent |-> parent, type |-> type, hidden |-> hidden, skipped |-> skip, glob |-> glob]

SmallTree ==
  << Node(0, "link", TRUE, FALSE, TRUE),
     Node(0, "dir", FALSE, FALSE, FALSE),
     Node(0, "file", FALSE, FALSE, TRUE),
     Node(2, "file", FALSE, FALSE, TRUE),
     Node(0, "dir", FALSE, TRUE, FALSE),
     Node(5, "file", FALSE, FALSE, FALSE) >>

Line(w, spans) == [w |-> w, spans |-> spans]

SmallContents ==
  { [binary |-> FALSE, lines |-> <<Line(1, 1)>>],
    [binary |-> FALSE, lines |-> <<Line(1, 2), Line(2, 1), Line(0, 0)>>],
    [binary |-> TRUE, lines |-> <<Line(4, 1)>>],
    [binary |-> FALSE, lines |-> <<Line(6, 1)>>] }

Rule(negate, dirOnly, direct) == [negate |-> negate, dirOnly |-> dirOnly, direct |-> direct]

SomeRules == { <<>>, <<Rule(FALSE, TRUE, {2, 3}), Rule(TRUE, FALSE, {4})>> }

SomeCascades ==
  { [d \in Dirs |-> <<>>],
    [d \in Dirs |-> CASE d = 0 -> <<Rule(FALSE, FALSE, {3, 4})>>
                      [] d = 2 -> <<Rule(FALSE, FALSE, {4}), Rule(TRUE, FALSE, {4})>>
                      [] OTHER -> <<>>] }

Query(files, count, only, invert, context) ==
  [files |-> files, count |-> count, only |-> only, invert |-> invert,
   before |-> context, after |-> context, noIgnore |-> FALSE, include |-> FALSE, exclude |-> FALSE]

SmallLinks == [n \in {1} |-> 4]

SomeQueries ==
  { Query(TRUE, FALSE, FALSE, FALSE, 0), Query(FALSE, TRUE, FALSE, TRUE, 0),
    Query(FALSE, FALSE, TRUE, FALSE, 0), Query(FALSE, FALSE, FALSE, FALSE, 1),
    Query(FALSE, FALSE, TRUE, TRUE, 0),
    [Query(FALSE, FALSE, FALSE, FALSE, 1) EXCEPT !.after = -1],
    [Query(FALSE, FALSE, FALSE, FALSE, MaxInt) EXCEPT !.before = -MaxInt],
    [Query(FALSE, FALSE, FALSE, TRUE, 0) EXCEPT !.noIgnore = TRUE, !.include = TRUE],
    [Query(FALSE, FALSE, FALSE, FALSE, 0) EXCEPT !.exclude = TRUE] }
=============================================================================
