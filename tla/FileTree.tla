------------------------------- MODULE FileTree -------------------------------
(***************************************************************************)
(* The directory tree that the reading tools look at while other processes *)
(* edit it. External to the code: it is modelled by what filesystem/ and   *)
(* fileops/ see of it through os.Root.                                     *)
(*                                                                         *)
(* Nodes are numbers in the order of their paths. A file has a content, a  *)
(* sequence of lines with a width in bytes and the number of spans of the  *)
(* pattern searched for. A digest of a file is the content it covers.      *)
(***************************************************************************)
EXTENDS Naturals, Sequences, FiniteSets, FiniteSetsExt, SequencesExt, Functions

CONSTANTS
  Tree,      \* node |-> its parent (0 is the root), type and attributes
  Contents,  \* the contents a file may have
  NoFile,    \* the content of a file that is not there
  MaxEdits,  \* bound on the edits of others during a call
  \* Limits that the reading tools share.
  WholeFileBytes,  \* filesystem.Limits
  ModelBytes,      \* the budget of an answer, encoded
  Envelope,        \* encoded size of an answer without its lines or entries
  Meta             \* encoded size of the truncation's metadata

Nodes == DOMAIN Tree
Files == {n \in Nodes : Tree[n].type = "file"}
Dirs == {0} \cup {n \in Nodes : Tree[n].type = "dir"}

ASSUME TreeAssumption ==
  /\ Nodes \subseteq Nat \ {0} /\ IsFiniteSet(Nodes)
  /\ \A n \in Nodes :
       /\ DOMAIN Tree[n] = {"parent", "type", "hidden", "skipped", "glob"}
       /\ Tree[n].parent \in Dirs \cap 0..(n - 1)
       /\ Tree[n].type \in {"file", "dir", "link"}
  /\ Contents \subseteq [binary : BOOLEAN, lines : Seq([w : Nat, spans : Nat])]
  /\ NoFile \notin Contents
  /\ {MaxEdits, Envelope, Meta} \subseteq Nat
  /\ {WholeFileBytes, ModelBytes} \subseteq Nat \ {0}

VARIABLES
  content,  \* what each file holds
  edits,    \* number of edits so far
  touched   \* history: the files edited since the call began

treeVars == <<content, edits, touched>>

\* The bytes of a file: its lines, each with its newline.
SizeOf(c) ==
  IF c = NoFile THEN 0 ELSE SumFunction([i \in DOMAIN c.lines |-> c.lines[i].w + 1])

Exists(n) == n \notin Files \/ content[n] # NoFile
NodeSize(n) == IF n \in Files THEN SizeOf(content[n]) ELSE 0

Children(d) == {n \in Nodes : Tree[n].parent = d /\ Exists(n)}

\* The directories above a node, the root with them, and the node itself.
Above[n \in Nodes \cup {0}] == IF n = 0 THEN {} ELSE {Tree[n].parent} \cup Above[Tree[n].parent]
Upto(n) == Above[n] \cup {n}

\* The k-th of a set of numbers, and all of them, the least first.
Kth(S, k) == CHOOSE n \in S : Cardinality({m \in S : m <= n}) = k
Ascending(S) == [k \in 1..Cardinality(S) |-> Kth(S, k)]

InNameOrder(S) == Ascending(S)

TreeInit ==
  /\ content \in [Files -> Contents \cup {NoFile}]
  /\ edits = 0
  /\ touched = {}

\* Another process writes, creates or removes a file; a writer replaces a file
\* by a rename, so that a reader has the one content or the other.
Edit ==
  /\ edits < MaxEdits
  /\ \E n \in Files, c \in Contents \cup {NoFile} :
       /\ c # content[n]
       /\ content' = [content EXCEPT ![n] = c]
       /\ touched' = touched \cup {n}
  /\ edits' = edits + 1
=============================================================================
