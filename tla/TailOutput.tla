------------------------------ MODULE TailOutput ------------------------------
(***************************************************************************)
(* The output of a command that runs (command/tail_output.go, and what     *)
(* executePrepared of command/runner.go does with it): one goroutine for   *)
(* stdout and one for stderr append what they read to an ordered tail that *)
(* is bounded in bytes over both streams; after each write the goroutine   *)
(* refreshes the running record of the history, outside the tail's mutex   *)
(* and in three further steps; when both streams are closed the worker     *)
(* publishes the terminal record.                                          *)
(*                                                                         *)
(* A byte is a rune's continuation "c", a newline "n", or one of "k1" and  *)
(* "k2", which start runes and, side by side, are a secret that redaction  *)
(* replaces by the mask "*". A digest is the sequence of bytes it covers.  *)
(***************************************************************************)
EXTENDS OutputFilter

CONSTANTS
  Budget,      \* CommandPolicy.MaxOutputBytes, or its default
  MaxLines,    \* CommandPolicy.MaxLines
  Filters,     \* the filters a caller applies to a record
  MaxBytes,    \* bound on the bytes a command prints
  MaxWrite     \* bound on the bytes of one write

ASSUME TailAssumption ==
  /\ Budget \in Nat \ {0}
  /\ MaxLines \in Nat
  /\ MaxBytes \in Nat
  /\ MaxWrite \in Nat \ {0}
  /\ Filters \subseteq Filter

Streams == {"stdout", "stderr"}
Kinds == {"c", "n", "k1", "k2"}
Byte == [at : 1..MaxBytes, kind : Kinds \cup {"*", "e"}]

VARIABLES
  arrived,    \* history: every byte written, and its stream
  chunks,     \* tailOutput.chunks, oldest first
  keptBytes,  \* tailOutput.keptBytes
  truncated,  \* tailOutput.truncated
  hashes,     \* tailOutput.hashes: what each stream's digest covers
  pc,         \* where each stream's copying goroutine is
  view,       \* what each goroutine's callback has gathered
  record,     \* the command's record in History.records
  published   \* whether the worker has tried to publish, and how it went

tail == <<chunks, keptBytes, truncated, hashes>>
vars == <<arrived, tail, pc, view, record, published>>

NoView == [stdout |-> <<>>, stderr |-> <<>>, combined |-> <<>>,
           truncated |-> FALSE, hash |-> [s \in Streams |-> <<>>]]

RecordOf(status, v) ==
  [status |-> status, stdout |-> v.stdout, stderr |-> v.stderr, combined |-> v.combined,
   truncated |-> v.truncated, hash |-> v.hash]

NoRecord == RecordOf("absent", NoView)

\* A command that is waited for has no record before it ends.
Init ==
  /\ arrived = <<>>
  /\ chunks = <<>>
  /\ keptBytes = 0
  /\ truncated = FALSE
  /\ hashes = [s \in Streams |-> <<>>]
  /\ pc = [s \in Streams |-> "read"]
  /\ view = [s \in Streams |-> NoView]
  /\ record \in {RecordOf(st, NoView) : st \in {"absent", "running"}}
  /\ published = "no"

-----------------------------------------------------------------------------
(* The tail. *)

Bytes(cs) == FoldLeft(LAMBDA text, c : text \o c.data, <<>>, cs)
SizeOf(cs) == Len(Bytes(cs))

\* Faulty form: the chunk is given up from its cut to its end.
CutToEnd(b, limit) == Len(b)

\* headRuneCut: the cut moves on to the next rune start, or to the end.
HeadRuneCut(b, limit) ==
  CHOOSE cut \in limit..Len(b) :
    /\ cut = Len(b) \/ b[cut + 1].kind # "c"
    /\ \A i \in limit..(cut - 1) : b[i + 1].kind = "c"

\* evictLocked: whole chunks go while the excess covers them, then the head of
\* the first one that is larger than the excess is cut.
Evict(cs) ==
  LET Left(k) == SizeOf(SubSeq(cs, k + 1, Len(cs)))
      Stops(k) == Left(k) <= Budget \/ Left(k) - Budget < Len(cs[k + 1].data)
      k0 == CHOOSE k \in 0..Len(cs) : Stops(k) /\ \A i \in 0..(k - 1) : ~Stops(i)
      rest == SubSeq(cs, k0 + 1, Len(cs))
  IN IF Left(k0) <= Budget THEN rest
     ELSE LET head == rest[1].data
              cut == HeadRuneCut(head, Left(k0) - Budget)
          IN [rest EXCEPT ![1].data = SubSeq(head, cut + 1, Len(head))]

\* redact and the masks: every whole secret of the text is replaced.
Redact(text) ==
  LET Mask(out, b) ==
        IF b.kind = "k2" /\ out # <<>> /\ Last(out).kind = "k1"
        THEN Append(Front(out), [at |-> Last(out).at, kind |-> "*"])
        ELSE Append(out, b)
  IN FoldLeft(Mask, <<>>, text)

\* snapshotLocked for one stream.
StreamText(cs, s) ==
  Redact(FoldLeft(LAMBDA text, c : IF c.stream = s THEN text \o c.data ELSE text,
                  <<>>, cs))

\* Faulty form: each chunk is redacted by itself.
CombinedByChunk(cs) == FoldLeft(LAMBDA text, c : text \o Redact(c.data), <<>>, cs)

\* combinedText: redacted over each run of chunks of the same stream.
CombinedText(cs) ==
  LET Step(acc, c) ==
        IF c.stream # acc.stream
        THEN [out |-> acc.out \o Redact(acc.run), run |-> c.data, stream |-> c.stream]
        ELSE [acc EXCEPT !.run = @ \o c.data]
      end == FoldLeft(Step, [out |-> <<>>, run |-> <<>>, stream |-> "none"], cs)
  IN end.out \o Redact(end.run)

-----------------------------------------------------------------------------
(* The copying goroutines. *)

\* tailOutput.write up to the release of the mutex.
Write(s, p) ==
  LET n == Len(arrived)
      bytes == [i \in DOMAIN p |-> [at |-> n + i, kind |-> p[i]]]
      all == Append(chunks, [stream |-> s, data |-> bytes])
      kept == Evict(all)
      cut == truncated \/ SizeOf(all) > Budget
  IN /\ pc[s] = "read"
     /\ n + Len(p) <= MaxBytes
     /\ arrived' = arrived \o [i \in DOMAIN p |-> [stream |-> s, kind |-> p[i]]]
     /\ hashes' = [hashes EXCEPT ![s] = @ \o bytes]
     /\ chunks' = kept
     /\ keptBytes' = SizeOf(kept)
     /\ truncated' = cut
     /\ view' = [view EXCEPT ![s] =
                   [NoView EXCEPT !.stdout = NormalizeLines(StreamText(kept, "stdout")),
                                  !.stderr = NormalizeLines(StreamText(kept, "stderr")),
                                  !.truncated = cut]]
     /\ pc' = [pc EXCEPT ![s] = "combined"]
     /\ UNCHANGED <<record, published>>

\* The callback updateRunningOutput takes the mutex twice more, once for the
\* combined text and once for the digest, and then that of the history.
UpdateCombined(s) ==
  /\ pc[s] = "combined"
  /\ view' = [view EXCEPT ![s].combined = NormalizeLines(CombinedText(chunks))]
  /\ pc' = [pc EXCEPT ![s] = "sum"]
  /\ UNCHANGED <<arrived, tail, record, published>>

\* Faulty form: the digest is taken over from the record.
UpdateSumEarly(s) ==
  /\ pc[s] = "sum"
  /\ view' = [view EXCEPT ![s].hash = record.hash]
  /\ pc' = [pc EXCEPT ![s] = "store"]
  /\ UNCHANGED <<arrived, tail, record, published>>

UpdateSum(s) ==
  /\ pc[s] = "sum"
  /\ view' = [view EXCEPT ![s].hash = hashes]
  /\ pc' = [pc EXCEPT ![s] = "store"]
  /\ UNCHANGED <<arrived, tail, record, published>>

\* UpdateRunningOutput: only a record that is there and running is refreshed.
UpdateRunningOutput(s) ==
  /\ pc[s] = "store"
  /\ record' = IF record.status = "running"
               THEN RecordOf("running", view[s]) ELSE record
  /\ view' = [view EXCEPT ![s] = NoView]
  /\ pc' = [pc EXCEPT ![s] = "read"]
  /\ UNCHANGED <<arrived, tail, published>>

\* The stream ends, or its pipe is closed after WaitDelay.
EndOfStream(s) ==
  /\ pc[s] = "read"
  /\ pc' = [pc EXCEPT ![s] = "closed"]
  /\ UNCHANGED <<arrived, tail, view, record, published>>

-----------------------------------------------------------------------------
(* The worker, and others. *)

ErrorLine == <<[at |-> 0, kind |-> "e"]>>

\* What executePrepared hands to Put; an error of the execution itself is one
\* more line of stderr and of the combined output.
FinalRecord(errorLines) ==
  LET combined == NormalizeLines(CombinedText(chunks)) \o errorLines
  IN [status |-> "terminal",
      stdout |-> NormalizeLines(Redact(StreamText(chunks, "stdout"))),
      stderr |-> NormalizeLines(Redact(StreamText(chunks, "stderr"))) \o errorLines,
      combined |-> combined,
      truncated |-> truncated \/ Len(combined) > MaxLines,
      hash |-> hashes]

\* Faulty form: the worker does not wait for the copying of both streams.
PublishEarly ==
  /\ published = "no"
  /\ pc["stdout"] = "closed"
  /\ record' = FinalRecord(<<>>)
  /\ published' = "ok"
  /\ UNCHANGED <<arrived, tail, pc, view>>

\* command.Wait returns when both streams have been copied; Put stores the
\* record, or fails before it does.
Publish ==
  /\ published = "no"
  /\ \A s \in Streams : pc[s] = "closed"
  /\ \/ /\ \E errorLines \in {<<>>, <<ErrorLine>>} : record' = FinalRecord(errorLines)
        /\ published' = "ok"
     \/ /\ UNCHANGED record
        /\ published' = "failed"
  /\ UNCHANGED <<arrived, tail, pc, view>>

\* Another call's Cleanup takes the record out of the cache.
Forget ==
  /\ record.status # "absent"
  /\ record' = NoRecord
  /\ UNCHANGED <<arrived, tail, pc, view, published>>

Next ==
  \/ \E s \in Streams :
       \/ \E n \in 1..MaxWrite : \E p \in [1..n -> Kinds] : Write(s, p)
       \/ UpdateCombined(s)
       \/ UpdateSum(s)
       \/ UpdateRunningOutput(s)
       \/ EndOfStream(s)
  \/ Publish
  \/ Forget

Spec == Init /\ [][Next]_vars

-----------------------------------------------------------------------------
(* Properties. *)

Retained == Bytes(chunks)

\* The tail is, whatever the chunks it came in, a suffix of what the two
\* streams printed together, of at most Budget bytes; it is marked truncated
\* exactly when something is missing; and of the last Budget bytes only the
\* rest of a cut rune is missing (write, evictLocked, headRuneCut).
RetainedIsTail ==
  LET n == Len(arrived)
      lost == n - Len(Retained)
  IN /\ keptBytes = Len(Retained)
     /\ keptBytes <= Budget
     /\ \A i \in DOMAIN Retained : Retained[i] = [at |-> lost + i, kind |-> arrived[lost + i].kind]
     /\ truncated <=> lost > 0
     /\ \A j \in 1..lost : j + Budget > n => arrived[j].kind = "c"

\* Byte j is part of the rune that byte i of the same stream starts.
InRuneOf(i, j) ==
  /\ i < j
  /\ arrived[i].kind \in {"k1", "k2"}
  /\ arrived[j].stream = arrived[i].stream
  /\ \A m \in (i + 1)..j : arrived[m].stream = arrived[i].stream => arrived[m].kind = "c"

\* "keeping whole runes at the head of what remains": what is left does not
\* begin inside a rune whose start was evicted (evictLocked, headRuneCut).
WholeRunesRetained ==
  LET lost == Len(arrived) - Len(Retained)
  IN Retained # <<>> => ~\E i \in 1..lost : InRuneOf(i, lost + 1)

\* "a secret split across writes is still masked": no text that is shown, of a
\* stream or combined, has both halves of a secret side by side in one stream,
\* however writes and eviction divided it (snapshotLocked, combinedText).
Split(text) ==
  {i \in 1..(Len(text) - 1) : text[i].kind = "k1" /\ text[i + 1].kind = "k2"}

SecretsMasked ==
  /\ \A s \in Streams : Split(StreamText(chunks, s)) = {}
  /\ LET text == CombinedText(chunks)
     IN \A i \in Split(text) : arrived[text[i].at].stream # arrived[text[i + 1].at].stream

\* The refreshed record of a running command puts together a text, a combined
\* text and a digest of three moments: the digest covers every byte that is
\* shown, and once both goroutines are back at reading it covers all that one
\* of the streams has printed, although an older refresh may have been stored
\* over a newer one (write, after it has released the mutex).
BytesOf(text) == {text[i].at : i \in DOMAIN text}
Shown(lines) == UNION {BytesOf(lines[i]) : i \in DOMAIN lines}

LiveRecordCoherent ==
  record.status = "running" =>
    LET covered == UNION {BytesOf(record.hash[s]) : s \in Streams}
        complete == {s \in Streams : record.hash[s] = hashes[s]}
    IN /\ Shown(record.stdout) \cup Shown(record.stderr) \cup Shown(record.combined) \subseteq covered
       /\ (\A s \in Streams : pc[s] \in {"read", "closed"}) => complete # {}

\* The digest of a stream covers its bytes, each once and in order.
Digests(hash, s) ==
  /\ \A i, j \in DOMAIN hash : i < j => hash[i].at < hash[j].at
  /\ \A i \in DOMAIN hash : hash[i].kind = arrived[hash[i].at].kind
  /\ BytesOf(hash) = {i \in DOMAIN arrived : arrived[i].stream = s}

\* The terminal record is complete: its digest covers every byte of both
\* streams, its combined lines are those of the retained tail, it says so if
\* anything is missing, and no late refresh changes it (executePrepared).
FinalRecordComplete ==
  record.status = "terminal" =>
    LET text == CombinedText([i \in DOMAIN Retained |->
                  [stream |-> arrived[Retained[i].at].stream, data |-> <<Retained[i]>>]])
    IN /\ \A s \in Streams : Digests(record.hash[s], s)
       /\ record.combined \in {NormalizeLines(text), Append(NormalizeLines(text), ErrorLine)}
       /\ Len(arrived) > Len(Retained) \/ Len(record.combined) > MaxLines => record.truncated

\* What Filter answers for the record: lines of the record in their order, none
\* twice, at most maxLines. Unless a bound of the context overflows, they are
\* the first of those the filter asks for, which are the lines that pass and
\* the lines around them, and the answer is marked truncated exactly when there
\* are more; a negative context asks for less than the line that passes. The
\* evidence holds a line that reports a failure if the record has one
\* (applyFilter, normalizeFilter, SelectDistilled).
TakenFrom(short, long, S) ==
  \E pick \in [DOMAIN short -> S] :
    /\ \A i, j \in DOMAIN short : i < j => pick[i] < pick[j]
    /\ \A i \in DOMAIN short : short[i] = long[pick[i]]

Subsequence(short, long) == TakenFrom(short, long, DOMAIN long)

\* g is a normalized filter.
Asked(lines, g) ==
  {j \in DOMAIN lines : /\ ~SetsNothing(g)
                        /\ \E i \in DOMAIN lines : /\ Passes(lines[i], g)
                                                 /\ i - g.before <= j
                                                 /\ j <= i + g.after}

Overflows(lines, g) == -g.before > MaxInt - Len(lines) \/ g.after > MaxInt - Len(lines)

FilterAnswers ==
  record.status = "terminal" =>
    LET lines == record.combined
        evidence == SelectDistilled(lines, 2)
    IN /\ \A f \in Filters : ~FilterFails(f) =>
            LET got == ApplyFilter(lines, f)
                g == NormalizeFilter(f)
                asked == Asked(lines, g)
            IN /\ Subsequence(got.lines, lines)
               /\ Len(got.lines) <= g.maxLines
               /\ Overflows(lines, g) \/ /\ TakenFrom(got.lines, lines, asked)
                                         /\ got.truncated <=> Cardinality(asked) > g.maxLines
                                         /\ Len(got.lines) = IF got.truncated THEN g.maxLines ELSE Cardinality(asked)
       /\ Subsequence(evidence.lines, lines)
       /\ evidence.distilled <=> \E i \in DOMAIN lines : Matches(lines[i], EvidenceKeywords)
=============================================================================
