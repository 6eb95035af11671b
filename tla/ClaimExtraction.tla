---------------------------- MODULE ClaimExtraction ----------------------------
(***************************************************************************)
(* extractClaims (packages/outbound): the factual claims of an output, as  *)
(* spans of it, while the model is still writing.                          *)
(*                                                                         *)
(* An output is a sequence of symbols, each as wide as one character:      *)
(*   "Fact", "fact"   three words or more, the first one capitalised or not*)
(*   "Dr"             an abbreviation that is written with a period        *)
(*   "perhaps"        a hedge                                              *)
(*   "period", "question"   the marks that may end a sentence              *)
(*   "quote"          a quote or a bracket                                 *)
(*   "fence"          the marker of a code fence                           *)
(*   "bullet", "bar", "space"   a list bullet, a cell border, a space      *)
(*   "newline"                                                             *)
(* Offsets count from 0, as the code's do: symbol i has the offset i - 1.  *)
(* A span is [start, text].                                                *)
(***************************************************************************)
EXTENDS Integers, Sequences, FiniteSetsExt, SequencesExt

CONSTANTS
  Pieces,    \* what the model may write at once, each a sequence of symbols
  MaxLength  \* bound on the symbols of an output

Words       == {"Fact", "fact", "Dr", "perhaps"}
Terminators == {"period", "question"}
Symbols     == Words \cup Terminators \cup
               {"quote", "fence", "bullet", "bar", "space", "newline"}

ASSUME PiecesAssumption == Pieces \subseteq Seq(Symbols) \ {<<>>}
ASSUME MaxLengthAssumption == MaxLength \in Nat

VARIABLES
  output,  \* what the model has written so far
  claims   \* what extractClaims makes of it

vars == <<output, claims>>

-------------------------------------------------------------------------------
At(text, i) == IF i \in DOMAIN text THEN text[i] ELSE "end"

Span(start, text) == [start |-> start, text |-> text]

\* The part of a span from one offset of its text to another.
Part(span, from, to) == Span(span.start + from, SubSeq(span.text, from + 1, to))

\* The positions of a list at which something holds, and its items of a kind, in
\* their order.
Where(list, Holds(_)) == FlattenSeq([i \in DOMAIN list |-> IF Holds(i) THEN <<i>> ELSE <<>>])

Those(list, Holds(_)) ==
  FlattenSeq([i \in DOMAIN list |-> IF Holds(list[i]) THEN <<list[i]>> ELSE <<>>])

\* Where a run of the given symbols that begins at offset `from` ends.
skip(text, from, symbols) ==
  Min({k \in from .. Len(text) : At(text, k + 1) \notin symbols})

NonSpaces(text) == {i \in DOMAIN text : text[i] # "space"}

\* trimSpan that leaves the offset where it was.
trimSpan_unshifted(span) ==
  IF NonSpaces(span.text) = {} THEN Span(span.start + Len(span.text), <<>>)
  ELSE Span(span.start,
            SubSeq(span.text, Min(NonSpaces(span.text)), Max(NonSpaces(span.text))))

\* Without the spaces around it, and starting where its text now does.
trimSpan(span) ==
  IF NonSpaces(span.text) = {} THEN Span(span.start + Len(span.text), <<>>)
  ELSE Part(span, Min(NonSpaces(span.text)) - 1, Max(NonSpaces(span.text)))

\* A text cut at every separator, each part with its own offset.
split(span, separator) ==
  LET text == span.text
      cuts == Where(text, LAMBDA i : text[i] = separator)
      From(k) == IF k = 1 THEN 0 ELSE cuts[k - 1]
      To(k) == IF k \in DOMAIN cuts THEN cuts[k] - 1 ELSE Len(text)
  IN  [k \in 1 .. Len(cuts) + 1 |-> Part(span, From(k), To(k))]

Lines(text) == split(Span(0, text), "newline")

NonEmpty(spans) == Those(spans, LAMBDA span : span.text # <<>>)

Trimmed(spans) == NonEmpty([k \in DOMAIN spans |-> trimSpan(spans[k])])

tableCells(span) == Trimmed(split(span, "bar"))

-------------------------------------------------------------------------------
\* A fence marker at the start of a line, after its indentation.
isFenceLine(line) == At(line.text, skip(line.text, 0, {"space"}) + 1) = "fence"

\* The offsets of the lines with a fence marker, in order.
FenceLines(text) == Those(Lines(text), isFenceLine)

\* fencedCodeRanges that takes an unterminated fence for text.
fencedCodeRanges_terminated(text) ==
  LET fences == FenceLines(text)
  IN  {<<fences[2 * k - 1].start, fences[2 * k].start + Len(fences[2 * k].text) + 1>> :
         k \in 1 .. Len(fences) \div 2}

\* From an opening fence to the end of the line that closes it.  An
\* unterminated fence swallows the rest of the output.
fencedCodeRanges(text) ==
  LET fences == FenceLines(text)
      EndOf(k) == IF 2 * k > Len(fences) THEN Len(text)
                  ELSE fences[2 * k].start + Len(fences[2 * k].text) + 1
  IN  {<<fences[2 * k - 1].start, EndOf(k)>> : k \in 1 .. (Len(fences) + 1) \div 2}

isInside(ranges, index) == \E r \in ranges : r[1] <= index /\ index < r[2]

\* Rules, bare bullets and the separator rows of tables.
isFormattingOnly(text) == ToSet(text) \subseteq {"bullet", "bar", "space"}

\* The length of LEADING_MARKUP: the longest prefix of bullets, each followed
\* by a space.
leadingMarkup(text) ==
  Max({0} \cup {k \in DOMAIN text :
         /\ text[k] = "space"
         /\ \A j \in 1 .. k : text[j] = "space" \/ (text[j] = "bullet" /\ text[j + 1] = "space")})

-------------------------------------------------------------------------------
\* The runs of terminators, each by the offset it starts at.
Runs(text) == {i \in 0 .. Len(text) - 1 : /\ At(text, i + 1) \in Terminators
                                          /\ At(text, i) \notin Terminators}

EndOfRun(text, i) == skip(text, i, Terminators)

\* Whether the run at offset i ends a sentence: it is followed by a space or
\* by nothing, not preceded by an abbreviation, and what comes next starts the
\* way sentences do.
endsSentence(text, i) ==
  LET after == EndOfRun(text, i)
      next  == skip(text, after, {"space"})
  IN  /\ At(text, after + 1) \in {"space", "end"}
      /\ At(text, i) # "Dr"
      /\ At(text, next + 1) \in {"Fact", "Dr", "quote", "end"}

\* A sentence takes the quotes after its terminators; the next one starts
\* after the spaces.
Closing(text, i) == skip(text, EndOfRun(text, i), {"quote"})
Resuming(text, i) == skip(text, Closing(text, i), {"space"})

Ends(text) == Where(text, LAMBDA i : i - 1 \in Runs(text) /\ endsSentence(text, i - 1))

\* splitSentences that drops what follows the last terminator.
splitSentences_terminated(span) ==
  LET text == span.text
      ends == Ends(text)
      From(k) == IF k = 1 THEN 0 ELSE Resuming(text, ends[k - 1] - 1)
  IN  Trimmed([k \in DOMAIN ends |-> Part(span, From(k), Closing(text, ends[k] - 1))])

splitSentences(span) ==
  LET text == span.text
      ends == Ends(text)
      From(k) == IF k = 1 THEN 0 ELSE Resuming(text, ends[k - 1] - 1)
      To(k) == IF k \in DOMAIN ends THEN Closing(text, ends[k] - 1) ELSE Len(text)
  IN  Trimmed([k \in 1 .. Len(ends) + 1 |-> Part(span, From(k), To(k))])

-------------------------------------------------------------------------------
\* The words of a text: at least three in a "Fact", one in the others.
Weight(symbol) == IF symbol \in {"Fact", "fact"} THEN 3 ELSE IF symbol \in Words THEN 1 ELSE 0

MIN_CLAIM_TOKENS == 3

tokens(text) == UNION {{i} \X (1 .. Weight(text[i])) : i \in DOMAIN text}

isSubstantive(text) == Cardinality(tokens(text)) >= MIN_CLAIM_TOKENS

isQuestion(text) ==
  \E i \in DOMAIN text : text[i] = "question" /\ \A j \in i + 1 .. Len(text) : text[j] = "quote"

isHedged(text) == "perhaps" \in ToSet(text)

\* What of a line is looked at: its text without spaces and leading markup.
bodyOf(line) ==
  LET trimmed == trimSpan(line)
  IN  Part(trimmed, leadingMarkup(trimmed.text), Len(trimmed.text))

isPassedOver(line, ranges) ==
  isInside(ranges, line.start) \/ isFormattingOnly(trimSpan(line).text)

\* The sentences of a line, in order.
candidatesOf(line) ==
  LET body == bodyOf(line)
      segments == IF "bar" \in ToSet(body.text) THEN tableCells(body) ELSE <<body>>
  IN  FlattenSeq([k \in DOMAIN segments |-> splitSentences(segments[k])])

isClaim(span) == isSubstantive(span.text) /\ ~isQuestion(span.text) /\ ~isHedged(span.text)

\* The id "claim-n" is the number n, the claim's place in the list.
extractClaims(text) ==
  LET ranges     == fencedCodeRanges(text)
      lines      == Those(Lines(text), LAMBDA line : ~isPassedOver(line, ranges))
      candidates == FlattenSeq([k \in DOMAIN lines |-> candidatesOf(lines[k])])
      found      == Those(candidates, isClaim)
  IN  [n \in DOMAIN found |->
         [id |-> n - 1, text |-> found[n].text, spanStart |-> found[n].start,
          spanEnd |-> found[n].start + Len(found[n].text)]]

-------------------------------------------------------------------------------
Init ==
  /\ output = <<>>
  /\ claims = <<>>

\* Two words are never written without something between them.
Fits(piece) == ~(At(output, Len(output)) \in Words /\ Head(piece) \in Words)

\* The model goes on writing, and what it has written is extracted again.
Write(piece) ==
  /\ Len(output) + Len(piece) <= MaxLength
  /\ Fits(piece)
  /\ output' = output \o piece
  /\ claims' = extractClaims(output')

Next == \E piece \in Pieces : Write(piece)

Spec == Init /\ [][Next]_vars

-------------------------------------------------------------------------------
Slice(text, from, to) == SubSeq(text, from + 1, to)

(* "For every returned claim, output.slice(claim.spanStart, claim.spanEnd)  *)
(* equals claim.text", through all the trimming, stripping and splitting in *)
(* between; and the claims lie one after the other, so that no two of a run *)
(* have one span, which is what tells them apart in the ledger.             *)
SpansPointAtTheirText ==
  \A n \in DOMAIN claims :
    /\ Slice(output, claims[n].spanStart, claims[n].spanEnd) = claims[n].text
    /\ n > 1 => claims[n - 1].spanEnd <= claims[n].spanStart

\* The lines of the output by their number, and whether one is code: it has a
\* fence marker, or an odd number of fence lines above it.
LineOf(offset) == Cardinality({i \in 1 .. offset : output[i] = "newline"}) + 1

IsCode(n) ==
  LET lines == Lines(output)
      Above == {k \in 1 .. n - 1 : isFenceLine(lines[k])}
  IN  isFenceLine(lines[n]) \/ Cardinality(Above) % 2 = 1

(* Fenced code is never mined for claims: no claim touches a line of code,  *)
(* wherever in the output the fences stand and whether or not the last one  *)
(* is closed, and none reaches from one line into the next.                 *)
CodeIsNeverClaimed ==
  \A n \in DOMAIN claims :
    /\ ~IsCode(LineOf(claims[n].spanStart))
    /\ LineOf(claims[n].spanStart) = LineOf(claims[n].spanEnd)

IsClaimed(i) == \E n \in DOMAIN claims : claims[n].spanStart < i /\ i <= claims[n].spanEnd

(* No assertion slips past the audit: on a line that is no code and neither *)
(* asks nor hedges, every run of words is part of a claim, whatever the     *)
(* bullets, cells, abbreviations and quotes around it.                      *)
EveryAssertionClaimed ==
  \A i \in DOMAIN output : output[i] \in {"Fact", "fact"} =>
    LET n == LineOf(i - 1)
    IN  \/ IsClaimed(i)
        \/ IsCode(n)
        \/ \E j \in DOMAIN output : LineOf(j - 1) = n /\ output[j] \in {"perhaps", "question"}

(* A sentence that a terminator and a closing quote end is a claim of its   *)
(* own: "Absorb closing quotes and brackets that belong to this sentence".  *)
QuotedSentenceEnds ==
  \A n \in DOMAIN claims : \A i \in DOMAIN claims[n].text :
    ~(/\ At(claims[n].text, i) = "Fact" /\ At(claims[n].text, i + 1) = "period"
      /\ At(claims[n].text, i + 2) = "quote" /\ At(claims[n].text, i + 3) = "space"
      /\ At(claims[n].text, i + 4) = "Fact")

\* The offset just after the last newline: what is before it will not change.
LastLine(text) == Max({0} \cup {i \in DOMAIN text : text[i] = "newline"})

(* Writing on never takes back what was found in a finished line: a claim   *)
(* keeps its id, its span and its text, whatever follows.                   *)
FinishedLinesStand ==
  [][\A n \in DOMAIN claims :
       claims[n].spanEnd < LastLine(output) =>
         n \in DOMAIN claims' /\ claims'[n] = claims[n]]_vars
===============================================================================
