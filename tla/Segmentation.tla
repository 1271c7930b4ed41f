---------------------------- MODULE Segmentation ----------------------------
(***************************************************************************)
(* Pass 1 of a source's ingestion (core/src/ingestion/segmenter.ts) and    *)
(* the storing of its sections (pipeline.ts, semantic-store.ts).  The      *)
(* paragraphs are read batch by batch; for each batch the model names the  *)
(* sections by their first and last paragraph, an answer that is not a     *)
(* contiguous cover of the batch gives way to sections of a fixed size,    *)
(* and the verbatim text is sliced by the boundaries kept.                 *)
(*                                                                         *)
(* JSON numbers need not be whole: a mark h stands for the number h / 2.   *)
(***************************************************************************)
EXTENDS Integers, Sequences, SequencesExt

CONSTANTS
  BatchSize,         \* BATCH_SIZE: paragraphs of one prompt
  BatchBudget,       \* MAX_BATCH_PROMPT_CHARS
  FallbackSize,      \* FALLBACK_SECTION_SIZE
  Length,            \* the lengths a numbered paragraph may have
  MaxParagraphs,     \* bound on the paragraphs of a source
  MaxMarked          \* bound on the sections of one answer

ASSUME SegmentationConstants ==
  /\ BatchSize \in Nat \ {0} /\ BatchBudget \in Nat /\ FallbackSize \in Nat \ {0}
  /\ Length \subseteq Nat /\ MaxParagraphs \in Nat /\ MaxMarked \in Nat

VARIABLES
  lengths,       \* the paragraphs of the source, by their length
  segmenting,    \* where the pass is
  nextPara,      \* the first paragraph no batch has held
  boundaries,    \* the boundaries kept, as marks
  sections       \* the source's section rows: the paragraphs of each

segmentationVars == <<lengths, segmenting, nextPara, boundaries, sections>>

Paragraphs == 1..Len(lengths)

Para(n) == 2 * n

Marks == Para(1)..Para(MaxParagraphs)

Boundary == [start : Marks, end : Marks]

\* An entry of an answer that is null.
Null == [start |-> 0, end |-> 0]

\* What the model may answer.  The empty answer stands for every one that is
\* given up at its first entry, or before: no JSON, no sections, a blank topic,
\* a mark that is no number; and <<Null>> for `sections` that are no list too.
Answer == UNION {[1..n -> Boundary \cup {Null}] : n \in 0..MaxMarked}

SegmentationInit ==
  /\ lengths = <<>>
  /\ segmenting = "parsing"
  /\ nextPara = 1
  /\ boundaries = <<>>
  /\ sections = <<>>

\* The parser numbers the paragraphs it finds, however many those are.
Parses ==
  /\ segmenting = "parsing"
  /\ segmenting' = "batches"
  /\ \E n \in 0..MaxParagraphs : lengths' \in [1..n -> Length]
  /\ UNCHANGED <<nextPara, boundaries, sections>>

\* batchParagraphs: each paragraph joins the batch before it unless that one is
\* full, by count or by length.  A paragraph longer than the budget has a batch
\* of its own and is cut for the prompt only.
Batch[p \in Paragraphs] ==
  LET prior == Batch[p - 1]
  IN  IF p = 1 \/ p - prior.first >= BatchSize \/ prior.chars + lengths[p] > BatchBudget
      THEN [first |-> p, chars |-> lengths[p]]
      ELSE [prior EXCEPT !.chars = @ + lengths[p]]

BatchEnd(first) ==
  CHOOSE q \in Paragraphs :
    /\ Batch[q].first = first
    /\ q = Len(lengths) \/ Batch[q + 1].first # first

\* Mutant: each section need only begin behind the one before it.
UsableWithGaps(answer, first, last) ==
  /\ answer # <<>>
  /\ \A i \in DOMAIN answer :
       /\ IF i = 1 THEN answer[i].start = Para(first) ELSE answer[i].start > answer[i - 1].end
       /\ answer[i].start <= answer[i].end /\ answer[i].end <= Para(last)
  /\ answer[Len(answer)].end = Para(last)

\* Section i goes on where the one before it ended.
Continues(answer, i, first, last) ==
  /\ answer[i].start = IF i = 1 THEN Para(first) ELSE answer[i - 1].end + Para(1)
  /\ answer[i].start <= answer[i].end /\ answer[i].end <= Para(last)

\* parseBoundaries: ascending, contiguous and exactly covering the batch.
Usable(answer, first, last) ==
  /\ answer # <<>>
  /\ \A i \in DOMAIN answer : Continues(answer, i, first, last)
  /\ answer[Len(answer)].end = Para(last)

\* A null entry cannot be taken apart; one behind a section that does not fit is
\* never reached.
Throws(answer, first, last) ==
  \E i \in DOMAIN answer : answer[i] = Null /\ \A j \in 1..(i - 1) : Continues(answer, j, first, last)

FallbackBoundaries(first, last) ==
  [i \in 1..((last - first) \div FallbackSize + 1) |->
     LET start == first + (i - 1) * FallbackSize
         full  == start + FallbackSize - 1
     IN  [start |-> Para(start), end |-> Para(IF full < last THEN full ELSE last)]]

\* segmentBatch, the next turn of segmentParagraphs' loop.
SegmentBatch(answer) ==
  LET last == BatchEnd(nextPara)
  IN  /\ segmenting = "batches" /\ nextPara \in Paragraphs
      /\ ~Throws(answer, nextPara, last)
      /\ boundaries' = boundaries \o
           IF Usable(answer, nextPara, last) THEN answer ELSE FallbackBoundaries(nextPara, last)
      /\ nextPara' = last + 1
      /\ UNCHANGED <<lengths, segmenting, sections>>

\* The model's stream throws, which fails the run.
SegmentFails ==
  /\ segmenting = "batches" /\ nextPara \in Paragraphs
  /\ segmenting' = "failed"
  /\ UNCHANGED <<lengths, nextPara, boundaries, sections>>

\* parseBoundaries throws over the answer, which fails the run too.
SegmentThrows(answer) ==
  /\ segmenting = "batches" /\ nextPara \in Paragraphs
  /\ Throws(answer, nextPara, BatchEnd(nextPara))
  /\ segmenting' = "thrown"
  /\ UNCHANGED <<lengths, nextPara, boundaries, sections>>

\* toNewSection: Array.slice drops the fraction of either of its bounds.
ToNewSection(boundary) ==
  LET from == (boundary.start - Para(1)) \div 2
  IN  [k \in 1..(boundary.end \div 2 - from) |-> from + k]

Whole(boundary) == boundary.start % 2 = 0 /\ boundary.end % 2 = 0

\* insertSections replaces the source's rows in one transaction; nothing is
\* done for none.  para_start and para_end are integer columns: a fraction is
\* refused, and the rows stay as they were.
InsertSections ==
  /\ segmenting = "batches" /\ nextPara \notin Paragraphs
  /\ IF \A i \in DOMAIN boundaries : Whole(boundaries[i])
     THEN /\ sections' = IF boundaries = <<>> THEN sections
                         ELSE [i \in DOMAIN boundaries |-> ToNewSection(boundaries[i])]
          /\ segmenting' = "stored"
     ELSE segmenting' = "refused" /\ UNCHANGED sections
  /\ UNCHANGED <<lengths, nextPara, boundaries>>

\* A second runner of the same source, whose row it read before the first one
\* left it, segments the source again.
SegmentsAgain ==
  /\ segmenting \in {"failed", "thrown", "stored", "refused"}
  /\ segmenting' = "batches" /\ nextPara' = 1 /\ boundaries' = <<>>
  /\ UNCHANGED <<lengths, sections>>

SegmentationNext ==
  \/ \E answer \in Answer : SegmentBatch(answer) \/ SegmentThrows(answer)
  \/ Parses \/ SegmentFails \/ InsertSections \/ SegmentsAgain

SegmentationSpec == SegmentationInit /\ [][SegmentationNext]_segmentationVars

-----------------------------------------------------------------------------
SegmentationTypeOK ==
  /\ lengths \in Seq(Length) /\ Len(lengths) <= MaxParagraphs
  /\ segmenting \in {"parsing", "batches", "failed", "thrown", "stored", "refused"}
  /\ nextPara \in 1..(Len(lengths) + 1)
  /\ boundaries \in Seq(Boundary)
  /\ sections \in Seq(Seq(Paragraphs))

\* Whatever the model answers, however the paragraphs fall into batches and
\* however often the source is read, its section rows are the whole source:
\* every paragraph once, in order, no section empty.  A pass that ends without
\* such rows has left those before it alone, and had a call that failed, an
\* answer with a null entry, or a boundary that was no whole number (segmenter.ts,
\* pipeline.ts toNewSection, semantic-store.ts insertSections).
SectionsCover ==
  /\ sections # <<>> \/ (segmenting = "stored" /\ lengths # <<>>) =>
       /\ FlattenSeq(sections) = [p \in Paragraphs |-> p]
       /\ \A i \in DOMAIN sections : sections[i] # <<>>
  /\ segmenting = "refused" => \E i \in DOMAIN boundaries : ~Whole(boundaries[i])
=============================================================================
