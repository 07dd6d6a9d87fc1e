------------------------------ MODULE Chunking ------------------------------
(***************************************************************************)
(* chunk_text (ai/chunking.py): the loop that packs the paragraphs of a    *)
(* text into overlapping chunks of bounded size.                           *)
(*                                                                         *)
(* Whatever the loop holds is a piece of one string, the stripped          *)
(* paragraphs joined by blank lines, so a chunk is the pair of its first   *)
(* and last position there and a text is the lengths of its paragraphs,    *)
(* which the loop meets one by one.                                        *)
(***************************************************************************)
EXTENDS Integers, Sequences

CONSTANTS
  ChunkSize, ChunkOverlap,   \* the arguments chunk_size and chunk_overlap
  Lengths,                   \* lengths a paragraph can have
  MaxParagraphs              \* bound on the paragraphs of a text

\* chunk_text raises ValueError unless the overlap is smaller than the size.
ASSUME ChunkingAssumption ==
  /\ ChunkSize \in Nat
  /\ ChunkOverlap \in 0..(ChunkSize - 1)
  /\ Lengths \subseteq Nat \ {0}
  /\ MaxParagraphs \in Nat

VARIABLES
  from, to,     \* current is the text from position from to position to
  chunks,       \* chunks appended, each with its first and last position
  paragraphs,   \* paragraphs read, likewise
  done          \* chunk_text has returned

vars == <<from, to, chunks, paragraphs, done>>

Break == 2   \* length of _PARAGRAPH_BREAK

Piece == [first : Nat \ {0}, last : Nat \ {0}]

Init ==
  /\ from = 1 /\ to = 0
  /\ chunks = <<>>
  /\ paragraphs = <<>>
  /\ done = FALSE

Size == to - from + 1

\* Mutant: the loop's comparison is off by one.
OverflowsLate == Size > ChunkSize + 1

\* The condition of the loop in _flush_overflowing.
Overflows == Size > ChunkSize

\* The paragraph after what has been read, if it has that length.
NextParagraph(length) ==
  LET first == IF paragraphs = <<>> THEN 1 ELSE to + Break + 1
  IN  [first |-> first, last |-> first + length - 1]

\* Mutant: the chunk starts after its predecessor's end.
NoTail == to + 1

\* Where current[-chunk_overlap:] begins; [-0:] is all of it.
TailFrom == IF ChunkOverlap = 0 \/ to - ChunkOverlap + 1 < from THEN from ELSE to - ChunkOverlap + 1

Reads(length) ==
  /\ ~Overflows
  /\ ~done
  /\ Len(paragraphs) < MaxParagraphs
  /\ paragraphs' = Append(paragraphs, NextParagraph(length))
  /\ to' = NextParagraph(length).last
  /\ UNCHANGED done

\* The candidate, current and the paragraph, is no longer than a chunk.
Fits(length) == NextParagraph(length).last - from + 1 <= ChunkSize

Join(length) == Reads(length) /\ Fits(length) /\ UNCHANGED <<from, chunks>>

\* Current is a chunk, and the next begins with its last characters; the first
\* paragraph has nothing before it.
Overflow(length) ==
  /\ Reads(length)
  /\ ~Fits(length)
  /\ IF paragraphs = <<>>
       THEN UNCHANGED <<from, chunks>>
       ELSE /\ chunks' = Append(chunks, [first |-> from, last |-> to])
            /\ from' = TailFrom

\* Mutant: the remainder repeats one character less.
HardCutShort ==
  /\ ~done
  /\ Overflows
  /\ chunks' = Append(chunks, [first |-> from, last |-> from + ChunkSize - 1])
  /\ from' = from + ChunkSize - ChunkOverlap + 1
  /\ UNCHANGED <<to, paragraphs, done>>

\* One turn of the loop in _flush_overflowing.
HardCut ==
  /\ ~done
  /\ Overflows
  /\ chunks' = Append(chunks, [first |-> from, last |-> from + ChunkSize - 1])
  /\ from' = from + ChunkSize - ChunkOverlap
  /\ UNCHANGED <<to, paragraphs, done>>

\* Mutant: what is left is dropped.
FinishDropping ==
  /\ ~done
  /\ ~Overflows
  /\ done' = TRUE
  /\ UNCHANGED <<from, to, chunks, paragraphs>>

\* The last piece is a chunk too, unless the text had no paragraph at all.
Finish ==
  /\ ~done
  /\ ~Overflows
  /\ done' = TRUE
  /\ chunks' = IF paragraphs = <<>> THEN chunks
               ELSE Append(chunks, [first |-> from, last |-> to])
  /\ UNCHANGED <<from, to, paragraphs>>

Returned == done /\ UNCHANGED vars

Next ==
  \/ \E length \in Lengths : Join(length) \/ Overflow(length)
  \/ HardCut
  \/ Finish
  \/ Returned

Spec == Init /\ [][Next]_vars
-----------------------------------------------------------------------------
(* Properties.                                                             *)

\* Every variable has its type.
TypeOK ==
  /\ from \in Nat \ {0} /\ to \in Nat
  /\ chunks \in Seq(Piece)
  /\ paragraphs \in Seq(Piece)
  /\ done \in BOOLEAN

\* A chunk is never empty and never longer than chunk_size, so the embedding
\* model's limit holds for any text.
ChunksFit ==
  \A k \in 1..Len(chunks) :
    /\ chunks[k].first <= chunks[k].last
    /\ chunks[k].last - chunks[k].first + 1 <= ChunkSize

\* Nothing of the text is lost: the first chunk begins it, each chunk begins
\* inside or right after its predecessor and ends after it, and the last one
\* ends the text.  (With no overlap a chunk can come twice: [-0:] keeps it all.)
ChunksCover ==
  /\ chunks # <<>> => chunks[1].first = 1
  /\ \A k \in 1..(Len(chunks) - 1) :
       /\ chunks[k + 1].first <= chunks[k].last + 1
       /\ chunks[k].last + (IF ChunkOverlap = 0 THEN 0 ELSE 1) <= chunks[k + 1].last
  /\ done /\ paragraphs # <<>> => chunks # <<>> /\ chunks[Len(chunks)].last = to

\* "a fact split across a chunk boundary still appears whole in at least one
\* chunk": any passage up to one character longer than the overlap does.
FactsStayWhole ==
  done => \A a \in 1..(to - ChunkOverlap) :
            \E k \in 1..Len(chunks) :
              chunks[k].first <= a /\ a + ChunkOverlap <= chunks[k].last

\* "Each chunk after the first repeats the last chunk_overlap characters of its
\* predecessor", or all of a predecessor that is shorter.
ChunksOverlap ==
  ChunkOverlap > 0 =>
    \A k \in 1..(Len(chunks) - 1) :
      \/ chunks[k + 1].first = chunks[k].last - ChunkOverlap + 1
      \/ /\ chunks[k + 1].first = chunks[k].first
         /\ chunks[k].last - chunks[k].first + 1 <= ChunkOverlap
=============================================================================
