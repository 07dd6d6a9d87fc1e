--------------------------- MODULE ChunkingProofs ---------------------------
(***************************************************************************)
(* Proofs about Chunking for every chunk size, overlap and text: a chunk   *)
(* fits, the chunks cover the text, overlap as documented, and keep every  *)
(* short passage whole.                                                    *)
(***************************************************************************)
EXTENDS Chunking, TLAPS

Last(s) == s[Len(s)]

\* Piece n may follow chunk c: it repeats the last characters of c, all of them
\* if c is short, which only chunks at the beginning of the text are.
Follows(c, n) ==
  /\ c.last + (IF ChunkOverlap = 0 THEN 0 ELSE 1) <= n.last
  /\ \/ n.first = c.last - ChunkOverlap + 1
     \/ n.first = c.first /\ c.first = 1 /\ c.last - c.first + 1 <= ChunkOverlap
     \/ n.first = c.first /\ ChunkOverlap = 0

Chained(s) == \A k \in 1..(Len(s) - 1) : Follows(s[k], s[k + 1])

FitsChunk(c) == c.first <= c.last /\ c.last - c.first + 1 <= ChunkSize

AllFit(s) == \A k \in 1..Len(s) : FitsChunk(s[k])

Holds(c, a) == c.first <= a /\ a + ChunkOverlap <= c.last

\* Every passage that ends by position n is whole in some chunk.
KeepsWhole(s, n) == \A a \in 1..(n - ChunkOverlap) : \E k \in 1..Len(s) : Holds(s[k], a)

\* The chunks of what has been cut off so far.
ChunksInv(s) ==
  /\ AllFit(s)
  /\ Chained(s)
  /\ s # <<>> => s[1].first = 1 /\ KeepsWhole(s, Last(s).last)

Current == [first |-> from, last |-> to]

\* What is held is the rest of the text, after the last chunk.
CurrentInv ==
  /\ paragraphs = <<>> => to = 0 /\ from = 1 /\ chunks = <<>>
  /\ paragraphs # <<>> => from <= to
  /\ ~done /\ chunks = <<>> => from = 1
  /\ ~done /\ chunks # <<>> => Follows(Last(chunks), Current)
  /\ done /\ paragraphs # <<>> => chunks # <<>> /\ Last(chunks).last = to

IInv == TypeOK /\ ChunksInv(chunks) /\ CurrentInv
-----------------------------------------------------------------------------

\* A piece that fits and continues the chunks keeps them as they should be.
LEMMA AppendKeeps ==
  ASSUME NEW s \in Seq(Piece), NEW c \in Piece, ChunksInv(s), FitsChunk(c),
         s = <<>> => c.first = 1,
         s # <<>> => Follows(Last(s), c)
  PROVE  /\ ChunksInv(Append(s, c))
         /\ Append(s, c) \in Seq(Piece)
         /\ Append(s, c) # <<>>
         /\ Last(Append(s, c)) = c
<1> DEFINE t == Append(s, c)
<1>1. /\ t \in Seq(Piece) /\ Len(t) = Len(s) + 1 /\ Len(s) \in Nat
      /\ \A k \in 1..Len(s) : t[k] = s[k]
      /\ t[Len(s) + 1] = c
  OBVIOUS
<1>2. t # <<>> /\ Last(t) = c
  BY <1>1 DEF Last
<1>3. AllFit(t)
  BY <1>1 DEF AllFit, ChunksInv
<1>4. Chained(t)
  <2> SUFFICES ASSUME NEW k \in 1..(Len(t) - 1) PROVE Follows(t[k], t[k + 1])
    BY DEF Chained
  <2>1. CASE k = Len(s)
    BY <2>1, <1>1 DEF Last
  <2>2. CASE k # Len(s)
    <3>1. k \in 1..(Len(s) - 1) /\ k \in 1..Len(s) /\ k + 1 \in 1..Len(s)
      BY <2>2, <1>1
    <3> QED BY <3>1, <1>1 DEF Chained, ChunksInv
  <2> QED BY <2>1, <2>2
<1>5. t[1].first = 1
  <2>1. CASE s = <<>>
    BY <2>1, <1>1
  <2>2. CASE s # <<>>
    <3>1. 1 \in 1..Len(s)
      BY <2>2, <1>1
    <3> QED BY <3>1, <2>2, <1>1 DEF ChunksInv
  <2> QED BY <2>1, <2>2
<1>6. KeepsWhole(t, c.last)
  <2> SUFFICES ASSUME NEW a \in 1..(c.last - ChunkOverlap)
               PROVE  \E k \in 1..Len(t) : Holds(t[k], a)
    BY DEF KeepsWhole
  <2>0. ChunkOverlap \in Nat /\ c.first \in Nat /\ c.last \in Nat
    BY ChunkingAssumption DEF Piece
  <2>1. CASE s # <<>> /\ a \in 1..(Last(s).last - ChunkOverlap)
    <3>1. PICK k \in 1..Len(s) : Holds(s[k], a)
      BY <2>1 DEF ChunksInv, KeepsWhole
    <3> QED BY <3>1, <1>1
  <2>2. CASE c.first <= a
    <3>1. Holds(c, a)
      BY <2>2, <2>0 DEF Holds
    <3> QED BY <3>1, <1>1
  <2>3. s # <<>> /\ c.first > a => a \in 1..(Last(s).last - ChunkOverlap)
    <3> SUFFICES ASSUME s # <<>>, c.first > a PROVE a \in 1..(Last(s).last - ChunkOverlap)
      OBVIOUS
    <3>1. Len(s) \in 1..Len(s) /\ Last(s) \in Piece
      BY <1>1 DEF Last
    <3>2. CASE c.first = Last(s).last - ChunkOverlap + 1
      BY <3>2, <3>1, <2>0 DEF Piece
    <3>3. CASE c.first = 1
      BY <3>3, <2>0
    <3>4. CASE c.first = Last(s).first /\ ChunkOverlap = 0
      <4>1. Last(s).first <= Last(s).last
        BY <3>1, <1>1 DEF ChunksInv, AllFit, FitsChunk, Last
      <4> QED BY <4>1, <3>4, <3>1, <2>0 DEF Piece
    <3> QED BY <3>2, <3>3, <3>4 DEF Follows
  <2> QED BY <2>0, <2>1, <2>2, <2>3
<1> QED BY <1>1, <1>2, <1>3, <1>4, <1>5, <1>6 DEF ChunksInv

\* The loop starts with nothing cut off.
LEMMA InitIInv == Init => IInv
<1> SUFFICES ASSUME Init PROVE IInv
  OBVIOUS
<1>1. TypeOK
  <2>1. done \in BOOLEAN
    BY DEF Init
  <2>2. from \in Nat \ {0} /\ to \in Nat
    BY DEF Init
  <2>3. chunks \in Seq(Piece) /\ paragraphs \in Seq(Piece)
    BY DEF Init
  <2> QED BY <2>1, <2>2, <2>3 DEF TypeOK
<1>2. ChunksInv(chunks)
  BY DEF Init, ChunksInv, AllFit, Chained
<1>3. CurrentInv
  BY DEF Init, CurrentInv
<1> QED BY <1>1, <1>2, <1>3 DEF IInv

\* The next paragraph lies after what has been read and is not empty.
LEMMA NextParagraphType ==
  ASSUME TypeOK, NEW length \in Lengths
  PROVE  /\ NextParagraph(length) \in Piece
         /\ NextParagraph(length).first <= NextParagraph(length).last
         /\ NextParagraph(length).first >= to + 1 \/ paragraphs = <<>>
         /\ paragraphs # <<>> => NextParagraph(length).last > to
         /\ paragraphs = <<>> => NextParagraph(length) = [first |-> 1, last |-> length]
<1>1. length \in Nat \ {0} /\ to \in Nat
  BY ChunkingAssumption DEF TypeOK
<1> QED BY <1>1 DEF NextParagraph, Piece, Break

\* Reading a paragraph into what is held.
LEMMA JoinKeeps ==
  ASSUME IInv, NEW length \in Lengths, Join(length)
  PROVE  IInv'
<1>1. TypeOK /\ ~done /\ ~done' /\ from' = from /\ chunks' = chunks /\ done' \in BOOLEAN
  BY DEF IInv, Join, Reads, TypeOK
<1>2. /\ paragraphs' = Append(paragraphs, NextParagraph(length))
      /\ to' = NextParagraph(length).last /\ to' \in Nat \ {0}
      /\ paragraphs \in Seq(Piece) /\ NextParagraph(length) \in Piece
  <2>1. paragraphs \in Seq(Piece) /\ NextParagraph(length) \in Piece
    BY <1>1, NextParagraphType DEF TypeOK
  <2> QED BY <2>1 DEF Join, Reads, Piece
<1>3. paragraphs' \in Seq(Piece) /\ paragraphs' # <<>>
  BY <1>2
<1>4. TypeOK'
  BY <1>1, <1>2, <1>3 DEF TypeOK
<1>5. from <= to' /\ (paragraphs # <<>> => to < to')
  BY <1>1, <1>2, NextParagraphType DEF IInv, CurrentInv, TypeOK
<1>6. ASSUME chunks # <<>> PROVE Follows(Last(chunks), Current')
  <2>1. Follows(Last(chunks), Current) /\ to < to' /\ Last(chunks) \in Piece
    <3>1. Len(chunks) \in 1..Len(chunks)
      BY <1>6, <1>1 DEF TypeOK
    <3> QED BY <3>1, <1>1, <1>5, <1>6 DEF IInv, CurrentInv, TypeOK, Last
  <2> QED BY <2>1, <1>1, <1>2 DEF Follows, Current, Piece, TypeOK
<1>7. CurrentInv'
  BY <1>1, <1>3, <1>5, <1>6 DEF IInv, CurrentInv
<1>8. ChunksInv(chunks')
  BY <1>1 DEF IInv
<1> QED BY <1>4, <1>7, <1>8 DEF IInv

\* Where the chunk after a full one begins.
LEMMA TailFollows ==
  ASSUME IInv, ~done, paragraphs # <<>>, NEW n \in Nat \ {0}, to < n
  PROVE  /\ TailFrom \in Nat \ {0} /\ TailFrom <= to + 1
         /\ Follows(Current, [first |-> TailFrom, last |-> n])
<1>1. /\ from \in Nat \ {0} /\ to \in Nat /\ from <= to /\ ChunkOverlap \in Nat
      /\ Current \in Piece
  BY ChunkingAssumption DEF IInv, TypeOK, CurrentInv, Current, Piece
<1>2. from = 1 \/ to - from + 1 > ChunkOverlap \/ ChunkOverlap = 0
  <2>1. CASE chunks = <<>>
    BY <2>1 DEF IInv, CurrentInv
  <2>2. CASE chunks # <<>>
    <3>1. Follows(Last(chunks), Current) /\ Last(chunks) \in Piece
      <4>1. Len(chunks) \in 1..Len(chunks)
        BY <2>2 DEF IInv, TypeOK
      <4> QED BY <4>1, <2>2 DEF IInv, CurrentInv, TypeOK, Last
    <3> QED BY <3>1, <1>1 DEF Follows, Current, Piece
  <2> QED BY <2>1, <2>2
<1> QED BY <1>1, <1>2 DEF TailFrom, Follows, Current

\* What is held becomes a chunk and the paragraph begins the next.
LEMMA OverflowKeeps ==
  ASSUME IInv, NEW length \in Lengths, Overflow(length)
  PROVE  IInv'
<1>1. TypeOK /\ ~done /\ ~done' /\ ~Overflows /\ done' \in BOOLEAN
  BY DEF IInv, Overflow, Reads, TypeOK
<1>2. /\ paragraphs' = Append(paragraphs, NextParagraph(length))
      /\ to' = NextParagraph(length).last /\ to' \in Nat \ {0}
      /\ paragraphs \in Seq(Piece) /\ NextParagraph(length) \in Piece
  <2>1. paragraphs \in Seq(Piece) /\ NextParagraph(length) \in Piece
    BY <1>1, NextParagraphType DEF TypeOK
  <2> QED BY <2>1 DEF Overflow, Reads, Piece
<1>3. paragraphs' \in Seq(Piece) /\ paragraphs' # <<>>
  BY <1>2
<1>4. CASE paragraphs = <<>>
  <2>1. from' = 1 /\ chunks' = <<>> /\ chunks = <<>> /\ from = 1
    BY <1>4 DEF IInv, CurrentInv, Overflow
  <2>2. TypeOK' /\ CurrentInv'
    <3>1. TypeOK'
      <4>1. from' \in Nat \ {0} /\ to' \in Nat
        BY <2>1, <1>2
      <4>2. chunks' \in Seq(Piece)
        BY <2>1
      <4> QED BY <4>1, <4>2, <1>1, <1>3 DEF TypeOK
    <3>2. CurrentInv'
      BY <2>1, <1>1, <1>2, <1>3 DEF CurrentInv
    <3> QED BY <3>1, <3>2
  <2>3. ChunksInv(chunks')
    BY <2>1 DEF IInv
  <2> QED BY <2>2, <2>3 DEF IInv
<1>5. CASE paragraphs # <<>>
  <2>1. chunks' = Append(chunks, Current) /\ from' = TailFrom
    BY <1>5 DEF Overflow, Current
  <2>2. to < to'
    BY <1>5, <1>1, <1>2, NextParagraphType
  <2>3. TailFrom \in Nat \ {0} /\ TailFrom <= to + 1 /\ Follows(Current, Current')
    BY <1>1, <1>2, <1>5, <2>1, <2>2, TailFollows DEF Current
  <2>4. Current \in Piece /\ FitsChunk(Current)
    BY <1>1, <1>5, ChunkingAssumption
    DEF IInv, TypeOK, CurrentInv, Current, Piece, FitsChunk, Overflows, Size
  <2>5. /\ chunks = <<>> => Current.first = 1
        /\ chunks # <<>> => Follows(Last(chunks), Current)
    BY <1>1 DEF IInv, CurrentInv, Current
  <2>6. /\ ChunksInv(chunks') /\ chunks' \in Seq(Piece)
        /\ chunks' # <<>> /\ Last(chunks') = Current
    BY <2>1, <2>4, <2>5, <1>1, AppendKeeps DEF IInv, TypeOK
  <2>7. TypeOK'
    BY <1>1, <1>2, <1>3, <2>1, <2>3, <2>6 DEF TypeOK
  <2>8. from' <= to'
    BY <2>1, <2>2, <2>3, <1>1, <1>2 DEF TypeOK
  <2>9. CurrentInv'
    BY <1>1, <1>3, <2>3, <2>6, <2>8 DEF CurrentInv
  <2> QED BY <2>6, <2>7, <2>9 DEF IInv
<1> QED BY <1>4, <1>5

\* One turn of the cutting loop.
LEMMA HardCutKeeps ==
  ASSUME IInv, HardCut
  PROVE  IInv'
<1> DEFINE c == [first |-> from, last |-> from + ChunkSize - 1]
<1>1. /\ TypeOK /\ ~done /\ ~done' /\ done' \in BOOLEAN /\ to - from + 1 > ChunkSize
      /\ chunks' = Append(chunks, c) /\ from' = from + ChunkSize - ChunkOverlap
      /\ to' = to /\ paragraphs' = paragraphs
  BY DEF IInv, HardCut, Overflows, Size, TypeOK
<1>2. /\ from \in Nat \ {0} /\ to \in Nat /\ ChunkSize \in Nat /\ ChunkOverlap \in Nat
      /\ ChunkOverlap < ChunkSize
  BY <1>1, ChunkingAssumption DEF TypeOK
<1>3. c \in Piece /\ FitsChunk(c) /\ c.last < to
  BY <1>1, <1>2 DEF Piece, FitsChunk
<1>4. paragraphs # <<>>
  BY <1>1, <1>2 DEF IInv, CurrentInv
<1>5. chunks = <<>> => c.first = 1
  BY <1>1 DEF IInv, CurrentInv
<1>6. ASSUME chunks # <<>> PROVE Follows(Last(chunks), c)
  <2>1. Follows(Last(chunks), Current) /\ Last(chunks) \in Piece /\ FitsChunk(Last(chunks))
    <3>1. Len(chunks) \in 1..Len(chunks)
      BY <1>6, <1>1 DEF TypeOK
    <3> QED BY <3>1, <1>1, <1>6 DEF IInv, CurrentInv, TypeOK, Last, ChunksInv, AllFit
  <2>2. Last(chunks).first \in Nat /\ Last(chunks).last \in Nat
    BY <2>1 DEF Piece
  <2> QED BY <2>1, <2>2, <1>2 DEF Follows, Current, FitsChunk
<1>7. /\ ChunksInv(chunks') /\ chunks' \in Seq(Piece)
      /\ chunks' # <<>> /\ Last(chunks') = c
  BY <1>1, <1>3, <1>5, <1>6, AppendKeeps DEF IInv, TypeOK
<1>8. from' \in Nat \ {0} /\ from' <= to' /\ Follows(c, Current')
  BY <1>1, <1>2, <1>3 DEF Follows, Current
<1>9. TypeOK'
  BY <1>1, <1>7, <1>8 DEF TypeOK
<1>10. CurrentInv'
  BY <1>1, <1>4, <1>7, <1>8 DEF CurrentInv
<1> QED BY <1>7, <1>9, <1>10 DEF IInv

\* The rest of the text becomes the last chunk.
LEMMA FinishKeeps ==
  ASSUME IInv, Finish
  PROVE  IInv'
<1>1. /\ TypeOK /\ ~done /\ done' /\ ~Overflows
      /\ from' = from /\ to' = to /\ paragraphs' = paragraphs
  BY DEF IInv, Finish, TypeOK
<1>2. CASE paragraphs = <<>>
  <2>1. chunks' = chunks
    BY <1>2 DEF Finish
  <2> QED BY <2>1, <1>1, <1>2 DEF IInv, TypeOK, CurrentInv
<1>3. CASE paragraphs # <<>>
  <2>1. chunks' = Append(chunks, Current)
    BY <1>3 DEF Finish, Current
  <2>2. Current \in Piece /\ FitsChunk(Current)
    BY <1>1, <1>3, ChunkingAssumption
    DEF IInv, TypeOK, CurrentInv, Current, Piece, FitsChunk, Overflows, Size
  <2>3. /\ chunks = <<>> => Current.first = 1
        /\ chunks # <<>> => Follows(Last(chunks), Current)
    BY <1>1 DEF IInv, CurrentInv, Current
  <2>4. /\ ChunksInv(chunks') /\ chunks' \in Seq(Piece)
        /\ chunks' # <<>> /\ Last(chunks') = Current
    BY <2>1, <2>2, <2>3, <1>1, AppendKeeps DEF IInv, TypeOK
  <2>5. Last(chunks').last = to'
    BY <2>4, <1>1 DEF Current
  <2> QED BY <2>4, <2>5, <1>1, <1>3 DEF IInv, TypeOK, CurrentInv
<1> QED BY <1>2, <1>3

\* The invariant of the loop, for every size, overlap and text.
THEOREM LoopInvariant == Spec => []IInv
<1>1. ASSUME IInv, [Next]_vars PROVE IInv'
  <2>1. ASSUME NEW length \in Lengths, Join(length) PROVE IInv'
    BY <1>1, <2>1, JoinKeeps
  <2>2. ASSUME NEW length \in Lengths, Overflow(length) PROVE IInv'
    BY <1>1, <2>2, OverflowKeeps
  <2>3. CASE HardCut
    BY <1>1, <2>3, HardCutKeeps
  <2>4. CASE Finish
    BY <1>1, <2>4, FinishKeeps
  <2>5. CASE UNCHANGED vars
    BY <1>1, <2>5 DEF vars, IInv, TypeOK, CurrentInv, Current
  <2> QED BY <1>1, <2>1, <2>2, <2>3, <2>4, <2>5 DEF Next, Returned
<1> QED BY <1>1, InitIInv, PTL DEF Spec
-----------------------------------------------------------------------------

\* The loop's variables always have their types.
THEOREM TypeCorrect == Spec => []TypeOK
<1>1. IInv => TypeOK BY DEF IInv
<1> QED BY <1>1, LoopInvariant, PTL

\* No chunk that chunk_text returns is empty or longer than chunk_size.
THEOREM ChunksAlwaysFit == Spec => []ChunksFit
<1>1. IInv => ChunksFit BY DEF IInv, ChunksInv, AllFit, FitsChunk, ChunksFit
<1> QED BY <1>1, LoopInvariant, PTL

\* The chunks have no gap and end where the text ends.
THEOREM NothingIsLost == Spec => []ChunksCover
<1>1. ASSUME IInv PROVE ChunksCover
  <2>1. chunks # <<>> => chunks[1].first = 1
    BY <1>1 DEF IInv, ChunksInv
  <2>2. ASSUME NEW k \in 1..(Len(chunks) - 1)
        PROVE  /\ chunks[k + 1].first <= chunks[k].last + 1
               /\ chunks[k].last + (IF ChunkOverlap = 0 THEN 0 ELSE 1) <= chunks[k + 1].last
    <3>1. /\ Follows(chunks[k], chunks[k + 1]) /\ FitsChunk(chunks[k])
          /\ chunks[k] \in Piece /\ chunks[k + 1] \in Piece
      <4>1. k \in 1..Len(chunks) /\ k + 1 \in 1..Len(chunks) /\ chunks \in Seq(Piece)
        BY <1>1 DEF IInv, TypeOK
      <4> QED BY <4>1, <1>1 DEF IInv, ChunksInv, Chained, AllFit
    <3>2. /\ chunks[k].first \in Nat /\ chunks[k].last \in Nat /\ chunks[k + 1].first \in Nat
          /\ chunks[k + 1].last \in Nat /\ ChunkOverlap \in Nat
      BY <3>1, ChunkingAssumption DEF Piece
    <3> QED BY <3>1, <3>2 DEF Follows, FitsChunk
  <2>3. done /\ paragraphs # <<>> => chunks # <<>> /\ chunks[Len(chunks)].last = to
    BY <1>1 DEF IInv, CurrentInv, Last
  <2> QED BY <2>1, <2>2, <2>3 DEF ChunksCover
<1> QED BY <1>1, LoopInvariant, PTL

\* Each chunk repeats the end of its predecessor, as the docstring says.
THEOREM OverlapAsDocumented == Spec => []ChunksOverlap
<1>1. ASSUME IInv PROVE ChunksOverlap
  <2> SUFFICES ASSUME ChunkOverlap > 0, NEW k \in 1..(Len(chunks) - 1)
               PROVE  \/ chunks[k + 1].first = chunks[k].last - ChunkOverlap + 1
                      \/ /\ chunks[k + 1].first = chunks[k].first
                         /\ chunks[k].last - chunks[k].first + 1 <= ChunkOverlap
    BY DEF ChunksOverlap
  <2> QED BY <1>1 DEF IInv, ChunksInv, Chained, Follows
<1> QED BY <1>1, LoopInvariant, PTL

\* A passage up to one character longer than the overlap is never torn apart.
THEOREM ShortPassagesStayWhole == Spec => []FactsStayWhole
<1>1. ASSUME IInv PROVE FactsStayWhole
  <2> SUFFICES ASSUME done, NEW a \in 1..(to - ChunkOverlap)
               PROVE  \E k \in 1..Len(chunks) :
                        chunks[k].first <= a /\ a + ChunkOverlap <= chunks[k].last
    BY DEF FactsStayWhole
  <2>1. to \in Nat /\ ChunkOverlap \in Nat /\ to # 0
    BY <1>1, ChunkingAssumption DEF IInv, TypeOK
  <2>2. chunks # <<>> /\ Last(chunks).last = to
    BY <1>1, <2>1 DEF IInv, CurrentInv
  <2>3. KeepsWhole(chunks, to)
    BY <1>1, <2>2 DEF IInv, ChunksInv
  <2> QED BY <2>3 DEF KeepsWhole, Holds
<1> QED BY <1>1, LoopInvariant, PTL
=============================================================================
