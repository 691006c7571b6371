------------------------------ MODULE Chunking ------------------------------
(***************************************************************************)
(* The chunkers of the upload path.  A text is a sequence of characters,    *)
(* sentences or lines; a chunk is the sequence of their positions.          *)
(*                                                                         *)
(* A character takes one token or more, given by `width` (a word of one      *)
(* token counts as one character).  Decoding only some of its tokens gives   *)
(* U+FFFD: the character x is then written -x, a text of one token.  A text  *)
(* encoded again need not have the widths it had.                           *)
(***************************************************************************)
EXTENDS Ranking

Interval(from, to) == [i \in 1..(to - from + 1) |-> from + i - 1]

(* tiktoken's encode and decode; a token is told by the character it is of.   *)
TokensTaken(x, width) == IF x > 0 THEN width[x] ELSE 1
Encode(text, width) == FlattenSeq([i \in 1..Len(text) |-> [k \in 1..TokensTaken(text[i], width) |-> text[i]]])

DecodeTokens(tokens, width) ==
    LET firsts == SelectSeq(Interval(1, Len(tokens)), LAMBDA k : k = 1 \/ tokens[k - 1] # tokens[k])
        here(x) == Cardinality({k \in 1..Len(tokens) : tokens[k] = x})
    IN [i \in 1..Len(firsts) |-> LET x == tokens[firsts[i]]
                                 IN IF here(x) < TokensTaken(x, width) THEN 0 - x ELSE x]

(* The token windows of FixedSizeChunker.chunk, up to the first that reaches  *)
(* the end, each decoded on its own.                                         *)
Windows(tokens, width, size, overlap) ==
    LET n == Len(tokens)
        step == size - overlap
        starts == {s \in 1..n : (s - 1) % step = 0 /\ (s = 1 \/ s - step + size - 1 < n)}
        end(s) == IF s + size - 1 < n THEN s + size - 1 ELSE n
    IN [k \in 1..Cardinality(starts) |->
          LET s == 1 + (k - 1) * step IN DecodeTokens(SubSeq(tokens, s, end(s)), width)]

(* `ratio` is <<p, q>> for p / q; SlidingWindowChunker is the same with        *)
(* another one.  A text of one window is returned as it came.                *)
Overlap(size, ratio) == (size * ratio[1]) \div ratio[2]
FixedSizeChunk(text, width, size, ratio) ==
    LET tokens == Encode(text, width)
    IN CASE ratio[1] >= ratio[2] -> ValueError
         [] ratio[1] < ratio[2] /\ text = <<>> -> <<>>
         [] ratio[1] < ratio[2] /\ text # <<>> /\ Len(tokens) <= size -> <<text>>
         [] OTHER -> Windows(tokens, width, size, Overlap(size, ratio))

(* Children are cut from the text of each parent, encoded again with the      *)
(* widths `again`; a child knows the index of its parent.                    *)
chunk_with_parents(text, width, again, parentSize, childSize, ratio) ==
    LET parents == FixedSizeChunk(text, width, parentSize, ratio)
        childrenOf(i) == LET cut == FixedSizeChunk(parents[i], again, childSize, ratio)
                         IN [k \in 1..Len(cut) |-> [text |-> cut[k], parent |-> i]]
    IN [parents |-> parents, children |-> FlattenSeq([i \in 1..Len(parents) |-> childrenOf(i)])]

(* Sentence after sentence into the last chunk, a new one where the next     *)
(* would overflow it or a break is due.                                      *)
Pack(order, cost, size, breaks) ==
    FoldLeft(LAMBDA chunks, i :
               IF chunks = <<>> \/ i \in breaks
                  \/ SumOver(chunks[Len(chunks)], LAMBDA j : cost[j]) + cost[i] > size
               THEN Append(chunks, <<i>>)
               ELSE [chunks EXCEPT ![Len(chunks)] = Append(@, i)], <<>>, order)

SentenceChunk(cost, size) == Pack(Interval(1, Len(cost)), cost, size, {})

(* Where the similarity of two neighbours falls below mean - stdev of all:   *)
(* n * s < S - sqrt(n * Q - S^2), with S and Q the sums of values and squares.*)
Breakpoints(sims) ==
    LET n == Len(sims)
        sum == SumOver(sims, LAMBDA s : s)
        squares == SumOver(sims, LAMBDA s : s * s)
        below(i) == sum - n * sims[i]
    IN {i + 1 : i \in {k \in 1..n : below(k) > 0 /\ below(k) * below(k) > n * squares - sum * sum}}

SemanticChunk(cost, sims, size) == Pack(Interval(1, Len(cost)), cost, size, Breakpoints(sims))

-----------------------------------------------------------------------------
(* StructureAwareChunker: lines are "heading", "text" or "fence" (a line of   *)
(* three backticks), of one token each but for headings.                     *)

LineCosts(lines, heading) == [i \in 1..Len(lines) |-> IF lines[i] = "heading" THEN heading ELSE 1]

Fences(lines) == SelectSeq(Interval(1, Len(lines)), LAMBDA i : lines[i] = "fence")
FenceSpans(lines) ==
    LET f == Fences(lines) IN {<<f[2 * k - 1], f[2 * k]>> : k \in 1..(Len(f) \div 2)}

(* Fault: headings are matched without regard to code fences. *)
HeadingStarts_InCode(lines) == {i \in 1..Len(lines) : lines[i] = "heading"}

HeadingStarts(lines) ==
    {i \in 1..Len(lines) : lines[i] = "heading" /\ \A s \in FenceSpans(lines) : ~(s[1] <= i /\ i < s[2])}

(* From each heading to the next, and what comes before the first. *)
_split_into_sections(lines) ==
    LET starts == SetToSortSeq(HeadingStarts(lines) \cup {1}, <)
        end(k) == IF k < Len(starts) THEN starts[k + 1] - 1 ELSE Len(lines)
    IN [k \in 1..Len(starts) |-> Interval(starts[k], end(k))]

HasFence(section, lines) == \E s \in FenceSpans(lines) : s[1] \in ToSet(section)

_split_heading(section, lines) ==
    IF section[1] \in HeadingStarts(lines) THEN [heading |-> <<section[1]>>, body |-> Tail(section)]
    ELSE [heading |-> <<>>, body |-> section]

(* Too long a section is split by sentence, its heading on every piece. *)
SectionChunks(section, lines, cost, size) ==
    LET split == _split_heading(section, lines)
        pieces == Pack(split.body, cost, size, {})
    IN IF HasFence(section, lines) \/ SumOver(section, LAMBDA i : cost[i]) <= size THEN <<section>>
       ELSE [k \in 1..Len(pieces) |-> split.heading \o pieces[k]]

StructureChunk(lines, heading, size) ==
    IF lines = <<>> THEN <<>>
    ELSE LET sections == _split_into_sections(lines)
         IN FlattenSeq([k \in 1..Len(sections) |-> 
                           SectionChunks(sections[k], lines, LineCosts(lines, heading), size)])

-----------------------------------------------------------------------------
Covered(chunks) == UNION {ToSet(chunks[k]) : k \in 1..Len(chunks)}

(* Chunks are stretches of the text, in order and within the size, that cut   *)
(* characters at their ends alone.  Every character is in one of them, and   *)
(* whole in one if it takes at most one token more than the overlap: one that *)
(* takes more may be cut in all.  Where characters take one token each,       *)
(* neighbours share the overlap and no more.                                 *)
WindowsKeepText(chunks, text, width, size, overlap) ==
    LET uncut(c) == [i \in 1..Len(c) |-> IF c[i] \in ToSet(text) THEN c[i] ELSE 0 - c[i]]
        least(x) == IF x \in ToSet(text) THEN TokensTaken(x, width) ELSE 1
    IN /\ \A x \in ToSet(text) : \E k \in 1..Len(chunks) :
            IF TokensTaken(x, width) <= overlap + 1 THEN x \in ToSet(chunks[k])
            ELSE {x, 0 - x} \cap ToSet(chunks[k]) # {}
       /\ \A k \in 1..Len(chunks) :
            LET c == chunks[k] IN
            /\ \E i \in 1..Len(text) : uncut(c) = SubSeq(text, i, i + Len(c) - 1)
            /\ \A i \in 2..(Len(c) - 1) : c[i] \in ToSet(text)
            /\ SumOver(c, least) <= size
       /\ \A k \in 1..(Len(chunks) - 1) :
            /\ At(text, uncut(chunks[k])[1]) <= At(text, uncut(chunks[k + 1])[1])
            /\ (\A x \in ToSet(text) : TokensTaken(x, width) = 1) =>
                 Cardinality(ToSet(chunks[k]) \cap ToSet(chunks[k + 1])) = overlap

(* A partition into chunks that fit, or hold one oversized sentence, and no   *)
(* split where the sentence would have fitted and nothing broke the text.    *)
PackedTightly(chunks, cost, size, mayBreak) ==
    LET total(c) == SumOver(c, LAMBDA i : cost[i])
    IN /\ FlattenSeq(chunks) = Interval(1, Len(cost))
       /\ \A k \in 1..Len(chunks) : total(chunks[k]) <= size \/ Len(chunks[k]) = 1
       /\ \A k \in 2..Len(chunks) : total(chunks[k - 1]) + cost[chunks[k][1]] > size \/ chunks[k][1] \in mayBreak

(* No code block is torn, no line is lost except a heading without a body    *)
(* that is itself too long, and no chunk reaches into the next section.      *)
StructureKept(chunks, lines, heading, size) ==
    /\ \A s \in FenceSpans(lines) : \E k \in 1..Len(chunks) : s[1]..s[2] \subseteq ToSet(chunks[k])
    /\ \A i \in 1..Len(lines) : 
         \/ i \in Covered(chunks)
         \/ /\ i \in HeadingStarts(lines) /\ heading > size
            /\ i = Len(lines) \/ i + 1 \in HeadingStarts(lines)
    /\ \A k \in 1..Len(chunks), h \in HeadingStarts(lines) :
         \A i, j \in ToSet(chunks[k]) : i < h /\ h <= j => FALSE
=============================================================================
