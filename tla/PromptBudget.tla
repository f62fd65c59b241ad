---------------------------- MODULE PromptBudget ----------------------------
(***************************************************************************)
(* The size of a prompt: snippets cut from files, packed into a budget of  *)
(* tokens, and wrapped in the sections of the template.  A text is its     *)
(* number of characters; a token is four characters, rounded down.  Of the *)
(* sections only what grows is kept: the text that is always there, a line *)
(* per file and the frame of each snippet.                                 *)
(***************************************************************************)
EXTENDS Integers, Sequences, SequencesExt, Functions, Folds

CONSTANTS
    LineChars,      \* characters of a line of code, without its newline
    FileChars,      \* a line of the list of relevant files
    FrameChars      \* the heading and the fence around a snippet

ASSUME BudgetAssumption ==
    LineChars \in Nat /\ FileChars \in Nat /\ FrameChars \in Nat

AtMost(x, y) == IF x =< y THEN x ELSE y
AtLeast(x, y) == IF x >= y THEN x ELSE y

EstimateTokens(chars) == chars \div 4

\* Fault: the slice starts one line late.
SnippetLinesLate(first, last, total) ==
    LET start == AtLeast(1, AtMost(first, total))
        end == AtLeast(start, AtMost(last, total))
    IN  (start + 1) .. AtMost(end, total)

\* The lines cut for a symbol of lines first..last from a file of total lines: clamped to
\* the file, and none of an empty file, whose clamped range is [1, 1].
SnippetLines(first, last, total) ==
    LET start == AtLeast(1, AtMost(first, total))
        end == AtLeast(start, AtMost(last, total))
    IN  start .. AtMost(end, total)

\* The characters of n lines joined by newlines.
ChunkChars(n) == IF n = 0 THEN 0 ELSE n * LineChars + n - 1

\* A snippet is [symbol, file, lines]; its tokens are rounded down on their own.
SnippetChars(snippet) == ChunkChars(Cardinality(snippet.lines))
SnippetTokens(snippet) == EstimateTokens(SnippetChars(snippet))
SumOver(seq, Size(_)) == FoldFunction(LAMBDA x, y : x + y, 0, [i \in DOMAIN seq |-> Size(seq[i])])
TotalTokens(snippets) == SumOver(snippets, SnippetTokens)

\* Keep the first snippet of each symbol: file, name and type are what its id hashes.
DeduplicateSnippets(snippets) ==
    LET unique[n \in 0 .. Len(snippets)] ==
            IF n = 0 THEN << >>
            ELSE LET kept == unique[n - 1] IN
                 IF \E i \in DOMAIN kept : kept[i].symbol = snippets[n].symbol
                 THEN kept ELSE Append(kept, snippets[n])
    IN  unique[Len(snippets)]

\* Fault: the safety margin is forgotten.
CompressWithoutMargin(snippets, budget) ==
    LET unique == DeduplicateSnippets(snippets)
        fits == {n \in 0 .. Len(unique) : TotalTokens(SubSeq(unique, 1, n)) =< budget}
    IN  SubSeq(unique, 1, CHOOSE n \in fits : \A m \in fits : m =< n)

\* Fill up to 95% of the budget and stop at the first snippet that does not fit.
CompressContext(snippets, budget) ==
    LET unique == DeduplicateSnippets(snippets)
        fits == {n \in 0 .. Len(unique) :
                    100 * TotalTokens(SubSeq(unique, 1, n)) =< 95 * budget}
    IN  SubSeq(unique, 1, CHOOSE n \in fits : \A m \in fits : m =< n)

FilesOf(snippets) == {snippets[i].file : i \in DOMAIN snippets}

\* What the template adds to the code: the sections with the ticket's text, then what
\* grows with the snippets.
FramingChars(ticket, snippets) ==
    ticket + FileChars * Cardinality(FilesOf(snippets)) + FrameChars * Len(snippets)

\* assemble_prompt: the characters of the prompt.
AssembleChars(ticket, snippets) == FramingChars(ticket, snippets) + SumOver(snippets, SnippetChars)

PromptTokens(ticket, snippets) == EstimateTokens(AssembleChars(ticket, snippets))

\* Fault: the second attempt starts from more.
GenerateLarger(ticket, snippets, budget) ==
    LET first == CompressContext(snippets, budget) IN
    IF PromptTokens(ticket, first) > budget
    THEN CompressContext(snippets, (budget * 12) \div 10) ELSE first

\* One more attempt with four fifths of the budget when the prompt came out too long.
GeneratePrompt(ticket, snippets, budget) ==
    LET first == CompressContext(snippets, budget) IN
    IF PromptTokens(ticket, first) > budget
    THEN CompressContext(snippets, (budget * 8) \div 10) ELSE first
=============================================================================
