\* One ticket, call graphs of two commits, an indexing job that writes between the queries.
SPECIFICATION Spec
CONSTANTS
    Symbol <- Symbols
    File <- Files
    FileOf <- FileOfSymbol
    TicketText <- Text
    SearchWord <- Words
    Named <- SymbolsOfWord
    MaxKeywords = 4
    DaysOld <- AgeOfFile
    LineChars = 20
    FileChars = 4
    FrameChars = 5
    Version <- Commits
    Present <- SymbolsOf
    Span <- LinesOfSymbol
    Lines <- LinesOfFile
    Similarity <- Scores
    MaxQueries = 2
    TopK = 2
    MaxDepth = 2
    FileLimit = 2
    TokenBudget = 63
    Modules <- Batches
    Inputs <- TicketInputs
    LlmReplies <- Replies
INVARIANTS
    TypeOK
    DistancesInBounds
    EvidenceReachesRanking
    BudgetKept
    OverBudgetOnlyByFraming
    SnippetsFromTheFile
\* A run ends, completed or failed.
CHECK_DEADLOCK FALSE
