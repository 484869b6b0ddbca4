SPECIFICATION Spec
CONSTANTS
    PathRank <- MCPathRank
    Texts <- MCTexts
    Names <- MCNames
    CodeLines <- MCCodeLines
    Symbols <- MCSymbols
    GoSymbols <- MCGoSymbols
    Hosts <- MCHosts
    Batches <- MCBatches
    Moves <- MCMoves
    Extractions <- MCExtractions
    Snippets <- MCSnippets
    Contents <- MCContents
    EditLists <- MCEditLists
INVARIANTS
    
    JavaNameIsDeclared
    ColumnsRoundTrip
    NamesResolve
    DoctorAgrees
    ServerEditsKept
    ExtractionIsNamed
    SnapshotIsNeutral
    AppliesSimultaneously
    
