SPECIFICATION Spec
CONSTANTS
    Keys <- MCKeys
    Histories <- MCHistories
    NewVersion = 50
    UploadIDs = {5, 50}
    AskPrefixes <- MCPrefixes
    UploadStarts <- MCUploadStarts
    Starts <- MCStarts
    APIs = {"objects", "versions", "uploads", "parts"}
    MaxPage = 2
    MaxWrites = 1
    Slash = 2
    Utf8 <- MCUtf8
    Chars <- MCUtf8
    Substitute = 250
INVARIANTS
    NothingSkipped
    PagingProgresses
