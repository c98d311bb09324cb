SPECIFICATION Spec
CONSTANTS
    Keys <- FewKeys
    Histories <- MCHistories
    NewVersion = 50
    UploadIDs = {5, 50}
    AskPrefixes <- FolderPrefix
    UploadStarts <- NoUploadStarts
    Starts <- NoStarts
    APIs = {"objects", "versions"}
    MaxPage = 2
    MaxWrites = 0
    Slash = 2
    Utf8 <- MCUtf8
    Chars <- MCUtf8
    Substitute = 250
INVARIANTS
    NothingSkipped
