SPECIFICATION FairSpec
CONSTANTS
    Keys <- TopKey
    Histories <- OneVersion
    NewVersion = 50
    UploadIDs = {5, 50}
    AskPrefixes <- NoStarts
    UploadStarts <- NoUploadStarts
    Starts <- NoStarts
    APIs = {"objects"}
    MaxPage = 1
    MaxWrites = 0
    Slash = 2
    Utf8 <- MCUtf8
    Chars <- MCUtf8
    Substitute = 250
PROPERTIES
    EveryPageEnds
