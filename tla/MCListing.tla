----------------------------- MODULE MCListing -----------------------------
(* TLC instances of Listing: 1, 2 and 3 stand for "-", "/" and "a".        *)
EXTENDS Listing

MCKeys == {<<3>>, <<3, 1>>, <<3, 2>>, <<3, 2, 3>>, <<3, 3>>}
FewKeys == {<<3>>, <<3, 2>>, <<3, 2, 3>>, <<3, 3>>}

V(id, del) == [id |-> id, del |-> del]
MCHistories == {<<>>, <<V(0, FALSE), V(20, FALSE)>>, <<V(10, TRUE), V(0, FALSE)>>}

MCPrefixes == {<<>>, <<3>>, <<3, 3>>}
FolderPrefix == {<<3, 2>>}
MCStarts == {<<>>, <<3>>, <<3, 2>>}
NoStarts == {<<>>}
NoUploadStarts == {Item(<<>>, NoID)}
MCUploadStarts == {Item(<<>>, NoID), Item(<<3, 3>>, NoID), Item(<<3, 3>>, 5)}

MCUtf8 == 1..254

(* The byte 0xff follows the delimiter. *)
TopKey == {<<3, 2, 255>>}
OneVersion == {<<V(0, FALSE)>>}
=============================================================================
