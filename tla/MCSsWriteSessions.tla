------------------------- MODULE MCSsWriteSessions -------------------------
(* Small instances of SsWriteSessions for TLC. *)
EXTENDS SsWriteSessions, TLC

CONSTANTS w, d    \* the word and the delimiter

OneSentence == {<<w, d>>}
NoSentence == {<<>>}
TwoSentences == {<<w, d, w, d>>}
SeveralTexts == {<<w>>, <<w, d, w>>}
ShortCopy == {<<w>>}
NoTexts == {}

Symmetry == Permutations(Clients)
SymmetryTags == Permutations(Clients) \cup Permutations(Tags)
=============================================================================
