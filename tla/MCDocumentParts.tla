--------------------------- MODULE MCDocumentParts ---------------------------
EXTENDS DocumentParts, TLC

MCTyped == {<<"a">>, <<"a", "n">>}
MCOpening == {<<"s", "(", ")", "n", "a">>}
MCTexts == {<<"A", "s", "a">>, <<"a", "n", "a">>}
MCQueries == {[term |-> <<"a">>, cased |-> c, whole |-> ~c] : c \in BOOLEAN}
MCReplacements == {<<"A", "a">>}
MCSymmetry == Permutations(Views) \cup Permutations(Files) \cup Permutations(Panels)
===============================================================================
