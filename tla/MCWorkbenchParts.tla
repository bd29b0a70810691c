-------------------------- MODULE MCWorkbenchParts --------------------------
EXTENDS WorkbenchParts, TLC

\* Searches
MCWalk == <<"f", "g">>
MCTexts == {<<"a">>, <<"b", "a">>}
MCFirstTexts == "f" :> <<"b", "a">> @@ "g" :> <<"a">>
MCTerms == {<<>>, <<"a">>, <<"b">>}
MCReplacements == {<<>>}

\* ProjectFiles
MCOrder == <<"a", "b", "d/c">>
MCQueries == {[named |-> {"b"}, anywhere |-> {"d/c"}], [named |-> {}, anywhere |-> {}]}

\* Previews
MCLines == <<0, 2>>
MCTops == <<0, 4>>

\* Preferences
MCCommands == <<"q", "t", "e">>
MCScopes == "q" :> {"editor", "terminal"} @@ "t" :> {"terminal"} @@ "e" :> {"editor"}
MCDefaults == "q" :> <<"k">> @@ "t" :> <<"m">> @@ "e" :> <<"r">>
MCHandLists == {<<>>} \cup {<<k>> : k \in Chords} \cup {<<k, k>> : k \in Chords}

MCSymmetry == Permutations(MarkdownFiles) \cup Permutations(Subs)
===============================================================================
