---------------------------- MODULE PreviewPart ----------------------------
(* The preview among the workbench's parts: the names its constants and      *)
(* variables go by there, and what is assumed of them.                       *)
EXTENDS Integers, Sequences, FiniteSets

CONSTANTS MarkdownFiles, Views, Lines, Tops, LastOffset, LastTop, Delay, Wait, Caps, MaxReading

\* A text has a block at least, and settings.rs keeps a history of one place at least.
ASSUME PreviewsSound ==
    /\ IsFiniteSet(MarkdownFiles) /\ "own" \in Views
    /\ Lines \in Seq(Nat) /\ Tops \in Seq(Nat) /\ Len(Lines) = Len(Tops) /\ Len(Lines) > 0
    /\ LastOffset \in Nat /\ LastTop \in Nat /\ Delay \in Nat /\ Wait \in Nat
    /\ Caps \subseteq Nat \ {0} /\ \E most \in Caps : \A n \in Caps : n <= most

VARIABLES previewed, doc, config, view, drawn, cap, editorFirst, trail, answers, reading

V == INSTANCE Previews WITH
         Files <- MarkdownFiles, MaxActs <- MaxReading, disk <- previewed, acts <- reading
=============================================================================
