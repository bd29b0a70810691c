----------------------------- MODULE Preferences -----------------------------
(* What the user sets, in three kinds of files that are edited both here and *)
(* by hand while the app runs: the settings (settings.rs), the key bindings  *)
(* (keymap.rs) and the user's themes (themes.rs); the preferences window     *)
(* (prefs.rs), and the watch that takes in what is edited by hand (app.rs).  *)
(*                                                                           *)
(* Of the settings there is one number, kept within its bounds, and the name *)
(* of the theme; of a theme, which edit of it; of what the app does not know *)
(* in a file (`extra`), whether it is there. No write fails.                 *)
EXTENDS Integers, Sequences, FiniteSets, FiniteSetsExt, Functions

CONSTANTS
    Commands,          \* COMMANDS, in their order
    Scopes, Defaults,  \* command -> where it is live, and its chords
    Reserved,          \* chords that are the terminal's
    Chords,            \* chords that can be pressed, bindable ones
    HandLists,         \* lists of chords typed into the key bindings file
    Numbers,           \* numbers typed into the settings file
    Low, High, Normal, \* the setting's bounds and default
    Themes,            \* names of user themes
    MaxActs,           \* bound: what the user does in the window
    MaxHands           \* bound: edits by hand

VARIABLES
    settingsFile, keysFile, themeFiles,   \* on disk
    settings, keymap, themes,             \* in force
    draft,                \* the theme edited ahead of its file
    capturing, pending,   \* the command a chord is pressed for; a chord that has rivals
    seen,                 \* kinds of files changed and not yet taken in
    byHand,               \* ghost: those of them edited by hand
    bound,                \* ghost: the chord bound last, while nothing else changed the keymap
    edits,                \* ghost: edits made to themes so far
    acts, hands

files == <<settingsFile, keysFile, themeFiles>>
window == <<draft, capturing, pending>>
vars == <<files, settings, keymap, themes, window, seen, byHand, bound, edits, acts, hands>>

Cmds == Range(Commands)
None == [id |-> "none", chord |-> "none"]
NoDraft == [theme |-> "none", edit |-> 0]

---------------------------------------------------------------------------
(* Settings: absent, malformed or an object *)

NoSettings(kind) == [kind |-> kind, given |-> "absent", number |-> 0, theme |-> "builtin", extra |-> FALSE]

Clamp(n) == IF n < Low THEN Low ELSE IF n > High THEN High ELSE n

\* coerce: [number, corrected]
Coerce(file) ==
    CASE file.given = "absent" -> [number |-> Normal, corrected |-> FALSE]
      [] file.given = "number" -> [number |-> Clamp(file.number), corrected |-> Clamp(file.number) # file.number]
      [] OTHER -> [number |-> Normal, corrected |-> TRUE]

\* Settings::read, of what is not malformed
ReadSettings(file) ==
    [number |-> Coerce(file).number, theme |-> file.theme, extra |-> file.extra]

\* Settings::to_json
Json(s) == [kind |-> "object", given |-> "number", number |-> s.number, theme |-> s.theme, extra |-> s.extra]

WriteSettings(s) == settingsFile' = Json(s) /\ settings' = s

---------------------------------------------------------------------------
(* Key bindings *)

NoKeys(kind) == [kind |-> kind, bindings |-> <<>>, extra |-> FALSE]

SharesScope(c, d) == Scopes[c] \cap Scopes[d] # {}
Refusal(id, chord) == chord \in Reserved /\ "terminal" \in Scopes[id]

\* The chords at some of a list's places, in their order.
PlaceOf(places, n) == CHOOSE i \in places : Cardinality({j \in places : j <= i}) = n
Picked(chords, places) == [n \in 1 .. Cardinality(places) |-> chords[PlaceOf(places, n)]]

\* Keymap::parse: the file's chords for a command it lists, each once, but the refused.
Read(id, chords) ==
    Picked(chords, {i \in DOMAIN chords :
                        ~Refusal(id, chords[i]) /\ \A j \in 1 .. i - 1 : chords[j] # chords[i]})
Parse(file) ==
    [c \in Cmds |-> IF c \in DOMAIN file.bindings THEN Read(c, file.bindings[c]) ELSE Defaults[c]]

\* Mutant: a command without a chord is not listed.
WriteIntoBound(map, file) ==
    [kind |-> "object", extra |-> file.kind = "object" /\ file.extra,
     bindings |-> Restrict(map, {c \in Cmds : map[c] \notin {Defaults[c], <<>>}})]

\* Keymap::write_into: a malformed file is written over.
WriteInto(map, file) ==
    [kind |-> "object", extra |-> file.kind = "object" /\ file.extra,
     bindings |-> Restrict(map, {c \in Cmds : map[c] # Defaults[c]})]

Conflicts(map, id, chord) ==
    {c \in Cmds \ {id} : SharesScope(c, id) /\ chord \in Range(map[c])}

Without(chords, chord) == Picked(chords, {i \in DOMAIN chords : chords[i] # chord})

Bind(map, id, chord) ==
    [c \in Cmds |->
        IF c = id THEN IF chord \in Range(map[c]) THEN map[c] ELSE Append(map[c], chord)
        ELSE IF c \in Conflicts(map, id, chord) THEN Without(map[c], chord) ELSE map[c]]

\* The commands a chord runs in a scope; the first in their order is run.
Holders(map, chord, scope) ==
    {i \in DOMAIN Commands : scope \in Scopes[Commands[i]] /\ chord \in Range(map[Commands[i]])}
Lookup(map, chord, scope) ==
    IF Holders(map, chord, scope) = {} THEN "none" ELSE Commands[Min(Holders(map, chord, scope))]

---------------------------------------------------------------------------
(* Taking in what changed: process_watch *)

\* Prefs::reapply
Reapply(read) ==
    IF draft # NoDraft /\ read[draft.theme] # 0 THEN [read EXCEPT ![draft.theme] = draft.edit] ELSE read

ReloadThemes == themes' = Reapply(themeFiles)

\* A malformed file leaves the settings as they are; a corrected one is written.
ReloadSettings ==
    IF settingsFile.kind = "malformed" THEN UNCHANGED <<settings, settingsFile>>
    ELSE /\ settings' = ReadSettings(settingsFile)
         /\ settingsFile' = IF settingsFile.kind = "object" /\ Coerce(settingsFile).corrected
                            THEN Json(settings') ELSE settingsFile

TakeIn ==
    /\ \E news \in SUBSET seen \ {{}} :
           /\ IF "themes" \in news THEN ReloadThemes ELSE themes' = themes
           /\ IF "settings" \in news THEN ReloadSettings ELSE UNCHANGED <<settings, settingsFile>>
           /\ keymap' = IF "keys" \in news THEN Parse(keysFile) ELSE keymap
           /\ bound' = IF keymap' = keymap THEN bound ELSE None
           /\ seen' = (seen \ news) \cup (IF settingsFile' = settingsFile THEN {} ELSE {"settings"})
           /\ byHand' = byHand \ news
    /\ UNCHANGED <<keysFile, themeFiles, window, edits, acts, hands>>

---------------------------------------------------------------------------
(* The window *)

Act == acts < MaxActs /\ acts' = acts + 1 /\ UNCHANGED <<byHand, hands>>
Writes(kinds) == seen' = seen \cup kinds

\* Settings::set clamps too.
SetNumber ==
    /\ Act /\ \E n \in Low .. High : WriteSettings([settings EXCEPT !.number = n])
    /\ Writes({"settings"})
    /\ UNCHANGED <<keysFile, themeFiles, keymap, themes, window, bound, edits>>

SetTheme ==
    /\ Act /\ \E t \in {u \in Themes : themes[u] # 0} \cup {"builtin"} :
                 t # settings.theme /\ WriteSettings([settings EXCEPT !.theme = t])
    /\ Writes({"settings"})
    /\ UNCHANGED <<keysFile, themeFiles, keymap, themes, window, bound, edits>>

StartCapture(id) ==
    /\ Act /\ capturing' = id /\ pending' = None
    /\ UNCHANGED <<files, settings, keymap, themes, draft, seen, bound, edits>>

BindAndWrite(id, chord) ==
    /\ keymap' = Bind(keymap, id, chord) /\ bound' = [id |-> id, chord |-> chord]
    /\ keysFile' = WriteInto(keymap', keysFile) /\ Writes({"keys"})

\* A chord with rivals waits for the user's word.
Capture(chord) ==
    /\ Act /\ capturing \in Cmds /\ capturing' = "none"
    /\ CASE Refusal(capturing, chord) -> UNCHANGED <<keymap, keysFile, seen, bound, pending>>
         [] ~Refusal(capturing, chord) /\ Conflicts(keymap, capturing, chord) = {} ->
                BindAndWrite(capturing, chord) /\ pending' = pending
         [] OTHER -> /\ pending' = [id |-> capturing, chord |-> chord]
                     /\ UNCHANGED <<keymap, keysFile, seen, bound>>
    /\ UNCHANGED <<settingsFile, themeFiles, settings, themes, draft, edits>>

Reassign ==
    /\ Act /\ pending # None /\ pending' = None /\ BindAndWrite(pending.id, pending.chord)
    /\ UNCHANGED <<settingsFile, themeFiles, settings, themes, draft, capturing, edits>>

\* Unbind a chord, or go back to the defaults, which takes no chord from others.
Unbind(id) ==
    /\ Act /\ \/ \E k \in Range(keymap[id]) : keymap' = [keymap EXCEPT ![id] = Without(@, k)]
              \/ keymap[id] # Defaults[id] /\ keymap' = [keymap EXCEPT ![id] = Defaults[id]]
    /\ bound' = None /\ keysFile' = WriteInto(keymap', keysFile) /\ Writes({"keys"})
    /\ UNCHANGED <<settingsFile, themeFiles, settings, themes, window, edits>>

\* A user theme is on screen, and no draft is of another: the page has written
\* that one when it was drawn, before the user could do something more on it.
Editable == settings.theme \in Themes /\ themes[settings.theme] # 0
OnScreen == IF Editable THEN settings.theme ELSE "builtin"
DraftOnScreen == draft.theme \in {"none", OnScreen}

\* The colours change at once, the file when they have settled.
PickColour ==
    /\ Act /\ Editable /\ DraftOnScreen /\ edits' = edits + 1
    /\ draft' = [theme |-> settings.theme, edit |-> edits']
    /\ themes' = [themes EXCEPT ![settings.theme] = edits']
    /\ UNCHANGED <<files, settings, keymap, capturing, pending, seen, bound>>

\* ThemeStore::save
SaveTheme(name, edit) ==
    /\ themeFiles' = [themeFiles EXCEPT ![name] = edit]
    /\ themes' = [themes EXCEPT ![name] = edit]

\* Prefs::tick: settled, another theme chosen, or the window closed.
Tick ==
    /\ draft # NoDraft /\ draft' = NoDraft
    /\ SaveTheme(draft.theme, draft.edit) /\ Writes({"themes"})
    /\ UNCHANGED <<settingsFile, keysFile, settings, keymap, capturing, pending, byHand, bound, edits, acts, hands>>

Close ==
    /\ Act /\ capturing' = "none" /\ pending' = None /\ draft' = NoDraft
    /\ IF draft = NoDraft THEN UNCHANGED <<themeFiles, themes, seen>>
       ELSE SaveTheme(draft.theme, draft.edit) /\ Writes({"themes"})
    /\ UNCHANGED <<settingsFile, keysFile, settings, keymap, bound, edits>>

\* A copy of the theme on screen, under a name neither loaded nor on disk.
Duplicate ==
    /\ Act /\ DraftOnScreen
    /\ \E t \in Themes :
           /\ themes[t] = 0 /\ themeFiles[t] = 0
           /\ edits' = edits + 1 /\ SaveTheme(t, edits')
           /\ WriteSettings([settings EXCEPT !.theme = t])
    /\ Writes({"themes", "settings"})
    /\ UNCHANGED <<keysFile, keymap, window, bound>>

\* The file goes to the trash, if it is there to go.
DeleteTheme ==
    /\ Act /\ Editable /\ DraftOnScreen /\ draft' = NoDraft
    /\ IF themeFiles[settings.theme] # 0
       THEN /\ themeFiles' = [themeFiles EXCEPT ![settings.theme] = 0]
            /\ themes' = [themes EXCEPT ![settings.theme] = 0]
            /\ WriteSettings([settings EXCEPT !.theme = "builtin"])
            /\ Writes({"themes", "settings"})
       ELSE UNCHANGED <<settingsFile, themeFiles, settings, themes, seen>>
    /\ UNCHANGED <<keysFile, keymap, capturing, pending, bound, edits>>

---------------------------------------------------------------------------
(* By hand *)

HandSettings ==
    {NoSettings("absent"), NoSettings("malformed")} \cup
    {[kind |-> "object", given |-> g, number |-> n, theme |-> t, extra |-> TRUE] :
        g \in {"absent", "number", "wrong"}, n \in Numbers, t \in Themes \cup {"builtin"}}

HandKeys ==
    {NoKeys("absent"), NoKeys("malformed")} \cup
    {[kind |-> "object", bindings |-> [c \in {id} |-> chords], extra |-> TRUE] :
        id \in Cmds, chords \in HandLists}

ByHand ==
    /\ hands < MaxHands /\ hands' = hands + 1
    /\ \E kind \in {"settings", "keys", "themes"} :
           /\ Writes({kind}) /\ byHand' = byHand \cup {kind}
           /\ IF kind = "settings" THEN settingsFile' \in HandSettings ELSE settingsFile' = settingsFile
           /\ IF kind = "keys" THEN keysFile' \in HandKeys ELSE keysFile' = keysFile
           /\ IF kind = "themes"
              THEN /\ edits' = edits + 1
                   /\ \E t \in Themes : themeFiles' \in {[themeFiles EXCEPT ![t] = e] : e \in {0, edits + 1}}
              ELSE UNCHANGED <<themeFiles, edits>>
    /\ UNCHANGED <<settings, keymap, themes, window, bound, acts>>

\* The app has started: missing settings and corrected ones are written.
Init ==
    /\ \E file \in {NoSettings("malformed"), Json(ReadSettings(NoSettings("absent")))} : settingsFile = file
    /\ settings = ReadSettings(NoSettings("absent"))
    /\ keysFile = NoKeys("absent") /\ keymap = Parse(keysFile)
    /\ themeFiles = [t \in Themes |-> 0] /\ themes = themeFiles
    /\ draft = NoDraft /\ capturing = "none" /\ pending = None
    /\ seen = {} /\ byHand = {} /\ bound = None /\ edits = 0 /\ acts = 0 /\ hands = 0

KeysPage == Reassign \/ (\E id \in Cmds : StartCapture(id) \/ Unbind(id)) \/ (\E k \in Chords : Capture(k))
ThemesPage == SetTheme \/ PickColour \/ Tick \/ Duplicate \/ DeleteTheme

Next == TakeIn \/ SetNumber \/ KeysPage \/ ThemesPage \/ Close \/ ByHand

Spec == Init /\ [][Next]_vars

---------------------------------------------------------------------------

\* What is in force is what the files say, but for what was edited by hand and
\* not yet taken in: what the app writes reads back as what it had in force, an
\* unbound default and a corrected number included, so taking in its own writes
\* changes nothing, and a theme being edited stays as edited until it is written.
FilesInForce ==
    /\ "keys" \notin byHand => keymap = Parse(keysFile)
    /\ "settings" \notin byHand /\ settingsFile.kind # "malformed" =>
           settings = ReadSettings(settingsFile) /\ ~Coerce(settingsFile).corrected
    /\ "themes" \notin byHand =>
           \A t \in Themes : themes[t] = IF draft.theme = t /\ themeFiles[t] # 0 THEN draft.edit
                                         ELSE themeFiles[t]

\* A chord bound in the window runs its command wherever that command is live,
\* though the bindings changed while the user was asked about its rivals, and no
\* way a chord gets into the keymap gives a terminal's own to another command.
ChordsRun ==
    /\ bound # None => \A s \in Scopes[bound.id] : Lookup(keymap, bound.chord, s) = bound.id
    /\ \A c \in Cmds : "terminal" \in Scopes[c] => Range(keymap[c]) \cap Reserved = {}

\* What settings.rs:6-10 says of every document, and does not hold of one the
\* user changes something of here: a malformed file is left alone.
MalformedIsLeft ==
    [][/\ settingsFile.kind = "malformed" /\ settingsFile' # settingsFile => hands' # hands
       /\ keysFile.kind = "malformed" /\ keysFile' # keysFile => hands' # hands]_vars
=============================================================================
