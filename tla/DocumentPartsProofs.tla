------------------------ MODULE DocumentPartsProofs ------------------------
(***************************************************************************)
(* What is proved of the open documents, their files and their recovery    *)
(* files: for any files, panels, texts, moves, jobs and launches.          *)
(***************************************************************************)
EXTENDS DocumentParts, FiniteSetTheorems, TLAPS

-----------------------------------------------------------------------------
(* Numbers and maps *)

(* Were there none, one more than each number at most one of T would be such a
   number again, and 0 alone no successor. *)
LEMMA Greatest ==
    ASSUME NEW n \in Nat, NEW N \in SUBSET (0 .. n), N # {}
    PROVE  \E i \in N : \A j \in N : j <= i
<1> SUFFICES ASSUME \A i \in N : \E j \in N : i < j PROVE FALSE
  OBVIOUS
<1> DEFINE Low == {d \in 0 .. n : \E t \in N : d <= t}
           s == [d \in Low |-> d + 1]
<1>1. 0 \in Low
  <2>1. PICK t \in N : TRUE
    OBVIOUS
  <2> QED BY <2>1
<1>2. ASSUME NEW d \in Low PROVE d + 1 \in Low
  <2>1. PICK t \in N : d <= t
    OBVIOUS
  <2>2. PICK u \in N : t < u
    OBVIOUS
  <2> QED BY <2>1, <2>2
<1>3. s \in Injection(Low, Low)
  BY <1>2 DEF Injection, IsInjective
<1>4. IsFiniteSet(Low)
  <2>1. Low \in SUBSET Nat /\ \A d \in Low : d <= n
    OBVIOUS
  <2> QED BY <2>1, FS_BoundedSetOfNaturals
<1>5. s \in Surjection(Low, Low)
  BY <1>3, <1>4, FS_Injection
<1>6. \E d \in Low : s[d] = 0
  BY <1>1, <1>5 DEF Surjection
<1> QED BY <1>6

(* Maps from keys *)
Keys == Files \cup Panels
Maps(S) == UNION {[K -> S] : K \in SUBSET Keys}

LEMMA MapIs ==
    ASSUME NEW S, NEW m
    PROVE  m \in Maps(S) <=> /\ DOMAIN m \subseteq Keys
                             /\ m \in [DOMAIN m -> S]
BY DEF Maps

LEMMA NoMap == ASSUME NEW S PROVE <<>> \in Maps(S) /\ DOMAIN <<>> = {}
<1>1. <<>> = [k \in {} |-> k]
  OBVIOUS
<1>2. <<>> \in [{} -> S]
  BY <1>1
<1> QED BY <1>1, <1>2 DEF Maps

LEMMA WithIs ==
    ASSUME NEW S, NEW m \in Maps(S), NEW k \in Keys, NEW x \in S
    PROVE  /\ D!With(m, k, x) \in Maps(S)
           /\ DOMAIN D!With(m, k, x) = DOMAIN m \cup {k}
           /\ D!With(m, k, x)[k] = x
           /\ \A j \in DOMAIN m : j # k => D!With(m, k, x)[j] = m[j]
BY MapIs DEF D!With

LEMMA WithoutIs ==
    ASSUME NEW S, NEW m \in Maps(S), NEW K
    PROVE  /\ D!Without(m, K) \in Maps(S)
           /\ DOMAIN D!Without(m, K) = DOMAIN m \ K
           /\ \A j \in DOMAIN m : j \notin K => D!Without(m, K)[j] = m[j]
BY MapIs DEF D!Without

LEMMA ValueIs ==
    ASSUME NEW S, NEW m \in Maps(S), NEW k \in DOMAIN m
    PROVE  m[k] \in S /\ k \in Keys
BY MapIs

-----------------------------------------------------------------------------
(* Documents *)

Held == Nat \cup {D!Gone}
DocState == {"insync", "changed", "deleted"}
Document == [text : Nat, saved : Nat, version : Nat, disk : DocState, stamp : Int]

(* The document of k becomes e and takes the key f. *)
Rekeyed(k, f, e) ==
    /\ docs' \in Maps(Document) /\ DOMAIN docs' = (DOMAIN docs \ {k}) \cup {f} /\ docs'[f] = e
    /\ \A j \in DOMAIN docs' : j # f => j # k /\ j \in DOMAIN docs /\ docs'[j] = docs[j]

LEMMA RekeyedIs ==
    ASSUME docs \in Maps(Document), NEW k, NEW f \in Keys, NEW e \in Document,
           docs' = D!With(D!Without(docs, {k}), f, e)
    PROVE  Rekeyed(k, f, e)
<1>1. DOMAIN docs \subseteq Keys /\ docs \in [DOMAIN docs -> Document]
  BY MapIs
<1>2. docs' = [j \in (DOMAIN docs \ {k}) \cup {f} |-> IF j = f THEN e ELSE docs[j]]
  BY DEF D!With, D!Without
<1>3. PICK n : n = [j \in (DOMAIN docs \ {k}) \cup {f} |-> IF j = f THEN e ELSE docs[j]]
  OBVIOUS
<1>4. /\ DOMAIN n = (DOMAIN docs \ {k}) \cup {f} /\ n[f] = e
      /\ \A j \in DOMAIN n : j # f => j # k /\ j \in DOMAIN docs /\ n[j] = docs[j]
      /\ n \in [DOMAIN n -> Document]
  BY <1>1, <1>3
<1>5. n \in Maps(Document)
  BY <1>1, <1>4, MapIs
<1> QED BY <1>2, <1>3, <1>4, <1>5 DEF Rekeyed

(* One document becomes another: the record e has d's text and so on, or others. *)
LEMMA DocIs ==
    ASSUME NEW x \in Nat, NEW st \in Int, NEW e, e = D!Doc(x, st)
    PROVE  /\ e \in Document
           /\ e.text = x /\ e.saved = x /\ e.version = 0 /\ e.disk = "insync" /\ e.stamp = st
BY DEF D!Doc, Document, DocState

LEMMA FieldsOf ==
    ASSUME NEW d \in Document
    PROVE  /\ d.text \in Nat /\ d.saved \in Nat /\ d.version \in Nat /\ d.disk \in DocState
           /\ d.stamp \in Int /\ d.version + 1 \in Nat
BY DEF Document

LEMMA MarksAre ==
    /\ D!Gone \in Int /\ D!Gone \notin Nat /\ D!NoStamp \in Int /\ D!NoStamp # D!Gone
    /\ D!NoStamp \notin Nat
    /\ Held \subseteq Int /\ Nat \subseteq Held /\ D!Gone \in Held
    /\ "insync" \in DocState /\ "changed" \in DocState /\ "deleted" \in DocState
BY DEF D!Gone, D!NoStamp, Held, DocState

LEMMA NewTextIs ==
    ASSUME NEW d \in Document, NEW x \in Nat
    PROVE  /\ D!NewText(d, x) \in Document /\ D!NewText(d, x).text = x
           /\ D!NewText(d, x).saved = d.saved /\ D!NewText(d, x).version = d.version + 1
           /\ D!NewText(d, x).disk = d.disk /\ D!NewText(d, x).stamp = d.stamp
<1>1. PICK v \in Nat : v = d.version + 1
  BY FieldsOf
<1>2. D!NewText(d, x) = [d EXCEPT !.text = x, !.version = v]
  BY <1>1 DEF D!NewText
<1> QED BY <1>1, <1>2 DEF Document

LEMMA MarkedIs ==
    ASSUME NEW d \in Document, NEW k \in DocState, NEW st \in Int
    PROVE  /\ D!Marked(d, k, st) \in Document /\ D!Marked(d, k, st).text = d.text
           /\ D!Marked(d, k, st).saved = d.saved /\ D!Marked(d, k, st).version = d.version
           /\ D!Marked(d, k, st).disk = k /\ D!Marked(d, k, st).stamp = st
BY DEF D!Marked, Document

LEMMA MovedIs ==
    ASSUME NEW d \in Document, NEW st \in Int
    PROVE  /\ D!MovedTo(d, st) \in Document /\ D!MovedTo(d, st).text = d.text
           /\ D!MovedTo(d, st).saved = d.saved /\ D!MovedTo(d, st).version = d.version
           /\ D!MovedTo(d, st).disk = d.disk /\ D!MovedTo(d, st).stamp = st
BY DEF D!MovedTo, Document

LEMMA SavedIs ==
    ASSUME NEW d \in Document
    PROVE  /\ D!Saved(d) \in Document /\ D!Saved(d).text = d.text /\ D!Saved(d).saved = d.text
           /\ D!Saved(d).version = d.version
           /\ D!Saved(d).disk = "insync"
BY FieldsOf, MarksAre DEF D!Saved, Document

LEMMA ReloadedIs ==
    ASSUME NEW d \in Document, NEW x \in Nat
    PROVE  /\ D!ReloadFrom(d, x) \in Document /\ D!ReloadFrom(d, x).saved = x
           /\ D!ReloadFrom(d, x).text = x /\ D!ReloadFrom(d, x).disk = "insync"
           /\ D!ReloadFrom(d, x).stamp = x /\ D!ReloadFrom(d, x).version = d.version + 1
<1>1. PICK v \in Nat : v = d.version + 1
  BY FieldsOf
<1>2. D!ReloadFrom(d, x) = [d EXCEPT !.text = x, !.saved = x, !.version = v, !.disk = "insync", !.stamp = x]
  BY <1>1 DEF D!ReloadFrom
<1> QED BY <1>1, <1>2, MarksAre DEF Document

LEMMA CheckedIs ==
    ASSUME NEW d \in Document, NEW f \in Files, disk[f] \in Held, NEW e, e = D!CheckDisk(d, f)
    PROVE  /\ e \in Document
           /\ disk[f] = D!Gone <=> e.disk = "deleted"
           /\ e.disk = "insync" /\ e.stamp # e.saved =>
                e.saved = d.saved /\ d.disk = "insync" /\ e.stamp = d.stamp
           /\ e.disk = "insync" => e.stamp = disk[f]
           /\ \/ e.text = d.text /\ e.version = d.version /\ e.saved = d.saved
              \/ e.text = e.saved /\ d.text = d.saved /\ e.version = d.version + 1
<1>1. PICK now \in Int : now = disk[f]
  BY MarksAre
<1>2. e = IF now = D!Gone THEN D!Marked(d, "deleted", D!NoStamp)
          ELSE IF d.stamp = now /\ d.disk # "deleted" THEN d
          ELSE IF d.saved = now
               THEN D!Marked(d, IF d.disk = "deleted" /\ D!Unsaved(d) THEN "changed" ELSE "insync", now)
          ELSE IF D!Unsaved(d) THEN D!Marked(d, "changed", now)
          ELSE D!ReloadFrom(d, now)
  BY <1>1 DEF D!CheckDisk
<1>3. CASE now = D!Gone
  <2>1. D!NoStamp \in Int /\ "deleted" \in DocState
    BY MarksAre
  <2> QED BY <1>1, <1>2, <1>3, <2>1, MarkedIs
<1>4. CASE now # D!Gone /\ d.stamp = now /\ d.disk # "deleted"
  BY <1>1, <1>2, <1>4
<1>5. CASE now # D!Gone /\ ~(d.stamp = now /\ d.disk # "deleted") /\ d.saved = now
  <2>1. PICK k \in {"changed", "insync"} : e = D!Marked(d, k, now)
    BY <1>2, <1>5
  <2>2. k \in DocState
    BY MarksAre
  <2> QED BY <1>1, <1>5, <2>1, <2>2, MarkedIs
<1>6. CASE now # D!Gone /\ ~(d.stamp = now /\ d.disk # "deleted") /\ d.saved # now
  <2>1. CASE d.text # d.saved
    <3>1. e = D!Marked(d, "changed", now) /\ "changed" \in DocState
      BY <1>2, <1>6, <2>1, MarksAre DEF D!Unsaved
    <3> QED BY <1>1, <1>6, <3>1, MarkedIs
  <2>2. CASE d.text = d.saved
    <3>1. e = D!ReloadFrom(d, now) /\ now \in Nat
      BY <1>1, <1>2, <1>6, <2>2 DEF D!Unsaved, Held
    <3>2. /\ e \in Document /\ e.saved = now /\ e.text = now /\ e.disk = "insync"
          /\ e.stamp = now /\ e.version = d.version + 1
      BY <3>1, ReloadedIs
    <3> QED BY <1>1, <1>6, <2>2, <3>2
  <2> QED BY <2>1, <2>2
<1> QED BY <1>3, <1>4, <1>5, <1>6

LEMMA PutIs ==
    ASSUME NEW S, NEW m \in Maps(S), NEW k \in DOMAIN m, NEW x \in S, NEW n, n = [m EXCEPT ![k] = x]
    PROVE  /\ n \in Maps(S) /\ DOMAIN n = DOMAIN m /\ n[k] = x
           /\ \A j \in DOMAIN m : j # k => n[j] = m[j]
BY MapIs

(* What is read or written is stamped with what the file then holds. *)
LEMMA StampedIs ==
    ASSUME NEW d \in Document, NEW f \in Files, disk'[f] \in Held
    PROVE  /\ D!Stamped(d, f) \in Document /\ D!Stamped(d, f).text = d.text
           /\ D!Stamped(d, f).saved = d.saved /\ D!Stamped(d, f).version = d.version
           /\ D!Stamped(d, f).disk = d.disk /\ D!Stamped(d, f).stamp = disk'[f]
<1>1. disk'[f] \in Int
  BY MarksAre
<1> QED BY <1>1 DEF D!Stamped, Document

-----------------------------------------------------------------------------
(* What holds of every state: the types, of each document what it says of its
   file and what was sent of it, and of each key no document has that nothing
   is left of it. *)

DocTypes ==
    /\ disk \in [Files -> Held] /\ told \in BOOLEAN /\ docs \in Maps(Document)
    /\ fresh \in Nat /\ recovered \in Maps(Nat) /\ saves \in Maps(Nat)
    /\ written \in Maps(Nat) /\ jobs \in Seq(Maps(Held))
    /\ phase \in {"logic", "ui", "quit"} /\ histories \in BOOLEAN

(* A document that is in sync was stamped with what it loaded or saved, or the
   user kept it; once all is told, the file holds that, and is gone if the
   document says so. *)
TrueOfDisk(d, f, now, all, ks) ==
    /\ d.disk = "insync" => d.stamp = d.saved \/ f \in ks
    /\ all = TRUE /\ d.disk = "insync" => d.saved = now \/ (f \in ks /\ now \in {d.stamp, D!Gone})
    /\ all = TRUE /\ d.disk = "deleted" => now = D!Gone

(* The number last sent is not ahead of the document, but by the one that says
   its file is gone; and where it is the number of the document as it is, what
   will be left in the recovery file is the document's text. *)
TrueOfSent(d, sent, left, ph) ==
    /\ sent <= d.version + 1
    /\ sent = d.version => d.disk = "deleted" \/ d.text = d.saved \/ left = d.text
    /\ sent = d.version + 1 => /\ left = d.text
                               /\ d.disk = "deleted" \/ d.text = d.saved
                               /\ ph = "ui" => d.disk = "deleted"

Leaves(k) == D!Left(saves, jobs, k)

TrueOf(k) ==
    /\ k \in Files \ raced => TrueOfDisk(docs[k], k, disk[k], told, kept)
    /\ k \in DOMAIN written \ mistaken => TrueOfSent(docs[k], written[k], Leaves(k), phase)

DocsTrue == \A k \in DOMAIN docs : TrueOf(k)
SentAreOpen == phase = "ui" => DOMAIN written \subseteq DOMAIN docs
OthersGone ==
    histories = TRUE => \A k \in Keys \ (DOMAIN written \cup adopted) : Leaves(k) = D!Gone
QuitKept == phase = "quit" => D!UnsavedComesBackElse /\ D!NoGhosts

DocInv == DocTypes /\ DocsTrue /\ SentAreOpen /\ OthersGone /\ QuitKept

(* The document of k as it was, and all that is known of it. *)
AsItWas(k) ==
    /\ k \in DOMAIN docs /\ docs'[k] = docs[k]
    /\ told' = FALSE \/ (told' = told /\ (k \in Files => disk'[k] = disk[k]))
    /\ k \in raced => k \in raced'
    /\ k \in kept => k \in kept'
    /\ k \in mistaken => k \in mistaken'

(* A step of the user's, of the logic or from outside that records nothing keeps
   the invariant, if what is true of each document stays or becomes true. *)
LEMMA DocStep ==
    ASSUME DocInv, DocTypes', D!Unrecorded,
           \/ phase' = "logic"
           \/ phase' = phase /\ phase # "quit" /\ DOMAIN docs' = DOMAIN docs,
           \A k \in DOMAIN docs' : AsItWas(k) \/ TrueOf(k)'
    PROVE  DocInv'
<1> USE DEF DocInv, D!Unrecorded
<1>1. UNCHANGED <<jobs, saves, written, adopted, histories>>
  OBVIOUS
<1>2. \A k : Leaves(k)' = Leaves(k)
  BY <1>1 DEF Leaves
<1>3. ASSUME NEW k \in DOMAIN docs', AsItWas(k) PROVE TrueOf(k)'
  <2>1. TrueOf(k) /\ k \in DOMAIN docs
    BY <1>3 DEF DocsTrue, AsItWas
  <2>2. k \in Files \ raced' => TrueOfDisk(docs[k], k, disk'[k], told', kept')
    BY <2>1, <1>3 DEF AsItWas, TrueOf, TrueOfDisk
  <2>3. k \in DOMAIN written \ mistaken' => TrueOfSent(docs[k], written[k], Leaves(k), phase')
    BY <2>1, <1>3 DEF AsItWas, TrueOf, TrueOfSent
  <2> QED BY <1>1, <1>2, <1>3, <2>2, <2>3 DEF TrueOf, AsItWas
<1>4. DocsTrue'
  BY <1>3 DEF DocsTrue
<1>5. SentAreOpen'
  BY <1>1 DEF SentAreOpen
<1>6. OthersGone'
  BY <1>1, <1>2 DEF OthersGone
<1>7. QuitKept'
  BY DEF QuitKept
<1> QED BY <1>4, <1>5, <1>6, <1>7

-----------------------------------------------------------------------------
(* Panels open and draw *)

LEMMA InitDoc == D!Init => DocInv
<1> SUFFICES ASSUME D!Init PROVE DocInv
  OBVIOUS
<1> USE DEF D!Init
<1>1. DocTypes
  <2>1. disk \in [Files -> Held]
    BY DEF D!Gone, Held
  <2>2. jobs \in Seq(Maps(Held))
    OBVIOUS
  <2> QED BY <2>1, <2>2, NoMap DEF DocTypes
<1>2. DOMAIN docs = {} /\ DOMAIN written = {} /\ DOMAIN saves = {}
  BY NoMap
<1>3. \A k : Leaves(k) = D!Gone
  BY <1>2, NoMap DEF Leaves, D!Left, D!Naming
<1> QED BY <1>1, <1>2, <1>3 DEF DocInv, DocsTrue, SentAreOpen, OthersGone, QuitKept

(* What is read from a file or written to it, and what slips in behind. *)
LEMMA SlipsIs ==
    ASSUME DocTypes, NEW f \in Files, NEW held \in [Files -> Held], D!Slips(f, held)
    PROVE  /\ disk' \in [Files -> Held] /\ fresh' \in Nat /\ disk'[f] \in Held
           /\ \A g \in Files : g # f => disk'[g] = held[g]
           /\ \A g : g # f => (g \in raced' <=> g \in raced)
           /\ f \in raced' \/ disk'[f] = held[f]
<1>1. CASE disk' = held /\ raced' = raced \ {f} /\ UNCHANGED fresh
  BY <1>1 DEF DocTypes
<1>2. CASE fresh' = fresh + 1 /\ disk' = [held EXCEPT ![f] = fresh] /\ raced' = raced \cup {f}
  BY <1>2, MarksAre DEF DocTypes
<1> QED BY <1>1, <1>2 DEF D!Slips

LEMMA FramePhase == D!Frame => phase = "ui" /\ phase' = "logic" /\ D!Unrecorded
BY DEF D!Frame

LEMMA DrawUntitledDoc == ASSUME DocInv, NEW p \in Panels, D!DrawUntitled(p) PROVE DocInv'
<1> USE DEF DocInv
<1>1. p \in Keys /\ p \notin Files
  BY KeysApart DEF Keys
<1>2. PICK e : /\ e \in Document
               /\ docs' = D!With(docs, p, e)
  <2> DEFINE d == D!Doc(0, D!NoStamp)
  <2>1. d \in Document
    BY DocIs, MarksAre
  <2>2. p \in DOMAIN recovered => recovered[p] \in Nat
    BY ValueIs DEF DocTypes
  <2>3. docs' = D!With(docs, p, IF p \in DOMAIN recovered THEN D!RestoreUnsaved(d, recovered[p]) ELSE d)
    BY DEF D!DrawUntitled
  <2> HIDE DEF d
  <2>4. CASE p \in DOMAIN recovered
    <3>1. D!RestoreUnsaved(d, recovered[p]) \in Document
      BY <2>1, <2>2, <2>4, NewTextIs DEF D!RestoreUnsaved
    <3> QED BY <3>1, <2>3, <2>4
  <2>5. CASE p \notin DOMAIN recovered
    BY <2>1, <2>3, <2>5
  <2> QED BY <2>4, <2>5
<1>3. /\ docs' \in Maps(Document) /\ DOMAIN docs' = DOMAIN docs \cup {p}
      /\ \A j \in DOMAIN docs : j # p => docs'[j] = docs[j]
  <2>1. docs \in Maps(Document)
    BY DEF DocTypes
  <2> QED BY <1>1, <1>2, <2>1, WithIs
<1>4. recovered' \in Maps(Nat)
  BY WithoutIs DEF D!DrawUntitled, DocTypes
<1>5. D!Frame /\ UNCHANGED <<disk, told, fresh, raced, kept, mistaken>> /\ p \notin DOMAIN docs
  BY DEF D!DrawUntitled
<1>6. DocTypes'
  BY <1>3, <1>4, <1>5, FramePhase DEF DocTypes, D!Unrecorded
<1>7. TrueOf(p)'
  BY <1>1, <1>5, FramePhase DEF TrueOf, SentAreOpen, D!Unrecorded
<1>8. ASSUME NEW k \in DOMAIN docs', k # p PROVE AsItWas(k)
  BY <1>3, <1>5, <1>8 DEF AsItWas
<1> QED BY <1>5, <1>6, <1>7, <1>8, FramePhase, DocStep

LEMMA DrawFileDoc == ASSUME DocInv, NEW p \in Panels, D!DrawFile(p) PROVE DocInv'
<1>0. PICK f : f = panels[p]
  OBVIOUS
<1> DEFINE back == f \in DOMAIN recovered
           Restored(d) == IF back THEN D!RestoreUnsaved(d, recovered[f]) ELSE d
<1> USE DEF DocInv
<1>1. /\ f \in Files /\ f \notin DOMAIN docs /\ D!Frame /\ UNCHANGED told
      /\ recovered' = D!Without(recovered, {f})
      /\ kept' = kept \ {f} /\ mistaken' = mistaken \ {f}
      /\ \/ /\ disk[f] # D!Gone /\ D!Slips(f, disk)
            /\ docs' = D!With(docs, f, D!Stamped(Restored(D!Doc(disk[f], D!Gone)), f))
         \/ /\ disk[f] = D!Gone
            /\ docs' = D!With(docs, f, D!Marked(Restored(D!Doc(0, D!NoStamp)), "deleted", D!NoStamp))
            /\ UNCHANGED <<disk, fresh, raced>>
  BY <1>0 DEF D!DrawFile, D!Forgetting
<1>2. ASSUME NEW x \in Nat, NEW st \in Int, NEW e, e = Restored(D!Doc(x, st))
      PROVE  e \in Document /\ e.saved = x /\ e.disk = "insync"
  <2>1. back => recovered[f] \in Nat
    BY ValueIs DEF DocTypes
  <2>2. PICK d : d = D!Doc(x, st)
    OBVIOUS
  <2>3. d \in Document /\ d.saved = x /\ d.disk = "insync"
    BY <2>2, DocIs
  <2> QED BY <1>2, <2>1, <2>2, <2>3, NewTextIs DEF D!RestoreUnsaved
<1>3. f \in Keys /\ disk[f] \in Held
  BY <1>1 DEF Keys, DocTypes
<1> HIDE DEF back, Restored
<1>4. /\ disk' \in [Files -> Held] /\ fresh' \in Nat
      /\ \A g \in Files : g # f => disk'[g] = disk[g] /\ (g \in raced' <=> g \in raced)
      /\ \E e \in Document : /\ docs' = D!With(docs, f, e)
                             /\ \/ f \in raced'
                                \/ e.disk = "insync" /\ e.stamp = e.saved /\ e.saved = disk'[f]
                                \/ e.disk = "deleted" /\ disk'[f] = D!Gone
  <2>1. CASE disk[f] # D!Gone /\ D!Slips(f, disk)
             /\ docs' = D!With(docs, f, D!Stamped(Restored(D!Doc(disk[f], D!Gone)), f))
    <3>1. disk[f] \in Nat
      BY <1>3, <2>1 DEF Held
    <3>2. PICK d : d = Restored(D!Doc(disk[f], D!Gone))
      OBVIOUS
    <3>3. d \in Document /\ d.saved = disk[f] /\ d.disk = "insync"
      BY <1>2, <3>1, <3>2, MarksAre
    <3>4. disk \in [Files -> Held]
      BY DEF DocTypes
    <3>5. /\ disk' \in [Files -> Held] /\ fresh' \in Nat /\ disk'[f] \in Held
          /\ \A g \in Files : g # f => disk'[g] = disk[g]
          /\ \A g : g # f => (g \in raced' <=> g \in raced)
          /\ f \in raced' \/ disk'[f] = disk[f]
      BY <1>1, <2>1, <3>4, SlipsIs
    <3>6. PICK e : e = D!Stamped(d, f)
      OBVIOUS
    <3>7. e \in Document /\ e.saved = disk[f] /\ e.disk = "insync" /\ e.stamp = disk'[f]
      BY <1>1, <3>3, <3>5, <3>6, StampedIs
    <3>8. docs' = D!With(docs, f, e)
      BY <2>1, <3>2, <3>6
    <3> QED BY <3>5, <3>7, <3>8
  <2>2. CASE /\ disk[f] = D!Gone
             /\ docs' = D!With(docs, f, D!Marked(Restored(D!Doc(0, D!NoStamp)), "deleted", D!NoStamp))
             /\ UNCHANGED <<disk, fresh, raced>>
    <3>1. PICK d : d = Restored(D!Doc(0, D!NoStamp))
      OBVIOUS
    <3>2. d \in Document
      BY <1>2, <3>1, MarksAre
    <3>3. PICK e : e = D!Marked(d, "deleted", D!NoStamp)
      OBVIOUS
    <3>4. e \in Document /\ e.disk = "deleted"
      <4>1. "deleted" \in DocState /\ D!NoStamp \in Int
        BY MarksAre
      <4> QED BY <3>2, <3>3, <4>1, MarkedIs
    <3>5. docs' = D!With(docs, f, e)
      BY <2>2, <3>1, <3>3
    <3> QED BY <2>2, <3>4, <3>5 DEF DocTypes
  <2> QED BY <1>1, <2>1, <2>2
<1>5. PICK e \in Document : /\ docs' = D!With(docs, f, e)
                            /\ \/ f \in raced'
                               \/ e.disk = "insync" /\ e.stamp = e.saved /\ e.saved = disk'[f]
                               \/ e.disk = "deleted" /\ disk'[f] = D!Gone
  BY <1>4
<1>6. /\ docs' \in Maps(Document) /\ DOMAIN docs' = DOMAIN docs \cup {f} /\ docs'[f] = e
      /\ \A j \in DOMAIN docs : j # f => docs'[j] = docs[j]
  <2>1. docs \in Maps(Document)
    BY DEF DocTypes
  <2>2. docs' = D!With(docs, f, e) /\ e \in Document /\ f \in Keys
    BY <1>3, <1>5
  <2> HIDE DEF DocInv
  <2>3. /\ D!With(docs, f, e) \in Maps(Document)
        /\ DOMAIN D!With(docs, f, e) = DOMAIN docs \cup {f}
        /\ D!With(docs, f, e)[f] = e
        /\ \A j \in DOMAIN docs : j # f => D!With(docs, f, e)[j] = docs[j]
    BY <2>1, <2>2, WithIs
  <2> QED BY <2>2, <2>3
<1>7. recovered' \in Maps(Nat)
  BY <1>1, WithoutIs DEF DocTypes
<1>8. DocTypes'
  BY <1>1, <1>4, <1>6, <1>7, FramePhase DEF DocTypes, D!Unrecorded
<1>9. TrueOf(f)'
  <2>1. f \notin DOMAIN written'
    BY <1>1, FramePhase DEF SentAreOpen, D!Unrecorded
  <2>2. f \in Files \ raced' => TrueOfDisk(e, f, disk'[f], told', kept')
    BY <1>5 DEF TrueOfDisk
  <2> QED BY <1>6, <2>1, <2>2 DEF TrueOf
<1>10. ASSUME NEW k \in DOMAIN docs', k # f PROVE AsItWas(k) \/ TrueOf(k)'
  <2>1. k \in DOMAIN docs /\ docs'[k] = docs[k]
    BY <1>6, <1>10
  <2>2. k \in Files => AsItWas(k)
    BY <1>1, <1>4, <1>10, <2>1 DEF AsItWas
  <2>3. k \notin Files => TrueOf(k)'
    <3>1. TrueOf(k)
      BY <2>1 DEF DocsTrue
    <3>2. Leaves(k)' = Leaves(k) /\ written' = written
      BY <1>1, FramePhase DEF Leaves, D!Unrecorded
    <3>3. k \in mistaken' <=> k \in mistaken
      BY <1>1, <1>10
    <3>4. k \notin Files =>
            (k \in DOMAIN written \ mistaken' => TrueOfSent(docs[k], written[k], Leaves(k), phase'))
      BY <1>1, <3>1, <3>3, FramePhase DEF TrueOf, TrueOfSent
    <3> QED BY <2>1, <3>2, <3>4 DEF TrueOf
  <2> QED BY <2>2, <2>3
<1> QED BY <1>1, <1>8, <1>9, <1>10, FramePhase, DocStep

LEMMA PanelsDoc ==
    ASSUME DocInv,
           \/ D!Idle
           \/ \E f \in Files : D!OpenInEditor(f)
           \/ \E p \in Panels : D!NewEditor(p)
    PROVE  DocInv'
<1>1. D!Frame /\ UNCHANGED <<disk, told, docs, recovered, fresh, raced, kept, mistaken>>
  BY DEF D!Idle, D!OpenInEditor, D!NewEditor
<1>2. DocTypes'
  BY <1>1, FramePhase DEF DocInv, DocTypes, D!Unrecorded
<1>3. \A k \in DOMAIN docs' : AsItWas(k)
  BY <1>1 DEF AsItWas
<1> QED BY <1>1, <1>2, <1>3, FramePhase, DocStep

(* A document goes with its last panel. *)
LEMMA GoesDoc ==
    ASSUME DocInv, D!Frame, NEW K, docs' = D!Without(docs, K),
           UNCHANGED <<disk, told, recovered, fresh, raced, kept, mistaken>>
    PROVE  DocInv'
<1>1. /\ docs' \in Maps(Document) /\ DOMAIN docs' = DOMAIN docs \ K
      /\ \A j \in DOMAIN docs' : docs'[j] = docs[j]
  <2>1. docs \in Maps(Document)
    BY DEF DocInv, DocTypes
  <2> QED BY <2>1, WithoutIs
<1>2. DocTypes'
  BY <1>1, FramePhase DEF DocInv, DocTypes, D!Unrecorded
<1>3. \A k \in DOMAIN docs' : AsItWas(k)
  BY <1>1 DEF AsItWas
<1> QED BY <1>2, <1>3, FramePhase, DocStep

LEMMA CloseDoc ==
    ASSUME DocInv,
           \/ \E p \in Panels : D!ClosePanel(p) \/ D!ClosePanelAnyway(p)
           \/ \E p \in Panels, f \in Files : D!OpenHere(p, f)
           \/ \E tab \in SUBSET Panels : D!CloseTab(tab)
    PROVE  DocInv'
<1>1. /\ D!Frame /\ UNCHANGED <<disk, told, recovered, fresh, raced, kept, mistaken>>
      /\ \E K : docs' = D!Without(docs, K)
  <2>1. docs = D!Without(docs, {})
    BY DEF D!Without, DocInv, DocTypes, Maps
  <2> QED BY <2>1 DEF D!ClosePanel, D!ClosePanelAnyway, D!CloseTab, D!Closing, D!OpenHere
<1> QED BY <1>1, GoesDoc

-----------------------------------------------------------------------------
(* Documents are edited, saved, reloaded, moved and marked, and their files change *)

(* What a step that changes the document of one key has to show of it. *)
LEMMA OneDoc ==
    ASSUME DocInv, D!Unrecorded, phase' = "logic", NEW k \in Keys, NEW e \in Document,
           docs' \in Maps(Document), k \in DOMAIN docs', docs'[k] = e,
           \A j \in DOMAIN docs' : j # k =>
               /\ j \in DOMAIN docs /\ docs'[j] = docs[j]
               /\ told' = FALSE \/ (told' = told /\ (j \in Files => disk'[j] = disk[j]))
               /\ j \in raced => j \in raced'
               /\ j \in kept => j \in kept'
               /\ j \in mistaken => j \in mistaken',
           told' \in BOOLEAN, disk' \in [Files -> Held], fresh' \in Nat, recovered' \in Maps(Nat),
           k \in Files \ raced' => TrueOfDisk(e, k, disk'[k], told', kept'),
           k \in DOMAIN written \ mistaken' => TrueOfSent(e, written[k], Leaves(k), "logic")
    PROVE  DocInv'
<1>1. UNCHANGED <<jobs, saves, written, adopted, histories>> /\ Leaves(k)' = Leaves(k)
  BY DEF D!Unrecorded, Leaves
<1>2. DocTypes'
  BY <1>1 DEF DocInv, DocTypes
<1>3. TrueOf(k)'
  BY <1>1 DEF TrueOf
<1>4. \A j \in DOMAIN docs' : j # k => AsItWas(j)
  BY DEF AsItWas
<1> QED BY <1>2, <1>3, <1>4, DocStep

LEMMA KnownDoc ==
    ASSUME DocInv, NEW k \in DOMAIN docs
    PROVE  /\ docs \in Maps(Document) /\ docs[k] \in Document /\ k \in Keys /\ TrueOf(k)
           /\ k \in Files => disk[k] \in Held
           /\ k \in DOMAIN written => written[k] \in Nat
<1>1. docs \in Maps(Document) /\ written \in Maps(Nat) /\ disk \in [Files -> Held]
  BY DEF DocInv, DocTypes
<1>2. docs[k] \in Document /\ k \in Keys
  BY <1>1, ValueIs
<1>3. k \in DOMAIN written => written[k] \in Nat
  BY <1>1, ValueIs
<1> QED BY <1>1, <1>2, <1>3 DEF DocInv, DocsTrue

(* In the user interface what was sent of a document is not ahead of it, unless its
   file is gone. *)
LEMMA SentOf ==
    ASSUME DocInv, NEW k \in DOMAIN docs, k \in DOMAIN written \ mistaken
    PROVE  TrueOfSent(docs[k], written[k], Leaves(k), phase)
BY KnownDoc DEF TrueOf

LEMMA DiskOf ==
    ASSUME DocInv, NEW k \in DOMAIN docs, k \in Files \ raced
    PROVE  TrueOfDisk(docs[k], k, disk[k], told, kept)
BY KnownDoc DEF TrueOf

LEMMA EditDoc ==
    ASSUME DocInv, NEW p \in Panels, D!Edit(p) \/ D!UndoEdits(p)
    PROVE  DocInv'
<1>1. PICK k \in DOMAIN docs : k = D!KeyOf(p)
  BY DEF D!Edit, D!UndoEdits, D!PanelOn
<1>2. docs \in Maps(Document) /\ docs[k] \in Document /\ k \in Keys /\ fresh \in Nat
  BY KnownDoc DEF DocInv, DocTypes
<1>3. /\ D!Frame /\ UNCHANGED <<disk, told, recovered, raced, kept, mistaken>>
      /\ fresh' = fresh + 1 \/ fresh' = fresh
  BY DEF D!Edit, D!UndoEdits
<1>4. PICK x \in Nat : /\ docs' = [docs EXCEPT ![k] = D!NewText(docs[k], x)]
                       /\ D!Edit(p) \/ x = docs[k].saved
  <2>1. CASE D!Edit(p)
    <3>1. docs' = [docs EXCEPT ![k] = D!NewText(docs[k], fresh)]
      BY <1>1, <2>1 DEF D!Edit
    <3> QED BY <1>2, <2>1, <3>1
  <2>2. CASE D!UndoEdits(p)
    <3>1. docs' = [docs EXCEPT ![k] = D!NewText(docs[k], docs[k].saved)]
      BY <1>1, <2>2 DEF D!UndoEdits
    <3>2. docs[k].saved \in Nat
      BY <1>2, FieldsOf
    <3> QED BY <3>1, <3>2
  <2> QED BY <2>1, <2>2
<1>5. PICK e : e = D!NewText(docs[k], x)
  OBVIOUS
<1>6. /\ e \in Document /\ e.text = x /\ e.saved = docs[k].saved /\ e.version = docs[k].version + 1
      /\ e.disk = docs[k].disk /\ e.stamp = docs[k].stamp
  BY <1>2, <1>5, NewTextIs
<1>7. docs' = [docs EXCEPT ![k] = e]
  BY <1>4, <1>5
<1>8. /\ docs' \in Maps(Document) /\ DOMAIN docs' = DOMAIN docs /\ docs'[k] = e
      /\ \A j \in DOMAIN docs : j # k => docs'[j] = docs[j]
  BY <1>2, <1>6, <1>7, PutIs
<1>9. k \in Files \ raced => TrueOfDisk(e, k, disk[k], told, kept)
  BY <1>6, DiskOf DEF TrueOfDisk
<1>10. k \in DOMAIN written \ mistaken => TrueOfSent(e, written[k], Leaves(k), "logic")
  <2> SUFFICES ASSUME k \in DOMAIN written \ mistaken
               PROVE  TrueOfSent(e, written[k], Leaves(k), "logic")
    OBVIOUS
  <2>1. TrueOfSent(docs[k], written[k], Leaves(k), "ui")
    BY <1>3, SentOf, FramePhase
  <2>2. docs[k].version \in Nat /\ written[k] \in Nat
    BY <1>2, FieldsOf, KnownDoc
  <2> QED BY <1>6, <2>1, <2>2 DEF TrueOfSent
<1>11. /\ told' \in BOOLEAN /\ disk' \in [Files -> Held] /\ fresh' \in Nat /\ recovered' \in Maps(Nat)
  BY <1>2, <1>3 DEF DocInv, DocTypes
<1> QED BY <1>2, <1>3, <1>6, <1>8, <1>9, <1>10, <1>11, FramePhase, OneDoc

(* Reloading takes the file's text, keeping the user's, and either is noted. *)
LEMMA AnswerDoc ==
    ASSUME DocInv, NEW p \in Panels, D!Reload(p) \/ D!KeepMine(p)
    PROVE  DocInv'
<1>1. PICK k \in DOMAIN docs : k = D!KeyOf(p)
  BY DEF D!Reload, D!KeepMine, D!PanelOn
<1>2. /\ docs \in Maps(Document) /\ docs[k] \in Document /\ k \in Keys /\ k \in Files
      /\ disk[k] \in Held /\ docs[k].disk = "changed"
  BY <1>1, KnownDoc DEF D!Reload, D!KeepMine
<1>3. /\ D!Frame /\ UNCHANGED <<disk, told, recovered, fresh, mistaken>>
      /\ \A j : j # k => (j \in raced <=> j \in raced') /\ (j \in kept <=> j \in kept')
  BY <1>1 DEF D!Reload, D!KeepMine
<1>4. \E e \in Document :
        /\ docs' = [docs EXCEPT ![k] = e] /\ e.disk = "insync"
        /\ \/ D!Reload(p) /\ e.text = e.saved /\ e.saved = disk[k] /\ e.stamp = disk[k]
              /\ e.version = docs[k].version + 1
           \/ D!KeepMine(p) /\ e.text = docs[k].text /\ e.saved = docs[k].saved
              /\ e.version = docs[k].version
              /\ disk[k] \in {e.stamp, D!Gone}
  <2>1. CASE D!Reload(p)
    <3>1. docs' = [docs EXCEPT ![k] = D!ReloadFrom(docs[k], disk[k])] /\ disk[k] \in Nat
      BY <1>1, <1>2, <2>1 DEF D!Reload, Held
    <3>2. PICK e : e = D!ReloadFrom(docs[k], disk[k])
      OBVIOUS
    <3>3. /\ e \in Document /\ e.saved = disk[k] /\ e.text = disk[k] /\ e.disk = "insync"
          /\ e.stamp = disk[k] /\ e.version = docs[k].version + 1
      BY <1>2, <3>1, <3>2, ReloadedIs
    <3> QED BY <2>1, <3>1, <3>2, <3>3
  <2>2. CASE D!KeepMine(p)
    <3>1. PICK st : st = IF disk[k] = D!Gone THEN D!NoStamp ELSE disk[k]
      OBVIOUS
    <3>2. st \in Int
      BY <1>2, <3>1, MarksAre
    <3>3. docs' = [docs EXCEPT ![k] = D!Marked(docs[k], "insync", st)]
      BY <1>1, <2>2, <3>1 DEF D!KeepMine
    <3>4. PICK e : e = D!Marked(docs[k], "insync", st)
      OBVIOUS
    <3>5. /\ e \in Document /\ e.text = docs[k].text /\ e.saved = docs[k].saved
          /\ e.version = docs[k].version /\ e.disk = "insync" /\ e.stamp = st
      BY <1>2, <3>2, <3>4, MarksAre, MarkedIs
    <3> QED BY <2>2, <3>1, <3>3, <3>4, <3>5
  <2> QED BY <2>1, <2>2
<1>5. PICK e \in Document :
        /\ docs' = [docs EXCEPT ![k] = e] /\ e.disk = "insync"
        /\ \/ D!Reload(p) /\ e.text = e.saved /\ e.saved = disk[k] /\ e.stamp = disk[k]
              /\ e.version = docs[k].version + 1
           \/ D!KeepMine(p) /\ e.text = docs[k].text /\ e.saved = docs[k].saved
              /\ e.version = docs[k].version
              /\ disk[k] \in {e.stamp, D!Gone}
  BY <1>4
<1>6. docs' = [docs EXCEPT ![k] = e]
  BY <1>5
<1>7. /\ docs' \in Maps(Document) /\ DOMAIN docs' = DOMAIN docs /\ docs'[k] = e
      /\ \A j \in DOMAIN docs : j # k => docs'[j] = docs[j]
  BY <1>2, <1>6, PutIs
<1>8. D!KeepMine(p) => k \in kept'
  BY <1>1 DEF D!KeepMine
<1>9. TrueOfDisk(e, k, disk'[k], told', kept')
  BY <1>3, <1>5, <1>8 DEF TrueOfDisk
<1>10. k \in DOMAIN written \ mistaken => TrueOfSent(e, written[k], Leaves(k), "logic")
  <2> SUFFICES ASSUME k \in DOMAIN written \ mistaken
               PROVE  TrueOfSent(e, written[k], Leaves(k), "logic")
    OBVIOUS
  <2>1. TrueOfSent(docs[k], written[k], Leaves(k), "ui")
    BY <1>3, SentOf, FramePhase
  <2>2. docs[k].version \in Nat /\ written[k] \in Nat
    BY <1>2, FieldsOf, KnownDoc
  <2> QED BY <1>2, <1>5, <2>1, <2>2 DEF TrueOfSent
<1>11. /\ told' \in BOOLEAN /\ disk' \in [Files -> Held] /\ fresh' \in Nat /\ recovered' \in Maps(Nat)
  BY <1>3 DEF DocInv, DocTypes
<1> QED BY <1>2, <1>3, <1>7, <1>9, <1>10, <1>11, FramePhase, OneDoc

(* A document is written to a file, its own or one that was not there. *)
LEMMA SaveToDoc ==
    ASSUME DocInv, NEW k \in DOMAIN docs, NEW f \in Files, D!SaveTo(k, f),
           D!Unrecorded, phase' = "logic", UNCHANGED <<told, recovered>>
    PROVE  DocInv'
<1>1. /\ docs \in Maps(Document) /\ docs[k] \in Document /\ docs[k].text \in Nat
      /\ disk \in [Files -> Held] /\ DocTypes
  BY KnownDoc, FieldsOf DEF DocInv, DocTypes
<1>2. PICK held : held = [disk EXCEPT ![f] = docs[k].text]
  OBVIOUS
<1>3. held \in [Files -> Held] /\ held[f] = docs[k].text
  BY <1>1, <1>2, MarksAre
<1>4. /\ D!Slips(f, held) /\ kept' = kept \ {k, f}
      /\ docs' = D!With(D!Without(docs, {k}), f, D!Stamped(D!Saved(docs[k]), f))
      /\ mistaken' = IF k = f THEN mistaken ELSE D!Taken(k, f)
  BY <1>2 DEF D!SaveTo
<1>5. /\ disk' \in [Files -> Held] /\ fresh' \in Nat /\ disk'[f] \in Held
      /\ \A g \in Files : g # f => disk'[g] = held[g]
      /\ \A g : g # f => (g \in raced' <=> g \in raced)
      /\ f \in raced' \/ disk'[f] = held[f]
  BY <1>1, <1>3, <1>4, SlipsIs
<1>6. PICK e : e = D!Stamped(D!Saved(docs[k]), f)
  OBVIOUS
<1>7. /\ e \in Document /\ e.text = docs[k].text /\ e.saved = docs[k].text
      /\ e.version = docs[k].version /\ e.disk = "insync" /\ e.stamp = disk'[f]
  BY <1>1, <1>5, <1>6, SavedIs, StampedIs
<1>8. f \in Keys
  BY DEF Keys
<1>9. docs' = D!With(D!Without(docs, {k}), f, e)
  BY <1>4, <1>6
<1>12. /\ docs' \in Maps(Document) /\ DOMAIN docs' = (DOMAIN docs \ {k}) \cup {f} /\ docs'[f] = e
       /\ \A j \in DOMAIN docs' : j # f => j # k /\ j \in DOMAIN docs /\ docs'[j] = docs[j]
  <2>1. docs \in Maps(Document) /\ e \in Document
    BY <1>1, <1>7
  <2>2. Rekeyed(k, f, e)
    BY <1>8, <1>9, <2>1, RekeyedIs
  <2> QED BY <2>2 DEF Rekeyed
<1>13. f \in Files \ raced' => TrueOfDisk(e, f, disk'[f], told', kept')
  BY <1>3, <1>5, <1>7 DEF TrueOfDisk
<1>14. f \in DOMAIN written \ mistaken' => TrueOfSent(e, written[f], Leaves(f), "logic")
  <2>1. CASE k # f
    BY <1>4, <2>1 DEF D!Taken
  <2>2. CASE k = f
    <3> SUFFICES ASSUME f \in DOMAIN written \ mistaken
                 PROVE  TrueOfSent(e, written[f], Leaves(f), "logic")
      BY <1>4, <2>2
    <3>1. TrueOfSent(docs[k], written[k], Leaves(k), phase)
      BY <2>2, SentOf
    <3> QED BY <1>7, <2>2, <3>1 DEF TrueOfSent
  <2> QED BY <2>1, <2>2
<1>15. ASSUME NEW j \in DOMAIN docs', j # f
       PROVE  /\ j \in DOMAIN docs /\ docs'[j] = docs[j]
              /\ told' = told /\ (j \in Files => disk'[j] = disk[j])
              /\ j \in raced => j \in raced'
              /\ j \in kept => j \in kept'
              /\ j \in mistaken => j \in mistaken'
  <2>1. j # k /\ j \in DOMAIN docs /\ docs'[j] = docs[j]
    BY <1>12, <1>15
  <2>2. j \in mistaken => j \in mistaken'
    BY <1>4, <1>15, <2>1 DEF D!Taken
  <2>3. j \in Files => disk'[j] = disk[j]
    BY <1>1, <1>2, <1>5, <1>15
  <2> QED BY <1>4, <1>5, <1>15, <2>1, <2>2, <2>3
<1>16. told' \in BOOLEAN /\ recovered' \in Maps(Nat)
  BY <1>1 DEF DocTypes
<1> QED BY <1>5, <1>7, <1>8, <1>12, <1>13, <1>14, <1>15, <1>16, OneDoc

LEMMA SaveDoc ==
    ASSUME DocInv,
           \/ \E p \in Panels : D!Save(p)
           \/ \E p \in Panels, f \in Files : D!SaveAs(p, f)
           \/ \E f \in Files : D!AutoSave(f)
    PROVE  DocInv'
<1>1. ASSUME NEW p \in Panels, D!Save(p) PROVE DocInv'
  BY <1>1, SaveToDoc, FramePhase DEF D!Save, D!PanelOn
<1>2. ASSUME NEW p \in Panels, NEW f \in Files, D!SaveAs(p, f) PROVE DocInv'
  BY <1>2, SaveToDoc, FramePhase DEF D!SaveAs, D!PanelOn
<1>3. ASSUME NEW f \in Files, D!AutoSave(f) PROVE DocInv'
  BY <1>3, SaveToDoc DEF D!AutoSave, D!InLogic
<1> QED BY <1>1, <1>2, <1>3

LEMMA OutsideDoc ==
    ASSUME DocInv, NEW f \in Files, D!OutsideWrite(f) \/ D!OutsideDelete(f)
    PROVE  DocInv'
<1>1. /\ told' = FALSE /\ phase # "quit" /\ phase' = phase /\ D!Unrecorded
      /\ UNCHANGED <<docs, recovered, raced, kept, mistaken>>
  BY DEF D!OutsideWrite, D!OutsideDelete, D!Beside
<1>2. DocTypes'
  <2>1. disk' \in [Files -> Held] /\ fresh' \in Nat
    <3>1. disk \in [Files -> Held] /\ fresh \in Nat
      BY DEF DocInv, DocTypes
    <3>2. CASE D!OutsideWrite(f)
      BY <3>1, <3>2, MarksAre DEF D!OutsideWrite
    <3>3. CASE D!OutsideDelete(f)
      BY <3>1, <3>3, MarksAre DEF D!OutsideDelete
    <3> QED BY <3>2, <3>3
  <2> QED BY <1>1, <2>1 DEF DocInv, DocTypes, D!Unrecorded
<1>3. \A k \in DOMAIN docs' : AsItWas(k)
  BY <1>1 DEF AsItWas
<1> QED BY <1>1, <1>2, <1>3, DocStep

(* Every document looks at its file: one that was deleted and comes back under
   unsaved text is mistaken from then on. *)
LEMMA WatchDoc == ASSUME DocInv, D!Watch PROVE DocInv'
<1>1. /\ told' = TRUE /\ phase = "logic" /\ phase' = "logic" /\ D!Unrecorded
      /\ docs' = D!Checked(Files) /\ mistaken' = mistaken \cup D!Revived(Files)
      /\ UNCHANGED <<disk, recovered, fresh, raced, kept>>
  BY DEF D!Watch, D!InLogic
<1>2. docs \in Maps(Document) /\ disk \in [Files -> Held]
  BY DEF DocInv, DocTypes
<1>3. /\ DOMAIN docs' = DOMAIN docs
      /\ \A k \in DOMAIN docs \cap Files : docs'[k] = D!CheckDisk(docs[k], k)
      /\ \A k \in DOMAIN docs \ Files : docs'[k] = docs[k]
  BY <1>1 DEF D!Checked
<1>4. ASSUME NEW k \in DOMAIN docs \cap Files
      PROVE  /\ docs'[k] \in Document
             /\ disk[k] = D!Gone <=> docs'[k].disk = "deleted"
             /\ docs'[k].disk = "insync" /\ docs'[k].stamp # docs'[k].saved =>
                  /\ docs'[k].saved = docs[k].saved
                  /\ docs[k].disk = "insync" /\ docs'[k].stamp = docs[k].stamp
             /\ docs'[k].disk = "insync" => docs'[k].stamp = disk[k]
             /\ \/ /\ docs'[k].text = docs[k].text /\ docs'[k].version = docs[k].version
                   /\ docs'[k].saved = docs[k].saved
                \/ /\ docs'[k].text = docs'[k].saved /\ docs[k].text = docs[k].saved
                   /\ docs'[k].version = docs[k].version + 1
  <2>1. docs[k] \in Document /\ disk[k] \in Held
    BY <1>2, ValueIs
  <2>2. PICK e : e = D!CheckDisk(docs[k], k)
    OBVIOUS
  <2>3. docs'[k] = e
    BY <1>3, <2>2
  <2> QED BY <2>1, <2>2, <2>3, CheckedIs
<1>5. docs' \in Maps(Document)
  <2>1. \A k \in DOMAIN docs' : docs'[k] \in Document
    BY <1>2, <1>3, <1>4, ValueIs
  <2>2. docs' \in [DOMAIN docs' -> Document]
    BY <1>1, <2>1 DEF D!Checked
  <2>3. DOMAIN docs \subseteq Keys
    BY <1>2, MapIs
  <2> QED BY <1>3, <2>2, <2>3, MapIs
<1>6. DocTypes'
  BY <1>1, <1>5 DEF DocInv, DocTypes, D!Unrecorded
<1>7. ASSUME NEW k \in DOMAIN docs' PROVE TrueOf(k)'
  <2>0. k \in DOMAIN docs
    BY <1>3
  <2>1. k \in Files \ raced' => TrueOfDisk(docs'[k], k, disk'[k], told', kept')
    <3> SUFFICES ASSUME k \in Files \ raced PROVE TrueOfDisk(docs'[k], k, disk[k], TRUE, kept)
      BY <1>1
    <3>1. TrueOfDisk(docs[k], k, disk[k], told, kept)
      BY <2>0, DiskOf
    <3>2. docs'[k].disk = "insync" /\ docs'[k].stamp # docs'[k].saved => k \in kept
      BY <1>4, <2>0, <3>1 DEF TrueOfDisk
    <3> QED BY <1>4, <2>0, <3>2 DEF TrueOfDisk
  <2>2. k \in DOMAIN written' \ mistaken' => TrueOfSent(docs'[k], written'[k], Leaves(k)', phase')
    <3>1. written' = written /\ Leaves(k)' = Leaves(k)
      BY <1>1 DEF D!Unrecorded, Leaves
    <3> SUFFICES ASSUME k \in DOMAIN written \ mistaken, k \notin mistaken'
                 PROVE  TrueOfSent(docs'[k], written[k], Leaves(k), "logic")
      BY <1>1, <3>1
    <3>2. TrueOfSent(docs[k], written[k], Leaves(k), "logic")
      BY <1>1, <2>0, SentOf
    <3>3. docs[k].version \in Nat /\ written[k] \in Nat
      BY <2>0, KnownDoc, FieldsOf
    <3>4. CASE k \notin Files
      BY <1>3, <2>0, <3>2, <3>4
    <3>5. CASE k \in Files
      <4>1. docs[k].disk = "deleted" /\ docs[k].text # docs[k].saved => disk[k] = D!Gone
        BY <1>1, <2>0, <3>5 DEF D!Revived, D!Unsaved
      <4>2. docs'[k].disk = "deleted" \/ docs[k].disk # "deleted" \/ docs[k].text = docs[k].saved
        BY <1>4, <2>0, <3>5, <4>1
      <4> QED BY <1>4, <2>0, <3>2, <3>3, <3>5, <4>2 DEF TrueOfSent
    <3> QED BY <3>4, <3>5
  <2> QED BY <2>1, <2>2 DEF TrueOf
<1> QED BY <1>1, <1>6, <1>7, DocStep

(* A move takes the document along, and what was sent of the key it takes is no
   longer of the document there. *)
LEMMA RenameDoc ==
    ASSUME DocInv, NEW f \in Files, NEW g \in Files, D!Rename(f, g)
    PROVE  DocInv'
<1>1. /\ disk[f] # D!Gone /\ disk[g] = D!Gone /\ told' = FALSE
      /\ disk' = [disk EXCEPT ![g] = disk[f], ![f] = D!Gone]
      /\ D!Frame /\ UNCHANGED <<recovered, fresh>>
      /\ \/ /\ f \in DOMAIN docs
            /\ docs' = D!With(D!Without(docs, {f}), g, D!MovedTo(docs[f], disk[f]))
            /\ raced' = (raced \ {f, g}) \cup (IF f \in raced \/ docs[f].stamp # disk[f] THEN {g} ELSE {})
            /\ kept' = (kept \ {f, g}) \cup (IF f \in kept THEN {g} ELSE {})
            /\ mistaken' = D!Taken(f, g)
         \/ f \notin DOMAIN docs /\ UNCHANGED <<docs, raced, kept, mistaken>>
  BY DEF D!Rename
<1>2. /\ docs \in Maps(Document) /\ disk \in [Files -> Held] /\ f # g /\ g \in Keys
      /\ fresh \in Nat /\ recovered \in Maps(Nat)
  BY <1>1 DEF DocInv, DocTypes, Keys
<1>3. disk' \in [Files -> Held] /\ disk[f] \in Int
  BY <1>1, <1>2, MarksAre
<1>4. CASE f \notin DOMAIN docs
  <2>1. UNCHANGED <<docs, raced, kept, mistaken>>
    BY <1>1, <1>4
  <2>2. DocTypes'
    BY <1>1, <1>3, <2>1, FramePhase DEF DocInv, DocTypes, D!Unrecorded
  <2>3. \A k \in DOMAIN docs' : AsItWas(k)
    BY <1>1, <2>1 DEF AsItWas
  <2> QED BY <1>1, <2>2, <2>3, FramePhase, DocStep
<1>5. CASE f \in DOMAIN docs
  <2>1. PICK e : e = D!MovedTo(docs[f], disk[f])
    OBVIOUS
  <2>2. /\ e \in Document /\ e.text = docs[f].text /\ e.saved = docs[f].saved
        /\ e.version = docs[f].version /\ e.disk = docs[f].disk /\ e.stamp = disk[f]
    BY <1>3, <1>5, <2>1, KnownDoc, MovedIs
  <2>3. docs' = D!With(D!Without(docs, {f}), g, e)
    BY <1>1, <1>5, <2>1
  <2>6. /\ docs' \in Maps(Document) /\ DOMAIN docs' = (DOMAIN docs \ {f}) \cup {g} /\ docs'[g] = e
        /\ \A j \in DOMAIN docs' : j # g => j # f /\ j \in DOMAIN docs /\ docs'[j] = docs[j]
    <3>1. docs \in Maps(Document) /\ e \in Document /\ g \in Keys
      BY <1>2, <2>2
    <3>2. Rekeyed(f, g, e)
      BY <2>3, <3>1, RekeyedIs
    <3> QED BY <3>2 DEF Rekeyed
  <2>7. /\ raced' = (raced \ {f, g}) \cup (IF f \in raced \/ docs[f].stamp # disk[f] THEN {g} ELSE {})
        /\ kept' = (kept \ {f, g}) \cup (IF f \in kept THEN {g} ELSE {})
        /\ mistaken' = (mistaken \ {f, g}) \cup ({g} \cap DOMAIN written)
    BY <1>1, <1>5 DEF D!Taken
  <2>8. g \in Files \ raced' => TrueOfDisk(e, g, disk'[g], told', kept')
    <3> SUFFICES ASSUME g \notin raced' PROVE TrueOfDisk(e, g, disk'[g], told', kept')
      OBVIOUS
    <3>1. f \notin raced /\ docs[f].stamp = disk[f]
      BY <2>7
    <3>2. TrueOfDisk(docs[f], f, disk[f], told, kept)
      BY <1>5, <3>1, DiskOf
    <3> QED BY <1>1, <2>2, <2>7, <3>1, <3>2 DEF TrueOfDisk
  <2>9. g \notin DOMAIN written \ mistaken'
    BY <2>7
  <2>10. \A j \in DOMAIN docs' : j # g =>
            /\ j \in raced => j \in raced'
            /\ j \in kept => j \in kept'
            /\ j \in mistaken => j \in mistaken'
    BY <2>6, <2>7
  <2> QED BY <1>1, <1>2, <1>3, <2>2, <2>6, <2>8, <2>9, <2>10, FramePhase, OneDoc
<1> QED BY <1>4, <1>5

LEMMA TrashDoc ==
    ASSUME DocInv, NEW f \in Files, D!Trash(f)
    PROVE  DocInv'
<1>1. /\ D!Frame /\ disk' = [disk EXCEPT ![f] = D!Gone]
      /\ docs' = IF f \in DOMAIN docs THEN [docs EXCEPT ![f] = D!Marked(docs[f], "deleted", D!NoStamp)] ELSE docs
      /\ UNCHANGED <<told, recovered, fresh, raced, kept, mistaken>>
  BY DEF D!Trash
<1>2. /\ docs \in Maps(Document) /\ disk \in [Files -> Held] /\ f \in Keys
      /\ fresh \in Nat /\ recovered \in Maps(Nat) /\ told \in BOOLEAN
  BY DEF DocInv, DocTypes, Keys
<1>3. disk' \in [Files -> Held] /\ disk'[f] = D!Gone /\ \A g \in Files : g # f => disk'[g] = disk[g]
  BY <1>1, <1>2, MarksAre
<1>4. CASE f \notin DOMAIN docs
  <2>1. docs' = docs
    BY <1>1, <1>4
  <2>2. DocTypes'
    BY <1>1, <1>3, <2>1, FramePhase DEF DocInv, DocTypes, D!Unrecorded
  <2>3. \A k \in DOMAIN docs' : AsItWas(k)
    BY <1>1, <1>3, <1>4, <2>1 DEF AsItWas
  <2> QED BY <1>1, <2>2, <2>3, FramePhase, DocStep
<1>5. CASE f \in DOMAIN docs
  <2>1. PICK e : e = D!Marked(docs[f], "deleted", D!NoStamp)
    OBVIOUS
  <2>2. /\ e \in Document /\ e.text = docs[f].text /\ e.saved = docs[f].saved
        /\ e.version = docs[f].version /\ e.disk = "deleted"
    <3>1. docs[f] \in Document
      BY <1>5, KnownDoc
    <3>2. "deleted" \in DocState /\ D!NoStamp \in Int
      BY MarksAre
    <3> QED BY <2>1, <3>1, <3>2, MarkedIs
  <2>3. docs' = [docs EXCEPT ![f] = e]
    BY <1>1, <1>5, <2>1
  <2>4. /\ docs' \in Maps(Document) /\ DOMAIN docs' = DOMAIN docs /\ docs'[f] = e
        /\ \A j \in DOMAIN docs : j # f => docs'[j] = docs[j]
    BY <1>2, <1>5, <2>2, <2>3, PutIs
  <2>5. TrueOfDisk(e, f, disk'[f], told', kept')
    BY <1>3, <2>2 DEF TrueOfDisk
  <2>6. f \in DOMAIN written \ mistaken' => TrueOfSent(e, written[f], Leaves(f), "logic")
    <3> SUFFICES ASSUME f \in DOMAIN written \ mistaken
                 PROVE  TrueOfSent(e, written[f], Leaves(f), "logic")
      BY <1>1
    <3>1. TrueOfSent(docs[f], written[f], Leaves(f), "ui")
      BY <1>1, <1>5, SentOf, FramePhase
    <3> QED BY <2>2, <3>1 DEF TrueOfSent
  <2> QED BY <1>1, <1>2, <1>3, <1>5, <2>2, <2>4, <2>5, <2>6, FramePhase, OneDoc
<1> QED BY <1>4, <1>5

-----------------------------------------------------------------------------
(* What the recovery thread leaves of a key *)

LEMMA LastIs ==
    ASSUME NEW js \in Seq(Maps(Held)), NEW k, D!Naming(js, k) # {}
    PROVE  /\ D!LastNaming(js, k) \in D!Naming(js, k)
           /\ \A j \in D!Naming(js, k) : j <= D!LastNaming(js, k)
<1>1. D!Naming(js, k) \in SUBSET (0 .. Len(js)) /\ Len(js) \in Nat
  BY DEF D!Naming
<1>2. \E i \in D!Naming(js, k) : \A j \in D!Naming(js, k) : j <= i
  BY <1>1, Greatest
<1> QED BY <1>2 DEF D!LastNaming

LEMMA LastIf ==
    ASSUME NEW js \in Seq(Maps(Held)), NEW k, NEW i \in D!Naming(js, k),
           \A j \in D!Naming(js, k) : j <= i
    PROVE  D!LastNaming(js, k) = i
<1>1. D!Naming(js, k) \subseteq Nat
  BY DEF D!Naming
<1>2. /\ D!LastNaming(js, k) \in D!Naming(js, k)
      /\ \A j \in D!Naming(js, k) : j <= D!LastNaming(js, k)
  BY LastIs
<1>3. PICK l \in Nat : l = D!LastNaming(js, k)
  BY <1>1, <1>2
<1>4. i \in Nat /\ l <= i /\ i <= l
  BY <1>1, <1>2, <1>3
<1> QED BY <1>3, <1>4

(* The last job of the queue that names the key. *)
LastAt(js, k, i) ==
    js \in Seq(Maps(Held)) /\ i \in D!Naming(js, k) /\ \A j \in D!Naming(js, k) : j <= i

LEMMA LeftIs ==
    ASSUME NEW held, NEW js, NEW k, NEW i, LastAt(js, k, i)
    PROVE  D!Left(held, js, k) = js[i][k]
<1>1. js \in Seq(Maps(Held)) /\ i \in D!Naming(js, k) /\ \A j \in D!Naming(js, k) : j <= i
  BY DEF LastAt
<1>2. D!LastNaming(js, k) = i
  BY <1>1, LastIf
<1> QED BY <1>1, <1>2 DEF D!Left

LEMMA LeftOfNone ==
    ASSUME NEW held, NEW k
    PROVE  D!Left(held, <<>>, k) = IF k \in DOMAIN held THEN held[k] ELSE D!Gone
<1>1. D!Naming(<<>>, k) = {}
  BY DEF D!Naming
<1> QED BY <1>1 DEF D!Left

LEMMA LeftTyped ==
    ASSUME NEW held \in Maps(Nat), NEW js \in Seq(Maps(Held)), NEW k
    PROVE  D!Left(held, js, k) \in Held
<1>1. CASE D!Naming(js, k) = {}
  <2>1. k \in DOMAIN held => held[k] \in Nat
    BY ValueIs
  <2> QED BY <1>1, <2>1, MarksAre DEF D!Left
<1>2. CASE D!Naming(js, k) # {}
  <2>1. PICK i \in D!Naming(js, k) : D!Left(held, js, k) = js[i][k]
    BY <1>2, LastIs DEF D!Left
  <2>2. js[i] \in Maps(Held) /\ k \in DOMAIN js[i]
    BY DEF D!Naming
  <2> QED BY <2>1, <2>2, ValueIs
<1> QED BY <1>1, <1>2

(* A batch sent has the last word of the keys it names. *)
LEMMA LeftAppended ==
    ASSUME NEW held, NEW js \in Seq(Maps(Held)), NEW b \in Maps(Held), NEW k
    PROVE  D!Left(held, Append(js, b), k) = IF k \in DOMAIN b THEN b[k] ELSE D!Left(held, js, k)
<1>1. PICK n \in Nat : n = Len(js)
  OBVIOUS
<1>2. PICK a : a = Append(js, b)
  OBVIOUS
<1>3. /\ a \in Seq(Maps(Held)) /\ DOMAIN a = 1 .. n + 1 /\ DOMAIN js = 1 .. n /\ a[n + 1] = b
      /\ \A i \in 1 .. n : a[i] = js[i]
  BY <1>1, <1>2
<1>4. \A i : i \in D!Naming(a, k) <=> \/ i \in D!Naming(js, k)
                                      \/ i = n + 1 /\ k \in DOMAIN b
  BY <1>3 DEF D!Naming
<1>5. \A i \in D!Naming(js, k) : i \in 1 .. n /\ a[i] = js[i]
  BY <1>3 DEF D!Naming
<1>6. CASE k \in DOMAIN b
  <2>1. n + 1 \in D!Naming(a, k) /\ \A i \in D!Naming(a, k) : i <= n + 1
    BY <1>4, <1>5, <1>6
  <2>2. PICK i : i = n + 1
    OBVIOUS
  <2>3. i \in D!Naming(a, k)
    BY <2>1, <2>2
  <2>4. \A j \in D!Naming(a, k) : j <= i
    BY <2>1, <2>2
  <2>5. LastAt(a, k, i)
    BY <1>3, <2>3, <2>4 DEF LastAt
  <2>6. D!Left(held, a, k) = a[i][k]
    BY <2>5, LeftIs
  <2> QED BY <1>2, <1>3, <1>6, <2>2, <2>6
<1>7. CASE k \notin DOMAIN b
  <2>1. D!Naming(a, k) = D!Naming(js, k)
    BY <1>4, <1>7
  <2>2. CASE D!Naming(js, k) = {}
    BY <1>2, <1>7, <2>1, <2>2 DEF D!Left
  <2>3. CASE D!Naming(js, k) # {}
    <3>1. PICK i \in D!Naming(js, k) : \A j \in D!Naming(js, k) : j <= i
      BY <2>3, LastIs
    <3>2. LastAt(js, k, i)
      BY <3>1 DEF LastAt
    <3>3. D!Left(held, js, k) = js[i][k]
      BY <3>2, LeftIs
    <3>4. LastAt(a, k, i)
      BY <1>3, <2>1, <3>1 DEF LastAt
    <3>5. D!Left(held, a, k) = a[i][k]
      BY <3>4, LeftIs
    <3>6. a[i] = js[i]
      BY <1>5, <3>1
    <3>7. D!Left(held, a, k) = D!Left(held, js, k)
      BY <3>3, <3>5, <3>6
    <3> QED BY <1>2, <1>7, <3>7
  <2> QED BY <2>2, <2>3
<1> QED BY <1>6, <1>7

(* A job with nothing left in it says nothing. *)
LEMMA LeftTail ==
    ASSUME NEW held, NEW js \in Seq(Maps(Held)), js # <<>>, DOMAIN js[1] = {}, NEW k
    PROVE  D!Left(held, Tail(js), k) = D!Left(held, js, k)
<1>1. PICK n \in Nat : n + 1 = Len(js)
  <2>1. Len(js) \in Nat /\ Len(js) # 0
    OBVIOUS
  <2>2. Len(js) - 1 \in Nat /\ (Len(js) - 1) + 1 = Len(js)
    BY <2>1
  <2> QED BY <2>2
<1>2. PICK t : t = Tail(js)
  OBVIOUS
<1>3. /\ t \in Seq(Maps(Held)) /\ DOMAIN t = 1 .. n /\ DOMAIN js = 1 .. n + 1
      /\ \A i \in 1 .. n : t[i] = js[i + 1]
  BY <1>1, <1>2
<1>4. \A i \in D!Naming(js, k) : i \in Nat /\ i - 1 \in D!Naming(t, k) /\ t[i - 1] = js[i]
  <2> SUFFICES ASSUME NEW i \in D!Naming(js, k)
               PROVE  i \in Nat /\ i - 1 \in D!Naming(t, k) /\ t[i - 1] = js[i]
    OBVIOUS
  <2>1. i \in 1 .. n + 1 /\ k \in DOMAIN js[i]
    BY <1>3 DEF D!Naming
  <2>2. i # 1
    BY <2>1
  <2>3. PICK m \in 1 .. n : m = i - 1
    BY <2>1, <2>2
  <2>4. t[m] = js[m + 1] /\ m + 1 = i
    BY <1>3, <2>1, <2>3
  <2>5. m \in D!Naming(t, k)
    BY <1>3, <2>1, <2>4 DEF D!Naming
  <2> QED BY <2>1, <2>3, <2>4, <2>5
<1>5. \A i \in D!Naming(t, k) : i \in Nat /\ i + 1 \in D!Naming(js, k)
  BY <1>3 DEF D!Naming
<1>6. CASE D!Naming(js, k) = {}
  <2>1. D!Naming(t, k) = {}
    BY <1>5, <1>6
  <2> QED BY <1>2, <1>6, <2>1 DEF D!Left
<1>7. CASE D!Naming(js, k) # {}
  <2>1. PICK i \in D!Naming(js, k) : \A j \in D!Naming(js, k) : j <= i
    BY <1>7, LastIs
  <2>2. D!Left(held, js, k) = js[i][k]
    <3>1. LastAt(js, k, i)
      BY <2>1 DEF LastAt
    <3> QED BY <3>1, LeftIs
  <2>3. PICK m : m = i - 1
    OBVIOUS
  <2>4. m \in D!Naming(t, k) /\ t[m] = js[i] /\ i \in Nat
    BY <1>4, <2>3
  <2>5. \A j \in D!Naming(t, k) : j <= m
    BY <1>5, <2>1, <2>3, <2>4
  <2>6. D!Left(held, t, k) = t[m][k]
    <3>1. LastAt(t, k, m)
      BY <1>3, <2>4, <2>5 DEF LastAt
    <3> QED BY <3>1, LeftIs
  <2> QED BY <1>2, <2>2, <2>4, <2>6
<1> QED BY <1>6, <1>7

(* The thread writes or deletes one file of its first job, and what is left in the
   end is as before. *)
OneWritten(held, js, h, k, rest, after, next) ==
    /\ js \in Seq(Maps(Held)) /\ js # <<>> /\ h = Head(js) /\ k \in DOMAIN h
    /\ rest = D!Without(h, {k}) /\ rest \in Maps(Held)
    /\ after = D!Done(held, k, h[k])
    /\ next = IF DOMAIN rest = {} THEN Tail(js) ELSE [js EXCEPT ![1] = rest]

LEMMA LeftWritten ==
    ASSUME NEW held, NEW js, NEW h, NEW k, NEW rest, NEW after, NEW next,
           OneWritten(held, js, h, k, rest, after, next), NEW j
    PROVE  /\ next \in Seq(Maps(Held))
           /\ D!Left(after, next, j) = D!Left(held, js, j)
<1> SUFFICES ASSUME js \in Seq(Maps(Held)), js # <<>>, h = Head(js), k \in DOMAIN h,
                    rest = D!Without(h, {k}), rest \in Maps(Held), after = D!Done(held, k, h[k]),
                    next = IF DOMAIN rest = {} THEN Tail(js) ELSE [js EXCEPT ![1] = rest]
             PROVE  next \in Seq(Maps(Held)) /\ D!Left(after, next, j) = D!Left(held, js, j)
  BY DEF OneWritten
<1>1. /\ Len(js) \in Nat /\ 1 \in DOMAIN js /\ h = js[1] /\ DOMAIN js = 1 .. Len(js)
  OBVIOUS
<1>2. PICK cut : cut = [js EXCEPT ![1] = rest]
  OBVIOUS
<1>3. /\ cut \in Seq(Maps(Held)) /\ DOMAIN cut = DOMAIN js /\ cut[1] = rest
      /\ \A i \in DOMAIN js : i # 1 => cut[i] = js[i]
      /\ cut # <<>> /\ Tail(cut) = Tail(js)
  BY <1>1, <1>2
<1>4. DOMAIN rest = DOMAIN h \ {k} /\ \A i \in DOMAIN rest : rest[i] = h[i]
  BY DEF D!Without
<1>5. /\ j # k => (j \in DOMAIN after <=> j \in DOMAIN held) /\ (j \in DOMAIN held => after[j] = held[j])
      /\ (IF k \in DOMAIN after THEN after[k] ELSE D!Gone) = h[k]
  BY DEF D!Done, D!Without, D!With
<1>6. \A i \in DOMAIN js : i \in D!Naming(cut, j) <=> i \in D!Naming(js, j) /\ ~(i = 1 /\ j = k)
  BY <1>1, <1>3, <1>4 DEF D!Naming
<1>7. /\ D!Naming(cut, j) \subseteq DOMAIN js /\ D!Naming(js, j) \subseteq DOMAIN js
      /\ D!Naming(cut, j) \subseteq D!Naming(js, j)
  BY <1>3, <1>6 DEF D!Naming
<1>8. D!Left(after, cut, j) = D!Left(held, js, j)
  <2>1. CASE D!Naming(cut, j) # {}
    <3>1. PICK i \in D!Naming(cut, j) : \A m \in D!Naming(cut, j) : m <= i
      BY <1>3, <2>1, LastIs
    <3>2. D!Left(after, cut, j) = cut[i][j]
      <4>1. LastAt(cut, j, i)
        BY <1>3, <3>1 DEF LastAt
      <4> QED BY <4>1, LeftIs
    <3>3. i \in D!Naming(js, j) /\ \A m \in D!Naming(js, j) : m <= i
      BY <1>1, <1>6, <1>7, <3>1
    <3>4. D!Left(held, js, j) = js[i][j]
      <4>1. LastAt(js, j, i)
        BY <3>3 DEF LastAt
      <4> QED BY <4>1, LeftIs
    <3>5. cut[i][j] = js[i][j]
      BY <1>1, <1>3, <1>4, <1>7, <3>1 DEF D!Naming
    <3> QED BY <3>2, <3>4, <3>5
  <2>2. CASE D!Naming(cut, j) = {} /\ D!Naming(js, j) = {}
    <3>1. j # k
      BY <1>1, <2>2 DEF D!Naming
    <3> QED BY <1>5, <2>2, <3>1 DEF D!Left
  <2>3. CASE D!Naming(cut, j) = {} /\ D!Naming(js, j) # {}
    <3>1. D!Naming(js, j) = {1} /\ j = k
      BY <1>6, <1>7, <2>3
    <3>2. D!Left(held, js, j) = js[1][j]
      <4>1. LastAt(js, j, 1)
        BY <3>1 DEF LastAt
      <4> QED BY <4>1, LeftIs
    <3>3. D!Left(after, cut, j) = IF k \in DOMAIN after THEN after[k] ELSE D!Gone
      BY <2>3, <3>1 DEF D!Left
    <3> QED BY <1>1, <1>5, <3>1, <3>2, <3>3
  <2> QED BY <2>1, <2>2, <2>3
<1>9. CASE DOMAIN rest = {}
  <2>1. next = Tail(cut) /\ DOMAIN cut[1] = {}
    BY <1>3, <1>9
  <2>2. D!Left(after, Tail(cut), j) = D!Left(after, cut, j)
    <3>1. cut \in Seq(Maps(Held)) /\ cut # <<>>
      BY <1>3
    <3> QED BY <2>1, <3>1, LeftTail
  <2>3. Tail(cut) \in Seq(Maps(Held))
    <3>1. cut \in Seq(Maps(Held)) /\ cut # <<>>
      BY <1>3
    <3> QED BY <3>1
  <2> QED BY <1>8, <2>1, <2>2, <2>3
<1>10. CASE DOMAIN rest # {}
  BY <1>2, <1>3, <1>8, <1>10
<1> QED BY <1>9, <1>10

(* When all is done, what is left is what there is. *)
LEMMA AllDoneIs ==
    ASSUME NEW held \in Maps(Nat), NEW js \in Seq(Maps(Held)), NEW after, after = D!AllDone(held, js)
    PROVE  /\ after \in Maps(Nat)
           /\ \A k : D!Left(after, <<>>, k) = D!Left(held, js, k)
<1>1. \A k : D!Left(held, js, k) \in Held
  BY LeftTyped
<1>2. ASSUME NEW k, D!Left(held, js, k) # D!Gone
      PROVE  k \in DOMAIN held \cup UNION {DOMAIN js[i] : i \in DOMAIN js}
  BY <1>2 DEF D!Left, D!Naming
<1>3. /\ \A k : k \in DOMAIN after <=> D!Left(held, js, k) # D!Gone
      /\ \A k \in DOMAIN after : after[k] = D!Left(held, js, k)
      /\ after = [k \in DOMAIN after |-> D!Left(held, js, k)]
  BY <1>2 DEF D!AllDone
<1>4. DOMAIN after \subseteq Keys
  <2> SUFFICES ASSUME NEW k \in DOMAIN after PROVE k \in Keys
    OBVIOUS
  <2>1. k \in DOMAIN held \/ \E i \in DOMAIN js : k \in DOMAIN js[i]
    BY <1>2, <1>3
  <2>2. \A i \in DOMAIN js : js[i] \in Maps(Held)
    OBVIOUS
  <2> QED BY <2>1, <2>2, MapIs
<1>5. \A k \in DOMAIN after : D!Left(held, js, k) \in Nat
  BY <1>1, <1>3 DEF Held
<1>6. after \in [DOMAIN after -> Nat]
  BY <1>3, <1>5
<1>7. after \in Maps(Nat)
  BY <1>4, <1>6, MapIs
<1>8. \A k : D!Left(after, <<>>, k) = D!Left(held, js, k)
  BY <1>3, LeftOfNone
<1> QED BY <1>7, <1>8

-----------------------------------------------------------------------------
(* The recovery thread, a tick, quitting and starting again *)

LEMMA WriterDoc == ASSUME DocInv, D!Writer PROVE DocInv'
<1>1. /\ phase # "quit" /\ jobs # <<>> /\ saves \in Maps(Nat) /\ jobs \in Seq(Maps(Held))
      /\ UNCHANGED <<disk, told, docs, panels, written, adopted, recovered, histories, phase, fresh,
                     raced, kept, mistaken>>
  BY DEF D!Writer, DocInv, DocTypes
<1>2. PICK h : h = Head(jobs)
  OBVIOUS
<1>3. h \in Maps(Held)
  BY <1>1, <1>2
<1>4. PICK k \in DOMAIN h :
         /\ saves' = D!Done(saves, k, h[k])
         /\ jobs' = IF DOMAIN D!Without(h, {k}) = {} THEN Tail(jobs)
                    ELSE [jobs EXCEPT ![1] = D!Without(h, {k})]
  BY <1>2 DEF D!Writer
<1>5. PICK rest : rest = D!Without(h, {k})
  OBVIOUS
<1>6. rest \in Maps(Held) /\ h[k] \in Held /\ k \in Keys
  <2>1. rest \in Maps(Held)
    BY <1>3, <1>5, WithoutIs
  <2> QED BY <1>3, <2>1, ValueIs
<1>7. jobs' = IF DOMAIN rest = {} THEN Tail(jobs) ELSE [jobs EXCEPT ![1] = rest]
  BY <1>4, <1>5
<1>8. ASSUME NEW j PROVE jobs' \in Seq(Maps(Held)) /\ Leaves(j)' = Leaves(j)
  <2>1. PICK next : next = jobs'
    OBVIOUS
  <2>2. PICK after : after = saves'
    OBVIOUS
  <2>3. OneWritten(saves, jobs, h, k, rest, after, next)
    BY <1>1, <1>2, <1>4, <1>5, <1>6, <1>7, <2>1, <2>2 DEF OneWritten
  <2>4. next \in Seq(Maps(Held)) /\ D!Left(after, next, j) = D!Left(saves, jobs, j)
    BY <2>3, LeftWritten
  <2> QED BY <2>1, <2>2, <2>4 DEF Leaves
<1>9. saves' \in Maps(Nat)
  <2>1. CASE h[k] = D!Gone
    <3>1. saves' = D!Without(saves, {k})
      BY <1>4, <2>1 DEF D!Done
    <3> QED BY <1>1, <3>1, WithoutIs
  <2>2. CASE h[k] # D!Gone
    <3>1. saves' = D!With(saves, k, h[k]) /\ h[k] \in Nat
      BY <1>4, <1>6, <2>2 DEF D!Done, Held
    <3>2. saves \in Maps(Nat) /\ k \in Keys
      BY <1>1, <1>6
    <3> QED BY <3>1, <3>2, WithIs
  <2> QED BY <2>1, <2>2
<1>10. DocTypes'
  BY <1>1, <1>8, <1>9 DEF DocInv, DocTypes
<1>11. DocsTrue'
  <2> SUFFICES ASSUME NEW k0 \in DOMAIN docs PROVE TrueOf(k0)'
    BY <1>1 DEF DocsTrue
  <2>1. TrueOf(k0) /\ Leaves(k0)' = Leaves(k0)
    BY <1>8 DEF DocInv, DocsTrue
  <2> QED BY <1>1, <2>1 DEF TrueOf
<1>12. SentAreOpen' /\ OthersGone' /\ QuitKept'
  BY <1>1, <1>8 DEF DocInv, SentAreOpen, OthersGone, QuitKept
<1> QED BY <1>10, <1>11, <1>12 DEF DocInv

(* What a tick sends, whoever ticks: now are the documents it writes, before what
   was sent of them, and after it what is left of a key is what the batch says of
   it if it names it. *)
Ticking(before, now, batch) ==
    /\ phase # "quit" /\ phase' \in {"ui", "quit"}
    /\ now \subseteq D!DirtyDocs
    /\ before = written \/ (before = <<>> /\ histories' = FALSE)
    /\ histories' = TRUE => histories = TRUE
    /\ batch = D!Batch(before, now) /\ D!Tick(before, now)
    /\ \A k : Leaves(k)' = IF k \in DOMAIN batch THEN batch[k] ELSE Leaves(k)
    /\ UNCHANGED <<disk, told, docs, recovered, fresh, raced, kept>>

LEMMA VersionIs ==
    ASSUME NEW k \in DOMAIN docs, docs[k] \in Document
    PROVE  /\ D!Version(k) \in Nat
           /\ docs[k].disk = "deleted" => D!Version(k) = docs[k].version + 1
           /\ docs[k].disk # "deleted" => D!Version(k) = docs[k].version
<1>1. docs[k].version \in Nat
  BY FieldsOf
<1> QED BY <1>1 DEF D!Version

LEMMA BatchIs ==
    ASSUME DocInv, NEW before \in Maps(Nat), NEW now, now \subseteq D!DirtyDocs,
           NEW batch, batch = D!Batch(before, now)
    PROVE  /\ batch \in Maps(Held)
           /\ \A k : k \in DOMAIN batch <=> \/ k \in now \/ k \in DOMAIN before \ DOMAIN docs
                                            \/ k \in D!Clean /\ k \in DOMAIN before \cup adopted
           /\ \A k \in now : batch[k] = docs[k].text
<1>1. now \subseteq DOMAIN docs /\ D!Clean \subseteq DOMAIN docs
  BY DEF D!DirtyDocs, D!Clean
<1>2. DOMAIN docs \subseteq Keys /\ DOMAIN before \subseteq Keys
  BY MapIs DEF DocInv, DocTypes
<1>3. /\ \A k : k \in DOMAIN batch <=> \/ k \in now \/ k \in DOMAIN before \ DOMAIN docs
                                       \/ k \in D!Clean /\ k \in DOMAIN before \cup adopted
      /\ \A k \in DOMAIN batch : batch[k] = IF k \in now THEN docs[k].text ELSE D!Gone
      /\ batch = [k \in DOMAIN batch |-> IF k \in now THEN docs[k].text ELSE D!Gone]
  BY DEF D!Batch, D!NotOpen
<1>4. \A k \in now : docs[k].text \in Held
  <2> SUFFICES ASSUME NEW k \in now PROVE docs[k].text \in Held
    OBVIOUS
  <2>1. docs[k] \in Document
    BY <1>1, KnownDoc
  <2> QED BY <2>1, FieldsOf, MarksAre
<1>5. batch \in [DOMAIN batch -> Held]
  <2>1. \A k \in DOMAIN batch : (IF k \in now THEN docs[k].text ELSE D!Gone) \in Held
    BY <1>4, MarksAre
  <2> QED BY <1>3, <2>1
<1>6. DOMAIN batch \subseteq Keys
  BY <1>1, <1>2, <1>3
<1>7. batch \in Maps(Held)
  BY <1>5, <1>6, MapIs
<1> QED BY <1>3, <1>7

LEMMA TickIs ==
    ASSUME DocInv, NEW before, NEW now, NEW batch, Ticking(before, now, batch)
    PROVE  /\ written' \in Maps(Nat)
           /\ DocsTrue' /\ SentAreOpen' /\ OthersGone'
           /\ DOMAIN written' \subseteq D!DirtyDocs
<1>1. /\ phase # "quit" /\ phase' \in {"ui", "quit"} /\ now \subseteq D!DirtyDocs
      /\ before = written \/ (before = <<>> /\ histories' = FALSE)
      /\ histories' = TRUE => histories = TRUE
      /\ batch = D!Batch(before, now) /\ D!Tick(before, now)
      /\ \A k : Leaves(k)' = IF k \in DOMAIN batch THEN batch[k] ELSE Leaves(k)
      /\ UNCHANGED <<disk, told, docs, recovered, fresh, raced, kept>>
  BY DEF Ticking
<1>2. written \in Maps(Nat) /\ before \in Maps(Nat) /\ DOMAIN docs \subseteq Keys
  BY <1>1, NoMap, MapIs DEF DocInv, DocTypes
<1>3. /\ \A k : k \in DOMAIN batch <=> \/ k \in now \/ k \in DOMAIN before \ DOMAIN docs
                                       \/ k \in D!Clean /\ k \in DOMAIN before \cup adopted
      /\ \A k \in now : batch[k] = docs[k].text
  BY <1>1, <1>2, BatchIs
<1>4. /\ \A k : k \in D!DirtyDocs <=> k \in DOMAIN docs /\ k \notin D!Clean
      /\ D!Clean \subseteq DOMAIN docs
  BY DEF D!DirtyDocs, D!Clean
<1>5. /\ \A k : k \in DOMAIN written' <=> k \in now \/ (k \in DOMAIN before /\ k \in D!DirtyDocs)
      /\ \A k \in now : written'[k] = D!Version(k)
      /\ \A k \in DOMAIN written' \ now : written'[k] = before[k]
      /\ written' = [k \in DOMAIN written' |-> IF k \in now THEN D!Version(k) ELSE before[k]]
      /\ adopted' = adopted \ (D!Clean \cup now) /\ mistaken' = mistaken \ (D!Clean \cup now)
  BY <1>1, <1>4 DEF D!Tick, D!NotOpen
<1>6. DOMAIN written' \subseteq D!DirtyDocs /\ D!DirtyDocs \subseteq DOMAIN docs
  BY <1>1, <1>4, <1>5
<1>7. written' \in Maps(Nat)
  <2>1. ASSUME NEW k \in DOMAIN written'
        PROVE  (IF k \in now THEN D!Version(k) ELSE before[k]) \in Nat
    <3>1. CASE k \in now
      <4>1. k \in DOMAIN docs /\ docs[k] \in Document
        BY <1>6, KnownDoc
      <4> QED BY <3>1, <4>1, VersionIs
    <3>2. CASE k \notin now
      <4>1. k \in DOMAIN before
        BY <1>5, <3>2
      <4> QED BY <1>2, <3>2, <4>1, ValueIs
    <3> QED BY <3>1, <3>2
  <2>2. written' \in [DOMAIN written' -> Nat]
    BY <1>5, <2>1
  <2> QED BY <1>2, <1>6, <2>2, MapIs
<1>8. DocsTrue'
  <2> SUFFICES ASSUME NEW k \in DOMAIN docs PROVE TrueOf(k)'
    BY <1>1 DEF DocsTrue
  <2>1. docs[k] \in Document /\ TrueOf(k) /\ docs[k].version \in Nat
    BY KnownDoc, FieldsOf
  <2>2. k \in Files \ raced' => TrueOfDisk(docs'[k], k, disk'[k], told', kept')
    BY <1>1, <2>1 DEF TrueOf
  <2>3. k \in DOMAIN written' \ mistaken' => TrueOfSent(docs'[k], written'[k], Leaves(k)', phase')
    <3> SUFFICES ASSUME k \in DOMAIN written', k \notin mistaken'
                 PROVE  TrueOfSent(docs[k], written'[k], Leaves(k)', phase')
      BY <1>1
    <3>1. CASE k \in now
      <4>1. written'[k] = D!Version(k) /\ Leaves(k)' = docs[k].text
        BY <1>1, <1>3, <1>5, <3>1
      <4>2. /\ docs[k].disk = "deleted" => written'[k] = docs[k].version + 1
            /\ docs[k].disk # "deleted" => written'[k] = docs[k].version
        BY <2>1, <4>1, VersionIs
      <4> QED BY <2>1, <4>1, <4>2 DEF TrueOfSent
    <3>2. CASE k \notin now
      <4>1. k \in DOMAIN before /\ k \in D!DirtyDocs /\ before = written /\ k \notin mistaken
        <5>1. k \in DOMAIN before /\ k \in D!DirtyDocs
          BY <1>5, <3>2
        <5>2. before # <<>>
          BY <5>1, NoMap
        <5>3. k \notin D!Clean
          BY <1>4, <5>1
        <5> QED BY <1>1, <1>5, <3>2, <5>1, <5>2, <5>3
      <4>2. written'[k] = written[k] /\ Leaves(k)' = Leaves(k)
        BY <1>1, <1>3, <1>4, <1>5, <3>2, <4>1
      <4>3. TrueOfSent(docs[k], written[k], Leaves(k), phase)
        BY <4>1, SentOf
      <4>4. docs[k].text # docs[k].saved \/ docs[k].disk = "deleted"
        BY <4>1 DEF D!DirtyDocs, D!IsDirty, D!Unsaved
      <4> QED BY <2>1, <4>2, <4>3, <4>4 DEF TrueOfSent
    <3> QED BY <3>1, <3>2
  <2> QED BY <2>2, <2>3 DEF TrueOf
<1>9. SentAreOpen'
  BY <1>1, <1>6 DEF SentAreOpen
<1>10. OthersGone'
  <2> SUFFICES ASSUME histories' = TRUE, NEW k \in Keys, k \notin DOMAIN written', k \notin adopted'
               PROVE  Leaves(k)' = D!Gone
    BY DEF OthersGone
  <2>1. before = written /\ histories = TRUE /\ k \notin now
    BY <1>1, <1>5
  <2>2. CASE k \in DOMAIN batch
    <3>1. batch[k] = D!Gone
      BY <1>1, <2>1, <2>2 DEF D!Batch
    <3> QED BY <1>1, <2>2, <3>1
  <2>3. CASE k \notin DOMAIN batch
    <3>1. k \notin DOMAIN written /\ k \notin adopted
      BY <1>3, <1>4, <1>5, <2>1, <2>3
    <3> QED BY <1>1, <2>1, <2>3, <3>1 DEF DocInv, OthersGone
  <2> QED BY <2>2, <2>3
<1> QED BY <1>6, <1>7, <1>8, <1>9, <1>10

LEMMA TickDoc == ASSUME DocInv, NEW drop \in BOOLEAN, D!TickRecovery(drop) PROVE DocInv'
<1>1. PICK settled \in SUBSET D!DirtyDocs :
         LET before == IF drop THEN <<>> ELSE written
             now == D!Due(before, settled)
             batch == D!Batch(before, now)
         IN  /\ D!Tick(before, now)
             /\ IF DOMAIN batch = {} THEN UNCHANGED jobs ELSE jobs' = Append(jobs, batch)
  BY DEF D!TickRecovery
<1>2. /\ phase = "logic" /\ phase' = "ui" /\ histories' = (histories /\ ~drop)
      /\ UNCHANGED <<disk, told, docs, saves, recovered, fresh, raced, kept>>
  BY DEF D!TickRecovery
<1>3. PICK before : before = IF drop THEN <<>> ELSE written
  OBVIOUS
<1>4. PICK now : now = D!Due(before, settled)
  OBVIOUS
<1>5. PICK batch : batch = D!Batch(before, now)
  OBVIOUS
<1>6. /\ D!Tick(before, now)
      /\ IF DOMAIN batch = {} THEN jobs' = jobs ELSE jobs' = Append(jobs, batch)
  BY <1>1, <1>3, <1>4, <1>5
<1>7. now \subseteq D!DirtyDocs
  BY <1>4 DEF D!Due
<1>8. /\ jobs \in Seq(Maps(Held)) /\ histories \in BOOLEAN /\ before \in Maps(Nat)
  BY <1>3, NoMap DEF DocInv, DocTypes
<1>9. batch \in Maps(Held)
  BY <1>5, <1>7, <1>8, BatchIs
<1>10. jobs' \in Seq(Maps(Held))
  BY <1>6, <1>8, <1>9
<1>11. \A k : Leaves(k)' = IF k \in DOMAIN batch THEN batch[k] ELSE Leaves(k)
  <2>1. CASE DOMAIN batch = {}
    BY <1>2, <1>6, <2>1 DEF Leaves
  <2>2. CASE DOMAIN batch # {}
    <3>1. jobs \in Seq(Maps(Held))
      BY <1>8
    <3>2. \A k : D!Left(saves, Append(jobs, batch), k) =
                   IF k \in DOMAIN batch THEN batch[k] ELSE D!Left(saves, jobs, k)
      BY <1>9, <3>1, LeftAppended
    <3> QED BY <1>2, <1>6, <2>2, <3>2 DEF Leaves
  <2> QED BY <2>1, <2>2
<1>12. /\ before = written \/ (before = <<>> /\ histories' = FALSE)
       /\ histories' = TRUE => histories = TRUE
       /\ histories' \in BOOLEAN
  BY <1>2, <1>3, <1>8
<1>13. Ticking(before, now, batch)
  BY <1>2, <1>5, <1>6, <1>7, <1>11, <1>12 DEF Ticking
<1>14. written' \in Maps(Nat) /\ DocsTrue' /\ SentAreOpen' /\ OthersGone'
  BY <1>13, TickIs
<1>15. DocTypes'
  BY <1>2, <1>10, <1>12, <1>14 DEF DocInv, DocTypes
<1>16. QuitKept'
  BY <1>2 DEF QuitKept
<1> QED BY <1>14, <1>15, <1>16 DEF DocInv

(* The last tick flushes every document, and its batch is done with the others. *)
LEMMA QuitDoc == ASSUME DocInv, D!Quit PROVE DocInv'
<1>1. PICK now : now = D!Due(written, D!DirtyDocs)
  OBVIOUS
<1>2. PICK batch : batch = D!Batch(written, now)
  OBVIOUS
<1>3. /\ phase = "ui" /\ phase' = "quit" /\ jobs' = <<>>
      /\ D!Tick(written, now) /\ saves' = D!AllDone(saves, Append(jobs, batch))
      /\ UNCHANGED <<disk, told, docs, recovered, histories, fresh, raced, kept>>
  BY <1>1, <1>2 DEF D!Quit
<1>4. /\ jobs \in Seq(Maps(Held)) /\ saves \in Maps(Nat) /\ written \in Maps(Nat)
  BY DEF DocInv, DocTypes
<1>5. now \subseteq D!DirtyDocs
  BY <1>1 DEF D!Due
<1>6. /\ batch \in Maps(Held)
      /\ \A k : k \in DOMAIN batch <=> \/ k \in now \/ k \in DOMAIN written \ DOMAIN docs
                                       \/ k \in D!Clean /\ k \in DOMAIN written \cup adopted
      /\ \A k \in now : batch[k] = docs[k].text
  BY <1>2, <1>4, <1>5, BatchIs
<1>7. PICK js : js = Append(jobs, batch)
  OBVIOUS
<1>8. js \in Seq(Maps(Held))
  BY <1>4, <1>6, <1>7
<1>9. /\ saves' \in Maps(Nat)
      /\ \A k : D!Left(saves', <<>>, k) = D!Left(saves, js, k)
  <2>1. saves' = D!AllDone(saves, js)
    BY <1>3, <1>7
  <2> QED BY <1>4, <1>8, <2>1, AllDoneIs
<1>10. \A k : Leaves(k)' = IF k \in DOMAIN batch THEN batch[k] ELSE Leaves(k)
  <2>1. \A k : D!Left(saves, js, k) = IF k \in DOMAIN batch THEN batch[k] ELSE D!Left(saves, jobs, k)
    BY <1>4, <1>6, <1>7, LeftAppended
  <2> QED BY <1>3, <1>9, <2>1 DEF Leaves
<1>11. Ticking(written, now, batch)
  BY <1>2, <1>3, <1>5, <1>10 DEF Ticking
<1>12. /\ written' \in Maps(Nat) /\ DocsTrue' /\ SentAreOpen' /\ OthersGone'
       /\ DOMAIN written' \subseteq D!DirtyDocs
  BY <1>11, TickIs
<1>13. DocTypes'
  BY <1>3, <1>9, <1>12 DEF DocInv, DocTypes
<1>14. \A k : Leaves(k)' = IF k \in DOMAIN saves' THEN saves'[k] ELSE D!Gone
  BY <1>3, LeftOfNone DEF Leaves
<1>15. \A k \in DOMAIN saves' : saves'[k] # D!Gone /\ k \in Keys
  BY <1>9, ValueIs, MarksAre
<1>16. mistaken' = mistaken \ (D!Clean \cup now) /\ adopted' = adopted \ (D!Clean \cup now)
  BY <1>3 DEF D!Tick
<1>17. /\ \A k : k \in D!DirtyDocs <=> k \in DOMAIN docs /\ k \notin D!Clean
       /\ (D!DirtyDocs)' = D!DirtyDocs
  BY <1>3 DEF D!DirtyDocs, D!Clean
<1>18. ASSUME NEW k \in D!DirtyDocs, k \notin mistaken'
       PROVE  k \in DOMAIN saves' /\ saves'[k] = docs[k].text
  <2>0. k \in DOMAIN docs /\ docs[k] \in Document /\ docs[k].version \in Nat /\ docs[k].text \in Nat
    BY <1>17, KnownDoc, FieldsOf
  <2>1. Leaves(k)' = docs[k].text
    <3>1. CASE k \in now
      <4>1. k \in DOMAIN batch /\ batch[k] = docs[k].text
        BY <1>6, <3>1
      <4> QED BY <1>10, <4>1
    <3>2. CASE k \notin now
      <4>1. k \in DOMAIN written /\ written[k] = D!Version(k)
        BY <1>1, <3>2 DEF D!Due
      <4>2. k \notin mistaken /\ k \notin DOMAIN batch
        BY <1>6, <1>16, <1>17, <1>18, <2>0, <3>2
      <4>3. TrueOfSent(docs[k], written[k], Leaves(k), phase)
        BY <2>0, <4>1, <4>2, SentOf
      <4>4. docs[k].text # docs[k].saved \/ docs[k].disk = "deleted"
        BY DEF D!DirtyDocs, D!IsDirty, D!Unsaved
      <4>5. /\ docs[k].disk = "deleted" => written[k] = docs[k].version + 1
            /\ docs[k].disk # "deleted" => written[k] = docs[k].version
        BY <2>0, <4>1, VersionIs
      <4>6. Leaves(k) = docs[k].text
        BY <2>0, <4>3, <4>4, <4>5 DEF TrueOfSent
      <4> QED BY <1>10, <4>2, <4>6
    <3> QED BY <3>1, <3>2
  <2> QED BY <1>14, <2>0, <2>1, MarksAre
<1>19. histories' = TRUE => DOMAIN saves' \subseteq D!DirtyDocs \cup (adopted' \ DOMAIN docs)
  <2> SUFFICES ASSUME histories' = TRUE, NEW k \in DOMAIN saves'
               PROVE  k \in D!DirtyDocs \cup (adopted' \ DOMAIN docs)
    OBVIOUS
  <2>1. Leaves(k)' # D!Gone /\ k \in Keys
    BY <1>14, <1>15
  <2>2. k \in DOMAIN written' \/ k \in adopted'
    BY <1>12, <2>1 DEF OthersGone
  <2> QED BY <1>12, <1>16, <1>17, <2>2
<1>20. QuitKept'
  <2>1. D!UnsavedComesBackElse'
    BY <1>3, <1>17, <1>18 DEF D!UnsavedComesBackElse
  <2>2. histories' \in BOOLEAN
    BY <1>13 DEF DocTypes
  <2>3. D!NoGhosts'
    BY <1>3, <1>17, <1>19, <2>2 DEF D!NoGhosts
  <2> QED BY <2>1, <2>3 DEF QuitKept
<1> QED BY <1>12, <1>13, <1>20 DEF DocInv

LEMMA RestartDoc == ASSUME DocInv, D!Launch \/ D!Crash PROVE DocInv'
<1>1. /\ phase' = "ui" /\ docs' = <<>> /\ told' = TRUE /\ jobs' = <<>> /\ written' = <<>>
      /\ saves' = D!Without(saves, DOMAIN saves \ D!ShownKeys)
      /\ recovered' = saves' /\ adopted' = DOMAIN saves'
      /\ UNCHANGED <<disk, histories, fresh>>
  BY DEF D!Launch, D!Crash, D!Restart
<1>2. saves' \in Maps(Nat)
  BY <1>1, WithoutIs DEF DocInv, DocTypes
<1>3. docs' \in Maps(Document) /\ written' \in Maps(Nat) /\ DOMAIN docs' = {} /\ DOMAIN written' = {}
  BY <1>1, NoMap
<1>4. DocTypes'
  BY <1>1, <1>2, <1>3 DEF DocInv, DocTypes
<1>5. \A k : Leaves(k)' = IF k \in DOMAIN saves' THEN saves'[k] ELSE D!Gone
  BY <1>1, LeftOfNone DEF Leaves
<1> QED BY <1>1, <1>3, <1>4, <1>5 DEF DocInv, DocsTrue, SentAreOpen, OthersGone, QuitKept

-----------------------------------------------------------------------------
(* Every step *)

LEMMA NextDoc == ASSUME DocInv, D!Next PROVE DocInv'
<1>1. CASE \E p \in Panels :
             \/ D!DrawUntitled(p) \/ D!DrawFile(p) \/ D!NewEditor(p) \/ D!Edit(p) \/ D!UndoEdits(p)
             \/ D!Save(p) \/ D!Reload(p) \/ D!KeepMine(p) \/ D!ClosePanel(p) \/ D!ClosePanelAnyway(p)
             \/ \E f \in Files : D!OpenHere(p, f) \/ D!SaveAs(p, f)
  BY <1>1, DrawUntitledDoc, DrawFileDoc, PanelsDoc, EditDoc, SaveDoc, AnswerDoc, CloseDoc
<1>2. CASE \E f \in Files :
             \/ D!OpenInEditor(f) \/ D!AutoSave(f) \/ D!OutsideWrite(f) \/ D!OutsideDelete(f)
             \/ D!Trash(f) \/ \E g \in Files : D!Rename(f, g)
  BY <1>2, PanelsDoc, SaveDoc, OutsideDoc, TrashDoc, RenameDoc
<1>3. CASE \E tab \in SUBSET Panels : tab # {} /\ D!CloseTab(tab)
  BY <1>3, CloseDoc
<1>4. CASE D!Watch \/ D!Writer \/ D!Idle
  BY <1>4, WatchDoc, WriterDoc, PanelsDoc
<1>5. CASE \E drop \in BOOLEAN : D!TickRecovery(drop)
  BY <1>5, TickDoc
<1>6. CASE D!Quit \/ D!Crash \/ D!Launch
  BY <1>6, QuitDoc, RestartDoc
<1> QED BY <1>1, <1>2, <1>3, <1>4, <1>5, <1>6 DEF D!Next

LEMMA StillDoc == ASSUME DocInv, UNCHANGED DVars PROVE DocInv'
<1>1. UNCHANGED <<disk, told, docs, panels, saves, jobs, written, adopted, recovered, histories,
                  phase, fresh, raced, kept, mistaken>>
  BY DEF DVars
<1>2. \A k : Leaves(k)' = Leaves(k)
  BY <1>1 DEF Leaves
<1>3. DocTypes'
  BY <1>1 DEF DocInv, DocTypes
<1>4. DocsTrue'
  <2> SUFFICES ASSUME NEW k \in DOMAIN docs PROVE TrueOf(k)'
    BY <1>1 DEF DocsTrue
  <2>1. TrueOf(k) /\ Leaves(k)' = Leaves(k)
    BY <1>2 DEF DocInv, DocsTrue
  <2> QED BY <1>1, <2>1 DEF TrueOf
<1>5. SentAreOpen' /\ OthersGone'
  BY <1>1, <1>2 DEF DocInv, SentAreOpen, OthersGone
<1>6. QuitKept'
  BY <1>1 DEF DocInv, QuitKept, D!UnsavedComesBackElse, D!NoGhosts, D!DirtyDocs
<1> QED BY <1>3, <1>4, <1>5, <1>6 DEF DocInv

LEMMA AlwaysDoc == Spec => [](part = "documents" => DocInv)
<1>1. Init => (part = "documents" => DocInv)
  BY InitDoc DEF Init
<1>2. (part = "documents" => DocInv) /\ [Next]_vars => (part = "documents" => DocInv)'
  BY NextDoc, StillDoc DEF Next, vars
<1> QED BY <1>1, <1>2, PTL DEF Spec

(* What a document says of its file is so, whoever writes, moves, deletes or brings
   back the file and in whatever order the program hears of it (editor.rs check_disk,
   save_to, moved_to, mark_deleted, reload, keep_mine). *)
THEOREM DiskStatesAreTrue == Spec => []DiskStateTrue
<1>1. (part = "documents" => DocInv) => DiskStateTrue
  <2> SUFFICES ASSUME DocInv PROVE D!DiskStateTrue
    BY DEF DiskStateTrue
  <2>1. \A f \in (DOMAIN docs \cap Files) \ raced : TrueOfDisk(docs[f], f, disk[f], told, kept)
    BY DiskOf
  <2>2. told \in BOOLEAN
    BY DEF DocInv, DocTypes
  <2> QED BY <2>1, <2>2 DEF D!DiskStateTrue, TrueOfDisk
<1> QED BY <1>1, AlwaysDoc, PTL

(* After quitting, the unsaved text of every document is on disk as it is on screen
   but where its number may be another's, and nothing the user was done with is left
   there: whatever was edited, saved, closed, moved and sent before, whatever the
   recovery thread had still to write, and after any crash (recovery.rs tick, flush,
   writer, adopt; app.rs finish_close, start_recovery). *)
THEOREM RecoveryIsExact == Spec => []RecoveryExact
<1>1. (part = "documents" => DocInv) => RecoveryExact
  <2> SUFFICES ASSUME DocInv PROVE D!UnsavedComesBackElse /\ D!NoGhosts
    BY DEF RecoveryExact
  <2>1. phase # "quit" => D!UnsavedComesBackElse /\ D!NoGhosts
    BY DEF D!UnsavedComesBackElse, D!NoGhosts
  <2> QED BY <2>1 DEF DocInv, QuitKept
<1> QED BY <1>1, AlwaysDoc, PTL
=============================================================================
