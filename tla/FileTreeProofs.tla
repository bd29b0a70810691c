--------------------------- MODULE FileTreeProofs ---------------------------
(***************************************************************************)
(* What is proved of the file tree, among the workbench's components: that *)
(* it shows the disk and follows what it moves, for any names, items,      *)
(* changes of other programs and actions of the user.                      *)
(***************************************************************************)
EXTENDS WorkbenchParts, SequenceTheorems, FiniteSetTheorems, TLAPS

Names == FolderNames \cup FileNames

(* Paths, as sequences of one or two names. *)
LEMMA SamePath ==
    ASSUME NEW p \in Seq(Names), NEW q \in Seq(Names), Len(p) = Len(q),
           \A i \in 1 .. Len(p) : p[i] = q[i]
    PROVE  p = q
OBVIOUS

LEMMA FolderShapes ==
    ASSUME NEW p
    PROVE  p \in T!Folders <=> /\ p \in Seq(Names)
                               /\ Len(p) = 0 \/ (Len(p) = 1 /\ p[1] \in FolderNames)
<1>1. ASSUME p \in T!Folders PROVE p \in Seq(Names) /\ (Len(p) = 0 \/ (Len(p) = 1 /\ p[1] \in FolderNames))
  <2>1. p = <<>> \/ \E n \in FolderNames : p = <<n>>
    BY <1>1 DEF T!Folders, T!Root
  <2>2. CASE p = <<>>
    BY <2>2
  <2>3. ASSUME NEW n \in FolderNames, p = <<n>> PROVE p \in Seq(Names) /\ Len(p) = 1 /\ p[1] \in FolderNames
    <3>1. n \in Names
      BY DEF Names
    <3> QED BY <3>1, <2>3
  <2> QED BY <2>1, <2>2, <2>3
<1>2. ASSUME p \in Seq(Names), Len(p) = 0 PROVE p \in T!Folders
  <2>1. p = <<>>
    BY <1>2
  <2> QED BY <2>1 DEF T!Folders, T!Root
<1>3. ASSUME p \in Seq(Names), Len(p) = 1, p[1] \in FolderNames PROVE p \in T!Folders
  <2>1. p = <<p[1]>>
    BY <1>3
  <2> QED BY <2>1, <1>3 DEF T!Folders
<1> QED BY <1>1, <1>2, <1>3

LEMMA PathShapes ==
    ASSUME NEW p
    PROVE  p \in T!Paths <=> /\ p \in Seq(Names)
                             /\ \/ Len(p) = 0 
                                \/ Len(p) = 1
                                \/ Len(p) = 2 /\ p[1] \in FolderNames /\ p[2] \in FileNames
<1>1. ASSUME NEW d \in T!Folders, NEW n \in FileNames
      PROVE  /\ Append(d, n) \in Seq(Names) /\ Len(Append(d, n)) \in {1, 2}
             /\ Len(Append(d, n)) = 2 => Append(d, n)[1] \in FolderNames /\ Append(d, n)[2] \in FileNames
  <2>1. /\ d \in Seq(Names) /\ n \in Names
        /\ Len(d) = 0 \/ (Len(d) = 1 /\ d[1] \in FolderNames)
    BY <1>1, FolderShapes DEF Names
  <2>2. /\ Append(d, n) \in Seq(Names) /\ Len(Append(d, n)) = Len(d) + 1
        /\ Append(d, n)[Len(d) + 1] = n
        /\ Len(d) = 1 => Append(d, n)[1] = d[1]
    BY <2>1
  <2> DEFINE e == Append(d, n)
  <2>3. e \in Seq(Names) /\ Len(e) = Len(d) + 1 /\ e[Len(d) + 1] = n /\ (Len(d) = 1 => e[1] = d[1])
    BY <2>2
  <2> HIDE DEF e
  <2>4. Len(d) = 0 => Len(e) = 1
    BY <2>3
  <2>5. Len(d) = 1 => Len(e) = 2 /\ e[1] = d[1] /\ e[2] = n
    BY <2>3
  <2>6. e \in Seq(Names) /\ Len(e) \in {1, 2}
    BY <2>1, <2>3, <2>4, <2>5
  <2>7. Len(e) = 2 => e[1] \in FolderNames /\ e[2] \in FileNames
    BY <2>1, <2>4, <2>5
  <2> QED BY <2>6, <2>7 DEF e
<1>2. p \in T!Paths <=> p \in T!Folders \/ \E d \in T!Folders, n \in FileNames : p = Append(d, n)
  BY DEF T!Paths
<1>3. ASSUME p \in Seq(Names), Len(p) = 1, p[1] \notin FolderNames PROVE p \in T!Paths
  <2>1. <<>> \in T!Folders /\ <<>> \in Seq(Names) /\ Len(<<>>) = 0
    BY DEF T!Folders, T!Root
  <2>2. p[1] \in FileNames
    BY <1>3 DEF Names
  <2>3. p = Append(<<>>, p[1])
    BY <2>1, <1>3
  <2> QED BY <2>1, <2>2, <2>3, <1>2
<1>4. ASSUME p \in Seq(Names), Len(p) = 2, p[1] \in FolderNames, p[2] \in FileNames PROVE p \in T!Paths
  <2> DEFINE d == SubSeq(p, 1, 1)
  <2>1. d \in Seq(Names) /\ Len(d) = 1 /\ d[1] = p[1]
    BY <1>4
  <2>2. d \in T!Folders
    BY <2>1, <1>4, FolderShapes
  <2>3. p = Append(d, p[2])
    BY <2>1, <1>4
  <2> QED BY <2>2, <2>3, <1>2, <1>4
<1>5. p \in T!Folders => p \in Seq(Names) /\ (Len(p) = 0 \/ Len(p) = 1)
  BY FolderShapes
<1>6. p \in Seq(Names) /\ (Len(p) = 0 \/ (Len(p) = 1 /\ p[1] \in FolderNames)) => p \in T!Paths
  BY FolderShapes, <1>2
<1> QED BY <1>1, <1>2, <1>3, <1>4, <1>5, <1>6

LEMMA ParentOf ==
    ASSUME NEW p \in T!Paths \ {T!Root}
    PROVE  /\ T!Parent(p) \in T!Folders /\ T!Parent(p) # p
           /\ Append(T!Parent(p), T!Last(p)) = p
           /\ p \in T!Folders => T!Parent(p) = T!Root
           /\ T!Parent(p) \in Seq(Names) /\ Len(T!Parent(p)) = Len(p) - 1
           /\ Len(p) = 2 => T!Parent(p)[1] = p[1]
<1> DEFINE f == T!Parent(p)
<1>1. /\ p \in Seq(Names) /\ Len(p) \in {1, 2}
      /\ Len(p) = 2 => p[1] \in FolderNames
      /\ p \in T!Folders <=> (Len(p) = 1 /\ p[1] \in FolderNames)
  <2>1. p \in Seq(Names) /\ (Len(p) = 0 => p = <<>>)
    BY PathShapes
  <2>2. Len(p) # 0
    BY <2>1 DEF T!Root
  <2>3. p \in T!Folders <=> (p \in Seq(Names) /\ (Len(p) = 0 \/ (Len(p) = 1 /\ p[1] \in FolderNames)))
    BY FolderShapes
  <2>4. Len(p) = 0 \/ Len(p) = 1 \/ (Len(p) = 2 /\ p[1] \in FolderNames)
    BY PathShapes
  <2> QED BY <2>1, <2>2, <2>3, <2>4
<1>2. /\ f \in Seq(Names) /\ Len(f) = Len(p) - 1
      /\ Len(p) = 2 => f[1] = p[1]
  BY <1>1 DEF T!Parent, T!Front
<1>3. Append(f, T!Last(p)) = p
  <2>1. T!Last(p) = p[Len(p)] /\ T!Last(p) \in Names
    BY <1>1 DEF T!Last
  <2>2. Append(f, T!Last(p)) \in Seq(Names) /\ Len(Append(f, T!Last(p))) = Len(p)
    BY <1>1, <1>2, <2>1
  <2>3. \A i \in 1 .. Len(p) : Append(f, T!Last(p))[i] = p[i]
    BY <1>1, <1>2, <2>1
  <2> QED BY <1>1, <2>2, <2>3, SamePath
<1> HIDE DEF f
<1>4. Len(f) \in {0, 1} /\ (Len(f) = 1 => f[1] \in FolderNames)
  BY <1>1, <1>2
<1>5. f \in T!Folders
  BY <1>2, <1>4, FolderShapes
<1>6. f # p
  BY <1>1, <1>2
<1>7. p \in T!Folders => f = T!Root
  BY <1>1, <1>2 DEF T!Root
<1> QED BY <1>1, <1>2, <1>3, <1>5, <1>6, <1>7 DEF f

LEMMA Kin ==
    ASSUME NEW p \in T!Paths \ {T!Root}, NEW q \in T!Paths
    PROVE  T!IsPrefix(p, q) <=> (q = p \/ (q # T!Root /\ T!Parent(q) = p))
<1>1. /\ p \in Seq(Names) /\ q \in Seq(Names) /\ Len(p) \in {1, 2} /\ Len(q) \in {0, 1, 2}
      /\ q = T!Root <=> Len(q) = 0
  <2>1. /\ p \in Seq(Names) /\ (Len(p) = 0 => p = <<>>)
        /\ q \in Seq(Names) /\ (Len(q) = 0 => q = <<>>)
    BY PathShapes
  <2>2. Len(p) # 0 /\ (q = T!Root <=> Len(q) = 0)
    BY <2>1 DEF T!Root
  <2> QED BY <2>1, <2>2, PathShapes
<1>2. T!IsPrefix(p, q) <=> (Len(p) <= Len(q) /\ \A i \in 1 .. Len(p) : p[i] = q[i])
  <2>1. ASSUME Len(p) <= Len(q)
        PROVE  /\ SubSeq(p, 1, Len(p)) \in Seq(Names) /\ Len(SubSeq(p, 1, Len(p))) = Len(p)
               /\ SubSeq(q, 1, Len(p)) \in Seq(Names) /\ Len(SubSeq(q, 1, Len(p))) = Len(p)
               /\ \A i \in 1 .. Len(p) : SubSeq(p, 1, Len(p))[i] = p[i] /\ SubSeq(q, 1, Len(p))[i] = q[i]
    BY <1>1, <2>1
  <2>2. ASSUME Len(p) <= Len(q), \A i \in 1 .. Len(p) : p[i] = q[i]
        PROVE  SubSeq(p, 1, Len(p)) = SubSeq(q, 1, Len(p))
    <3>1. \A i \in 1 .. Len(p) : SubSeq(p, 1, Len(p))[i] = SubSeq(q, 1, Len(p))[i]
      BY <2>1, <2>2
    <3> QED BY <2>1, <2>2, <3>1, SamePath
  <2> QED BY <2>1, <2>2 DEF T!IsPrefix
<1>3. ASSUME q # T!Root
      PROVE  /\ T!Parent(q) \in Seq(Names) /\ Len(T!Parent(q)) = Len(q) - 1
             /\ Len(q) = 2 => T!Parent(q)[1] = q[1]
  BY <1>3, ParentOf
<1>4. ASSUME q # T!Root, Len(p) = 1, Len(q) = 2, p[1] = q[1] PROVE T!Parent(q) = p
  <2>1. Len(T!Parent(q)) = Len(p) /\ \A i \in 1 .. Len(p) : T!Parent(q)[i] = p[i]
    BY <1>3, <1>4
  <2> QED BY <1>1, <1>3, <1>4, <2>1, SamePath
<1>5. ASSUME Len(p) = Len(q), \A i \in 1 .. Len(p) : p[i] = q[i] PROVE q = p
  BY <1>1, <1>5, SamePath
<1>6. ASSUME q # T!Root, T!Parent(q) = p PROVE Len(p) = 1 /\ Len(q) = 2 /\ p[1] = q[1]
  BY <1>1, <1>3, <1>6
<1>7. ASSUME T!IsPrefix(p, q) PROVE q = p \/ (q # T!Root /\ T!Parent(q) = p)
  <2>1. Len(p) <= Len(q) /\ (\A i \in 1 .. Len(p) : p[i] = q[i]) /\ Len(q) # 0
    BY <1>1, <1>2, <1>7
  <2>2. CASE Len(p) = Len(q)
    BY <1>5, <2>1, <2>2
  <2>3. CASE Len(p) # Len(q)
    <3>1. Len(p) = 1 /\ Len(q) = 2
      BY <1>1, <2>1, <2>3
    <3> QED BY <1>1, <1>4, <2>1, <3>1
  <2> QED BY <2>2, <2>3
<1>8. ASSUME q = p \/ (q # T!Root /\ T!Parent(q) = p) PROVE T!IsPrefix(p, q)
  <2>1. Len(p) <= Len(q) /\ \A i \in 1 .. Len(p) : p[i] = q[i]
    BY <1>1, <1>6, <1>8
  <2> QED BY <1>2, <2>1
<1> QED BY <1>7, <1>8

LEMMA Joined ==
    ASSUME NEW s \in Seq(Names), NEW t \in Seq(Names), Len(s) = 1, Len(t) = 1
    PROVE  s \o t \in Seq(Names) /\ Len(s \o t) = 2 /\ (s \o t)[1] = s[1] /\ (s \o t)[2] = t[1]
<1>1. s \o t \in Seq(Names) /\ Len(s \o t) = Len(s) + Len(t)
  OBVIOUS
<1>3. (s \o t)[1] = s[1]
  OBVIOUS
<1>4. (s \o t)[2] = t[1]
  <2>1. \A i \in 1 .. Len(s) + Len(t) : (s \o t)[i] = IF i <= Len(s) THEN s[i] ELSE t[i - Len(s)]
    BY ConcatProperties
  <2> QED BY <2>1
<1> QED BY <1>1, <1>3, <1>4

LEMMA LongPath ==
    ASSUME NEW r \in Seq(Names), Len(r) = 2, NEW to \in Seq(Names), Len(to) = 1, r[1] = to[1],
           to[1] \in FolderNames, r[2] \in FileNames
    PROVE  r \in T!Paths \ {T!Root} /\ T!Parent(r) = to
<1>1. r \in T!Paths
  BY PathShapes
<1>2. r # T!Root
  <2>1. Len(T!Root) = 0
    BY DEF T!Root
  <2> QED BY <2>1
<1>3. T!Parent(r) \in Seq(Names) /\ Len(T!Parent(r)) = 1 /\ T!Parent(r)[1] = r[1]
  <2>1. r \in T!Paths \ {T!Root}
    BY <1>1, <1>2
  <2>2. /\ T!Parent(r) \in Seq(Names) /\ Len(T!Parent(r)) = Len(r) - 1
        /\ Len(r) = 2 => T!Parent(r)[1] = r[1]
    BY <2>1, ParentOf
  <2> QED BY <2>2
<1>4. T!Parent(r) = to
  <2>1. \A i \in 1 .. Len(to) : T!Parent(r)[i] = to[i]
    BY <1>3
  <2> QED BY <1>3, <2>1, SamePath
<1> QED BY <1>1, <1>2, <1>4

LEMMA Rebase ==
    ASSUME NEW from \in T!Paths \ {T!Root}, NEW to \in T!Paths \ {T!Root}, from \in T!Folders <=> to \in T!Folders,
           NEW q \in T!Paths
    PROVE  /\ q = from => T!Rebased(q, from, to) = to
           /\ (q # from /\ (q = T!Root \/ T!Parent(q) # from)) => T!Rebased(q, from, to) = q
           /\ (q # from /\ q # T!Root /\ T!Parent(q) = from) =>
                  /\ T!Rebased(q, from, to) \in T!Paths \ {T!Root}
                  /\ T!Parent(T!Rebased(q, from, to)) = to
                  /\ T!Rebased(T!Rebased(q, from, to), to, from) = q
                  /\ q \notin T!Folders
<1>1. T!IsPrefix(from, q) <=> (q = from \/ (q # T!Root /\ T!Parent(q) = from))
  BY Kin
<1>2. /\ from \in Seq(Names) /\ Len(from) \in {1, 2} /\ to \in Seq(Names) /\ Len(to) \in {1, 2}
      /\ q \in Seq(Names)
  <2>1. /\ from \in Seq(Names) /\ (Len(from) = 0 => from = <<>>)
        /\ to \in Seq(Names) /\ (Len(to) = 0 => to = <<>>) /\ q \in Seq(Names)
    BY PathShapes
  <2>2. Len(from) # 0 /\ Len(to) # 0
    BY <2>1 DEF T!Root
  <2> QED BY <2>1, <2>2, PathShapes
<1>3. ASSUME q = from PROVE T!Rebased(q, from, to) = to
  <2> DEFINE rest == SubSeq(q, Len(from) + 1, Len(q))
  <2>1. rest \in Seq(Names) /\ Len(rest) = 0
    BY <1>2, <1>3
  <2>2. T!Rebased(q, from, to) = to \o rest
    BY <1>1, <1>3 DEF T!Rebased
  <2> HIDE DEF rest
  <2>3. to \o rest = to
    BY <1>2, <2>1
  <2> QED BY <2>2, <2>3
<1>4. ASSUME q # from, q = T!Root \/ T!Parent(q) # from PROVE T!Rebased(q, from, to) = q
  BY <1>1, <1>4 DEF T!Rebased
<1>5. ASSUME q # from, q # T!Root, T!Parent(q) = from
      PROVE  /\ T!Rebased(q, from, to) \in T!Paths \ {T!Root}
             /\ T!Parent(T!Rebased(q, from, to)) = to
             /\ T!Rebased(T!Rebased(q, from, to), to, from) = q
             /\ q \notin T!Folders
  <2>1. from \in T!Folders /\ Len(q) - 1 = Len(from) /\ q \notin T!Folders
    BY <1>5, ParentOf
  <2>2. Len(from) = 1 /\ Len(q) = 2 /\ Len(to) = 1 /\ to[1] \in FolderNames /\ q[2] \in FileNames
    <3>1. Len(from) = 1 /\ Len(to) = 1 /\ to[1] \in FolderNames
      BY <1>2, <2>1, FolderShapes
    <3>2. Len(q) = 2
      BY <1>2, <2>1, <3>1
    <3>3. q[2] \in FileNames
      BY <3>2, PathShapes
    <3> QED BY <3>1, <3>2, <3>3
  <2> DEFINE rest == SubSeq(q, 2, 2)  r == to \o rest  back == SubSeq(r, 2, 2)
  <2>3. rest \in Seq(Names) /\ Len(rest) = 1 /\ rest[1] = q[2]
    BY <1>2, <2>2
  <2>4. r \in Seq(Names) /\ Len(r) = 2 /\ r[1] = to[1] /\ r[2] = q[2]
    <3> HIDE DEF rest
    <3> QED BY <1>2, <2>2, <2>3
  <2>5. T!Rebased(q, from, to) = r
    BY <1>1, <1>5, <2>2 DEF T!Rebased
  <2> HIDE DEF rest, r
  <2>6. r \in T!Paths /\ r # T!Root /\ T!Parent(r) = to
    BY <1>2, <2>2, <2>4, LongPath
  <2>8. T!IsPrefix(to, r)
    BY <2>6, Kin
  <2>9. back \in Seq(Names) /\ Len(back) = 1 /\ back[1] = q[2]
    BY <2>4
  <2>10. T!Rebased(r, to, from) = from \o back
    BY <2>2, <2>4, <2>8 DEF T!Rebased
  <2> HIDE DEF back
  <2>11. from \o back \in Seq(Names) /\ Len(from \o back) = 2 /\ (from \o back)[1] = from[1] /\ (from \o back)[2] = q[2]
    BY <1>2, <2>2, <2>9, Joined
  <2>12. from[1] = q[1]
    BY <1>5, <2>2, ParentOf
  <2>13. from \o back = q
    BY <1>2, <2>2, <2>11, <2>12, SamePath
  <2> QED BY <2>1, <2>5, <2>6, <2>10, <2>13
<1> QED BY <1>3, <1>4, <1>5

(* The tree's invariant: every path on disk has its folder; whatever is watched,
   the root is; and a folder listed since its watch was set is listed as it is,
   or an event that will have it read again is on its way. *)
Clips == [path : T!Paths, cut : BOOLEAN, item : Nat]

TreeTypes ==
    /\ DOMAIN treeDisk \subseteq T!Paths /\ T!Root \in DOMAIN treeDisk /\ treeDisk[T!Root] = 1
    /\ \A p \in DOMAIN treeDisk : p # T!Root => T!Parent(p) \in DOMAIN treeDisk
    /\ DOMAIN trashed \subseteq T!Paths \ {T!Root}
    /\ active \in BOOLEAN /\ clipboard \in Clips /\ made \in Nat
    /\ expanded \subseteq T!Folders /\ T!Root \in expanded
    /\ DOMAIN listings \subseteq T!Folders
    /\ \A d \in DOMAIN listings : listings[d] \subseteq T!Paths \ {T!Root}
    /\ DOMAIN watch \subseteq T!Folders
    /\ DOMAIN watch # {} => T!Root \in DOMAIN watch /\ watch[T!Root] = 1
    /\ phase \in {"draw", "act"} /\ active = TRUE => T!Root \in DOMAIN watch

Fresh(d) == d \in DOMAIN treeDisk /\ watch[d] = treeDisk[d] => listings[d] = T!InIt(treeDisk, d) \ treeHidden
Listed == \A d \in (DOMAIN listings \cap DOMAIN watch) \ old : d \in T!Stale(treeEvents) \/ Fresh(d)
Drawn ==
    phase = "act" /\ active = TRUE =>
        /\ T!Root \in DOMAIN listings
        /\ listings[T!Root] \cap expanded \cap T!Folders \subseteq DOMAIN listings

(* The items' numbers: no two items share one, on disk or in the trash, and what
   is in the trash is neither on the clipboard nor among the expanded. *)
Numbered ==
    /\ \A p \in DOMAIN treeDisk : treeDisk[p] \in Nat /\ treeDisk[p] # 0 /\ treeDisk[p] <= made
    /\ \A p \in DOMAIN trashed : trashed[p] \in Nat /\ trashed[p] # 0 /\ trashed[p] <= made
    /\ \A p, q \in DOMAIN treeDisk : treeDisk[p] = treeDisk[q] => p = q
    /\ \A p, q \in DOMAIN trashed : trashed[p] = trashed[q] => p = q
    /\ \A p \in DOMAIN treeDisk, q \in DOMAIN trashed : treeDisk[p] # trashed[q]
    /\ \A n \in opened : n \in Nat /\ n <= made
    /\ clipboard.item <= made
    /\ \A p \in DOMAIN trashed : trashed[p] \notin opened /\ trashed[p] # clipboard.item
Followed ==
    \A p \in DOMAIN treeDisk :
        /\ treeDisk[p] = clipboard.item => p = clipboard.path
        /\ treeDisk[p] \in opened => p \in expanded

TreeInv == TreeTypes /\ Listed /\ Drawn /\ Numbered /\ Followed

(* A folder's new state, when the watches that are right have told of it. *)
ToldOf(d) ==
    \/ d \in T!Stale(treeEvents')
    \/ d \notin DOMAIN treeDisk'
    \/ watch[d] # treeDisk'[d]
    \/ d \in DOMAIN treeDisk /\ treeDisk[d] = treeDisk'[d] /\ T!InIt(treeDisk', d) = T!InIt(treeDisk, d)

LEMMA ListedKept ==
    ASSUME Listed, watch' = watch, treeEvents \subseteq treeEvents', treeHidden' = treeHidden,
           DOMAIN listings' \subseteq DOMAIN listings, \A d \in DOMAIN listings' : listings'[d] = listings[d],
           \A d \in DOMAIN listings' : d \in old => d \in old',
           \A d \in DOMAIN listings' \cap DOMAIN watch : ToldOf(d)
    PROVE  Listed'
<1> SUFFICES ASSUME NEW d \in (DOMAIN listings' \cap DOMAIN watch) \ old'
             PROVE  d \in T!Stale(treeEvents') \/ Fresh(d)'
  BY DEF Listed
<1>1. d \in T!Stale(treeEvents) \/ Fresh(d)
  BY DEF Listed
<1>2. d \in T!Stale(treeEvents) => d \in T!Stale(treeEvents')
  BY DEF T!Stale
<1>3. ASSUME Fresh(d) PROVE d \in T!Stale(treeEvents') \/ Fresh(d)'
  BY <1>3 DEF ToldOf, Fresh
<1> QED BY <1>1, <1>2, <1>3

LEMMA SaysOwn ==
    ASSUME NEW files, NEW p \in T!Paths \ {T!Root}, T!Parent(p) \in DOMAIN watch,
           watch[T!Parent(p)] = files[T!Parent(p)], T!Says(files, p) \subseteq treeEvents'
    PROVE  p \in T!Stale(treeEvents') /\ T!Parent(p) \in T!Stale(treeEvents')
<1>1. Append(T!Parent(p), T!Last(p)) = p
  BY ParentOf
<1>2. p \in T!Says(files, p)
  BY <1>1 DEF T!Says
<1> QED BY <1>2 DEF T!Stale

(* An item that came or went at p: every folder but p and its parent is as it was. *)
LEMMA ToldAt ==
    ASSUME TreeTypes, NEW files, NEW p \in T!Paths \ {T!Root}, files[T!Root] = 1,
           T!Says(files, p) \subseteq treeEvents', NEW d \in DOMAIN watch,
           watch[d] = files[d] \/ d # T!Parent(p), d = p \/ d = T!Parent(p)
    PROVE  d \in T!Stale(treeEvents')
<1>1. d \in T!Folders /\ T!Root \in DOMAIN watch /\ watch[T!Root] = 1
  BY DEF TreeTypes
<1>2. CASE d = T!Parent(p)
  BY <1>2, SaysOwn
<1>3. CASE d = p
  <2>1. T!Parent(p) = T!Root
    BY <1>1, <1>3, ParentOf
  <2> QED BY <1>1, <1>3, <2>1, SaysOwn
<1> QED BY <1>2, <1>3

(* What each change of the disk tells the watches. *)
LEMMA MadeTold ==
    ASSUME TreeTypes, NEW p \in T!Paths \ {T!Root}, NEW n, T!Free(p), treeDisk' = T!Made(p, n),
           T!Says(treeDisk', p) \subseteq treeEvents', NEW d \in DOMAIN watch
    PROVE  ToldOf(d)
<1>1. /\ DOMAIN treeDisk' = {p} \cup DOMAIN treeDisk
      /\ \A q \in DOMAIN treeDisk : q # p /\ treeDisk'[q] = treeDisk[q]
      /\ p \notin DOMAIN treeDisk
  BY DEF T!Made, T!Free
<1>2. treeDisk'[T!Root] = 1
  BY <1>1 DEF TreeTypes
<1>3. CASE d # p /\ d # T!Parent(p)
  BY <1>1, <1>3 DEF ToldOf, T!InIt
<1>4. CASE d = p \/ d = T!Parent(p)
  BY <1>2, <1>4, ToldAt DEF ToldOf
<1> QED BY <1>3, <1>4

LEMMA GoneIs ==
    ASSUME TreeTypes, NEW p \in T!Paths \ {T!Root}, treeDisk' = T!Gone(p)
    PROVE  /\ DOMAIN treeDisk' \subseteq DOMAIN treeDisk
           /\ \A q \in DOMAIN treeDisk' : q # p /\ treeDisk'[q] = treeDisk[q] /\ (q = T!Root \/ T!Parent(q) # p)
           /\ \A q \in DOMAIN treeDisk : q \in DOMAIN treeDisk' \/ q = p \/ (q # T!Root /\ T!Parent(q) = p)
<1>1. \A q \in T!Paths : T!IsPrefix(p, q) <=> (q = p \/ (q # T!Root /\ T!Parent(q) = p))
  BY Kin
<1>2. /\ DOMAIN treeDisk' = {q \in DOMAIN treeDisk : ~T!IsPrefix(p, q)}
      /\ \A q \in DOMAIN treeDisk' : treeDisk'[q] = treeDisk[q]
  BY DEF T!Gone, T!Tree, T!Restrict
<1>3. DOMAIN treeDisk \subseteq T!Paths
  BY DEF TreeTypes
<1> QED BY <1>1, <1>2, <1>3

LEMMA GoneTold ==
    ASSUME TreeTypes, NEW p \in T!Paths \ {T!Root}, treeDisk' = T!Gone(p),
           T!Says(treeDisk, p) \subseteq treeEvents', NEW d \in DOMAIN watch
    PROVE  ToldOf(d)
<1>1. /\ DOMAIN treeDisk' \subseteq DOMAIN treeDisk
      /\ \A q \in DOMAIN treeDisk' : q # p /\ treeDisk'[q] = treeDisk[q] /\ (q = T!Root \/ T!Parent(q) # p)
      /\ \A q \in DOMAIN treeDisk : q \in DOMAIN treeDisk' \/ q = p \/ (q # T!Root /\ T!Parent(q) = p)
  BY GoneIs
<1>2. CASE d # p /\ d # T!Parent(p)
  BY <1>1, <1>2 DEF ToldOf, T!InIt
<1>3. CASE d = p \/ d = T!Parent(p)
  <2>1. treeDisk[T!Root] = 1
    BY DEF TreeTypes
  <2>2. CASE d \notin DOMAIN treeDisk' \/ watch[d] # treeDisk'[d]
    BY <2>2 DEF ToldOf
  <2>3. CASE d \in DOMAIN treeDisk' /\ watch[d] = treeDisk'[d]
    <3>1. watch[d] = treeDisk[d]
      BY <1>1, <2>3
    <3> QED BY <1>3, <2>1, <3>1, ToldAt DEF ToldOf
  <2> QED BY <2>2, <2>3
<1> QED BY <1>2, <1>3

LEMMA MovedIs ==
    ASSUME TreeTypes, NEW from \in DOMAIN treeDisk \ {T!Root}, NEW to \in T!Paths, T!Free(to),
           from \in T!Folders <=> to \in T!Folders, treeDisk' = T!Moved(from, to)
    PROVE  /\ from \in T!Paths /\ to # T!Root
           /\ \A q \in DOMAIN treeDisk :
                 T!Rebased(q, from, to) \in DOMAIN treeDisk' /\ treeDisk'[T!Rebased(q, from, to)] = treeDisk[q]
           /\ \A r \in DOMAIN treeDisk' : \E q \in DOMAIN treeDisk : r = T!Rebased(q, from, to)
<1>1. from \in T!Paths \ {T!Root} /\ to \in T!Paths \ {T!Root} /\ DOMAIN treeDisk \subseteq T!Paths
      /\ \A q \in DOMAIN treeDisk : q # to /\ (q # T!Root => T!Parent(q) # to)
  BY DEF TreeTypes, T!Free
<1>2. /\ \A q \in T!Paths : T!IsPrefix(from, q) <=> (q = from \/ (q # T!Root /\ T!Parent(q) = from))
      /\ \A q \in T!Paths : T!IsPrefix(to, q) <=> (q = to \/ (q # T!Root /\ T!Parent(q) = to))
  BY <1>1, Kin
<1> DEFINE Moves(q) == T!Rebased(q, from, to)  Away(q) == T!IsPrefix(from, q)
<1>3. /\ DOMAIN treeDisk' = {q \in DOMAIN treeDisk : ~Away(q)} \cup {Moves(q) : q \in {r \in DOMAIN treeDisk : Away(r)}}
      /\ \A r \in DOMAIN treeDisk' :
            treeDisk'[r] = IF T!IsPrefix(to, r) THEN treeDisk[T!Rebased(r, to, from)] ELSE treeDisk[r]
  BY DEF T!Moved, T!Tree
<1>4. ASSUME NEW q \in DOMAIN treeDisk, ~Away(q)
      PROVE  Moves(q) = q /\ q \in DOMAIN treeDisk' /\ treeDisk'[q] = treeDisk[q]
  <2>1. Moves(q) = q
    BY <1>4 DEF T!Rebased
  <2>2. q \in DOMAIN treeDisk' /\ ~T!IsPrefix(to, q)
    BY <1>1, <1>2, <1>3, <1>4
  <2> QED BY <1>3, <2>1, <2>2
<1>5. ASSUME NEW q \in DOMAIN treeDisk, Away(q)
      PROVE  Moves(q) \in DOMAIN treeDisk' /\ treeDisk'[Moves(q)] = treeDisk[q]
  <2>1. Moves(q) \in DOMAIN treeDisk'
    BY <1>3, <1>5
  <2>2. CASE q = from
    <3>1. Moves(q) = to /\ T!Rebased(to, to, from) = from
      BY <1>1, <2>2, Rebase
    <3> QED BY <1>1, <1>2, <1>3, <2>1, <2>2, <3>1
  <2>3. CASE q # from
    <3>1. q \in T!Paths /\ q # T!Root /\ T!Parent(q) = from
      BY <1>1, <1>2, <1>5, <2>3
    <3>2. Moves(q) \in T!Paths \ {T!Root} /\ T!Parent(Moves(q)) = to /\ T!Rebased(Moves(q), to, from) = q
      BY <1>1, <2>3, <3>1, Rebase
    <3> QED BY <1>1, <1>2, <1>3, <2>1, <3>2
  <2> QED BY <2>2, <2>3
<1>6. \A r \in DOMAIN treeDisk' : \E q \in DOMAIN treeDisk : r = Moves(q)
  BY <1>3, <1>4
<1> QED BY <1>1, <1>4, <1>5, <1>6

LEMMA MovedTold ==
    ASSUME TreeTypes, NEW from \in DOMAIN treeDisk \ {T!Root}, NEW to \in T!Paths, T!Free(to),
           from \in T!Folders <=> to \in T!Folders, treeDisk' = T!Moved(from, to),
           T!Says(treeDisk, from) \subseteq treeEvents', T!Says(treeDisk', to) \subseteq treeEvents',
           NEW d \in DOMAIN watch
    PROVE  ToldOf(d)
<1> DEFINE Moves(q) == T!Rebased(q, from, to)
<1>1. /\ from \in T!Paths \ {T!Root} /\ to \in T!Paths \ {T!Root} /\ DOMAIN treeDisk \subseteq T!Paths
      /\ d \in T!Folders /\ treeDisk[T!Root] = 1 /\ T!Root \in DOMAIN treeDisk
      /\ T!Parent(from) \in DOMAIN treeDisk
      /\ T!Parent(from) \in T!Folders /\ T!Parent(to) \in T!Folders /\ T!Parent(from) # from
  BY MovedIs, ParentOf DEF TreeTypes
<1>2. /\ \A q \in DOMAIN treeDisk : Moves(q) \in DOMAIN treeDisk' /\ treeDisk'[Moves(q)] = treeDisk[q]
      /\ \A r \in DOMAIN treeDisk' : \E q \in DOMAIN treeDisk : r = Moves(q)
  BY MovedIs
<1>3. \A q \in T!Paths :
         /\ q = from => Moves(q) = to
         /\ (q # from /\ (q = T!Root \/ T!Parent(q) # from)) => Moves(q) = q
         /\ (q # from /\ q # T!Root /\ T!Parent(q) = from) => Moves(q) # T!Root /\ T!Parent(Moves(q)) = to
  BY <1>1, Rebase
<1>4. \A q \in T!Folders \ {T!Root} : T!Parent(q) # from /\ T!Parent(q) # to
  BY <1>1, ParentOf DEF T!Paths
<1> HIDE DEF Moves
<1>5. treeDisk'[T!Root] = 1
  BY <1>1, <1>2, <1>3
<1>6. CASE d \notin DOMAIN treeDisk' \/ watch[d] # treeDisk'[d]
  BY <1>6 DEF ToldOf
<1>7. ASSUME d \in DOMAIN treeDisk', watch[d] = treeDisk'[d] PROVE ToldOf(d)
  <2>1. CASE d = to \/ d = T!Parent(to)
    BY <1>1, <1>5, <1>7, <2>1, ToldAt DEF ToldOf
  <2>2. CASE d = from
    BY <1>1, <2>2, ToldAt DEF ToldOf
  <2>3. CASE d = T!Parent(from)
    <3>1. Moves(d) = d
      BY <1>1, <1>3, <1>4, <2>3
    <3>2. watch[d] = treeDisk[d]
      BY <1>1, <1>2, <1>7, <2>3, <3>1
    <3> QED BY <1>1, <2>3, <3>2, ToldAt DEF ToldOf
  <2>4. CASE d \notin {from, to, T!Parent(from), T!Parent(to)}
    <3>1. d \in DOMAIN treeDisk /\ treeDisk'[d] = treeDisk[d]
      <4>1. PICK q \in DOMAIN treeDisk : d = Moves(q)
        BY <1>2, <1>7
      <4>2. q = d
        BY <1>1, <1>3, <1>4, <2>4, <4>1
      <4> QED BY <1>2, <4>1, <4>2
    <3>2. ASSUME NEW r \in DOMAIN treeDisk', r # T!Root, T!Parent(r) = d
          PROVE  r \in DOMAIN treeDisk
      <4>1. PICK q \in DOMAIN treeDisk : r = Moves(q)
        BY <1>2
      <4>2. q = r
        BY <1>1, <1>3, <2>4, <3>2, <4>1
      <4> QED BY <4>2
    <3>3. ASSUME NEW q \in DOMAIN treeDisk, q # T!Root, T!Parent(q) = d
          PROVE  q \in DOMAIN treeDisk'
      <4>1. Moves(q) = q
        BY <1>1, <1>3, <2>4, <3>3
      <4> QED BY <1>2, <4>1
    <3>4. T!InIt(treeDisk', d) = T!InIt(treeDisk, d)
      BY <3>2, <3>3 DEF T!InIt
    <3> QED BY <3>1, <3>4 DEF ToldOf
  <2> QED BY <2>1, <2>2, <2>3, <2>4
<1> QED BY <1>6, <1>7

LEMMA RestoredTold ==
    ASSUME TreeTypes, NEW p \in DOMAIN trashed, T!Tree(trashed, p) = DOMAIN trashed,
           treeDisk' = [q \in DOMAIN trashed \cup DOMAIN treeDisk |->
                          IF q \in DOMAIN trashed THEN trashed[q] ELSE treeDisk[q]],
           T!Says(treeDisk', p) \subseteq treeEvents', NEW d \in DOMAIN watch
    PROVE  ToldOf(d)
<1>1. /\ p \in T!Paths \ {T!Root} /\ DOMAIN trashed \subseteq T!Paths \ {T!Root} /\ d \in T!Folders
      /\ T!Root \in DOMAIN treeDisk /\ treeDisk[T!Root] = 1
  BY DEF TreeTypes
<1>2. \A q \in DOMAIN trashed : q = p \/ T!Parent(q) = p
  <2>1. \A q \in DOMAIN trashed : T!IsPrefix(p, q)
    BY DEF T!Tree
  <2> QED BY <1>1, <2>1, Kin
<1>3. \A q \in T!Folders \ {T!Root} : T!Parent(q) = T!Root
  BY ParentOf DEF T!Paths
<1>4. treeDisk'[T!Root] = 1
  BY <1>1
<1>5. CASE d \notin DOMAIN treeDisk' \/ watch[d] # treeDisk'[d]
  BY <1>5 DEF ToldOf
<1>6. CASE (d = p \/ d = T!Parent(p)) /\ d \in DOMAIN treeDisk' /\ watch[d] = treeDisk'[d]
  BY <1>1, <1>4, <1>6, ToldAt DEF ToldOf
<1>7. CASE d # p /\ d # T!Parent(p) /\ d \in DOMAIN treeDisk'
  <2>1. d \notin DOMAIN trashed
    BY <1>1, <1>2, <1>3, <1>7
  <2>2. T!InIt(treeDisk', d) = T!InIt(treeDisk, d)
    <3>1. ASSUME NEW q \in DOMAIN trashed PROVE T!Parent(q) # d
      BY <1>2, <1>7
    <3> QED BY <3>1 DEF T!InIt
  <2> QED BY <1>7, <2>1, <2>2 DEF ToldOf
<1> QED BY <1>5, <1>6, <1>7

LEMMA RowsOf == ASSUME TreeTypes PROVE T!Rows \subseteq T!Paths \ {T!Root}
BY DEF TreeTypes, T!Rows

(* What a frame's action of the user leaves for the next frame to do. *)
ByUser == phase' = "logic" /\ active' \in BOOLEAN /\ watch' = watch

LEMMA ActsByUser == ASSUME TreeTypes, T!InTree \/ (T!Act /\ active' = ~active), watch' = watch PROVE ByUser /\ Drawn'
<1>1. phase' = "logic" /\ active' \in BOOLEAN
  BY DEF T!InTree, T!Act, TreeTypes
<1> QED BY <1>1 DEF ByUser, Drawn

LEMMA ListedSame ==
    ASSUME Listed, watch' = watch, treeEvents' = treeEvents, treeHidden' = treeHidden, listings' = listings,
           old' = old, treeDisk' = treeDisk
    PROVE  Listed'
BY DEF Listed, Fresh

LEMMA ToggleTree == ASSUME TreeInv, NEW d \in T!Paths, T!Toggle(d) PROVE TreeInv'
<1>1. /\ UNCHANGED <<treeDisk, trashed, listings, clipboard, treeHidden, watch, treeEvents, old, made>>
      /\ T!InTree /\ d \in T!Rows /\ d \in T!Folders
      /\ \/ d \in expanded /\ expanded' = expanded \ {d}
            /\ opened' = opened \ {treeDisk[p] : p \in {d} \cap DOMAIN treeDisk}
         \/ expanded' = expanded \cup {d}
            /\ opened' = opened \cup {treeDisk[p] : p \in {d} \cap DOMAIN treeDisk}
  BY DEF T!Toggle
<1>2. ByUser /\ Drawn'
  BY <1>1, ActsByUser DEF TreeInv
<1>3. d # T!Root /\ d \in T!Paths
  BY <1>1, RowsOf DEF TreeInv
<1>4. TreeTypes'
  BY <1>1, <1>2, <1>3 DEF TreeInv, TreeTypes, ByUser
<1>5. Listed'
  BY <1>1, ListedSame DEF TreeInv
<1>6. Numbered'
  BY <1>1 DEF TreeInv, Numbered
<1>7. Followed'
  BY <1>1 DEF TreeInv, Numbered, Followed
<1> QED BY <1>2, <1>4, <1>5, <1>6, <1>7 DEF TreeInv

LEMMA ReadAgainTree ==
    ASSUME TreeInv, T!Refresh \/ \E p \in T!Paths : T!HideUnhide(p)
    PROVE  TreeInv'
<1>1. /\ UNCHANGED <<treeDisk, trashed, expanded, clipboard, watch, treeEvents, opened, made>>
      /\ T!InTree /\ listings' = <<>>
  BY DEF T!Refresh, T!HideUnhide
<1>2. DOMAIN listings' = {}
  BY <1>1
<1>3. ByUser /\ Drawn'
  BY <1>1, ActsByUser DEF TreeInv
<1>4. TreeTypes'
  BY <1>1, <1>2, <1>3 DEF TreeInv, TreeTypes, ByUser
<1> QED BY <1>1, <1>2, <1>3, <1>4 DEF TreeInv, Listed, Numbered, Followed

LEMMA CutTree == ASSUME TreeInv, NEW p \in T!Paths, T!CutOrCopy(p) PROVE TreeInv'
<1>1. /\ UNCHANGED <<treeDisk, trashed, expanded, listings, treeHidden, watch, treeEvents, old, opened, made>>
      /\ T!InTree /\ p \in DOMAIN treeDisk
  BY DEF T!CutOrCopy
<1>2. PICK cut \in BOOLEAN : clipboard' = [path |-> p, cut |-> cut, item |-> treeDisk[p]]
  BY DEF T!CutOrCopy
<1>3. ByUser /\ Drawn'
  BY <1>1, ActsByUser DEF TreeInv
<1>4. clipboard' \in Clips /\ clipboard'.path = p /\ clipboard'.item = treeDisk[p]
  BY <1>1, <1>2 DEF TreeInv, Numbered, Clips
<1>5. TreeTypes'
  BY <1>1, <1>3, <1>4 DEF TreeInv, TreeTypes, ByUser
<1>6. Listed'
  BY <1>1, ListedSame DEF TreeInv
<1> QED BY <1>1, <1>3, <1>4, <1>5, <1>6 DEF TreeInv, Numbered, Followed

LEMMA SwitchTree == ASSUME TreeInv, T!Switch PROVE TreeInv'
<1>1. /\ UNCHANGED <<treeDisk, trashed, expanded, listings, clipboard, treeHidden, watch, treeEvents, old, opened, made>>
      /\ T!Act /\ active' = ~active
  BY DEF T!Switch, T!tree
<1>2. ByUser /\ Drawn'
  BY <1>1, ActsByUser DEF TreeInv
<1>3. TreeTypes'
  BY <1>1, <1>2 DEF TreeInv, TreeTypes, ByUser
<1>4. Listed'
  BY <1>1, ListedSame DEF TreeInv
<1> QED BY <1>1, <1>2, <1>3, <1>4 DEF TreeInv, Numbered, Followed

(* Some listings are dropped, and the rest are as they were. *)
LessListed ==
    /\ DOMAIN listings' \subseteq DOMAIN listings
    /\ \A d \in DOMAIN listings' : listings'[d] = listings[d] /\ (d \in old => d \in old')
(* The frame goes on as it was, or the user's action ends it. *)
FrameKept == ByUser \/ (phase' = phase /\ active' = active /\ watch' = watch)

LEMMA LessInvalid ==
    ASSUME NEW dirs, listings' = T!Invalidated(dirs), old' = old \ dirs
    PROVE  LessListed
BY DEF LessListed, T!Invalidated, T!Restrict

LEMMA ItemMade ==
    ASSUME TreeInv, NEW p \in T!Paths, T!Free(p), treeDisk' = T!Made(p, made + 1), made' = made + 1,
           \/ expanded' = expanded /\ opened' = opened
           \/ /\ expanded' = expanded \cup {T!Parent(p)}
              /\ opened' = opened \cup {treeDisk[T!Parent(p)]},
           LessListed, treeEvents' = treeEvents \cup T!Says(treeDisk', p), FrameKept, Drawn',
           UNCHANGED <<trashed, clipboard, treeHidden, watch>>
    PROVE  TreeInv'
<1>1. /\ p \in T!Paths \ {T!Root} /\ T!Parent(p) \in DOMAIN treeDisk /\ T!Parent(p) \in T!Folders
      /\ DOMAIN treeDisk' = {p} \cup DOMAIN treeDisk /\ treeDisk'[p] = made + 1
      /\ \A q \in DOMAIN treeDisk : q # p /\ treeDisk'[q] = treeDisk[q]
      /\ p \notin DOMAIN treeDisk
  BY DEF T!Made, T!Free, TreeInv, TreeTypes
<1>2. TreeTypes'
  <2>1. /\ DOMAIN treeDisk' \subseteq T!Paths /\ T!Root \in DOMAIN treeDisk' /\ treeDisk'[T!Root] = 1
        /\ \A q \in DOMAIN treeDisk' : q # T!Root => T!Parent(q) \in DOMAIN treeDisk'
    BY <1>1 DEF TreeInv, TreeTypes
  <2>2. expanded' \subseteq T!Folders /\ T!Root \in expanded'
    BY <1>1 DEF TreeInv, TreeTypes
  <2>3. DOMAIN listings' \subseteq T!Folders /\ \A d \in DOMAIN listings' : listings'[d] \subseteq T!Paths \ {T!Root}
    BY DEF TreeInv, TreeTypes, LessListed
  <2>4. made' \in Nat
    BY DEF TreeInv, TreeTypes
  <2>5. active' \in BOOLEAN /\ (phase' \in {"draw", "act"} /\ active' = TRUE => T!Root \in DOMAIN watch')
    BY DEF TreeInv, TreeTypes, FrameKept, ByUser
  <2> QED BY <2>1, <2>2, <2>3, <2>4, <2>5 DEF TreeInv, TreeTypes
<1>3. Listed'
  <2>1. \A d \in DOMAIN watch : ToldOf(d)
    BY <1>1, MadeTold DEF TreeInv
  <2> QED BY <2>1, ListedKept DEF TreeInv, LessListed
<1>4. Numbered'
  <2> USE DEF TreeInv, TreeTypes, Numbered, Clips
  <2>1. /\ \A q \in DOMAIN treeDisk' : treeDisk'[q] \in Nat /\ treeDisk'[q] # 0 /\ treeDisk'[q] <= made'
        /\ \A q \in DOMAIN trashed : trashed[q] \in Nat /\ trashed[q] # 0 /\ trashed[q] <= made'
    BY <1>1
  <2>2. \A q, r \in DOMAIN treeDisk' : treeDisk'[q] = treeDisk'[r] => q = r
    BY <1>1
  <2>3. \A q \in DOMAIN treeDisk', r \in DOMAIN trashed : treeDisk'[q] # trashed[r]
    BY <1>1
  <2>4. (\A n \in opened' : n \in Nat /\ n <= made') /\ clipboard.item <= made'
    BY <1>1
  <2>5. \A q \in DOMAIN trashed : trashed[q] \notin opened' /\ trashed[q] # clipboard.item
    BY <1>1
  <2> QED BY <2>1, <2>2, <2>3, <2>4, <2>5
<1>5. Followed'
  <2> USE DEF TreeInv, TreeTypes, Numbered, Followed, Clips
  <2>1. made + 1 \notin opened /\ clipboard.item # made + 1
    OBVIOUS
  <2>2. treeDisk'[p] # clipboard.item /\ treeDisk'[p] \notin opened'
    BY <1>1, <2>1
  <2>3. ASSUME NEW q \in DOMAIN treeDisk
        PROVE  /\ treeDisk[q] = clipboard.item => q = clipboard.path
               /\ treeDisk[q] \in opened' => q \in expanded'
    BY <1>1
  <2> QED BY <1>1, <2>2, <2>3
<1> QED BY <1>2, <1>3, <1>4, <1>5 DEF TreeInv

LEMMA CreateTree ==
    ASSUME TreeInv, NEW p \in T!Paths, T!Create(p) \/ \E from \in T!Paths : T!Copy(from, p)
    PROVE  TreeInv'
<1>1. /\ T!InTree /\ T!Free(p) /\ treeDisk' = T!Made(p, made + 1) /\ made' = made + 1
      /\ expanded' = expanded \cup {T!Parent(p)} /\ opened' = opened \cup {treeDisk[T!Parent(p)]}
      /\ listings' = T!Invalidated({T!Parent(p)}) /\ old' = old \ {T!Parent(p)}
      /\ treeEvents' = treeEvents \cup T!Says(treeDisk', p)
      /\ UNCHANGED <<trashed, clipboard, treeHidden, watch>>
  BY DEF T!Create, T!Copy
<1>2. FrameKept /\ Drawn' /\ LessListed
  BY <1>1, ActsByUser, LessInvalid DEF TreeInv, FrameKept
<1> QED BY <1>1, <1>2, ItemMade

LEMMA ItemGone ==
    ASSUME TreeInv, NEW p \in DOMAIN treeDisk \ {T!Root}, treeDisk' = T!Gone(p),
           T!Says(treeDisk, p) \subseteq treeEvents', treeEvents \subseteq treeEvents',
           LessListed, FrameKept, Drawn', UNCHANGED <<expanded, treeHidden, watch, made>>,
           \/ UNCHANGED <<trashed, opened, clipboard>>
           \/ /\ trashed' = T!Restrict(treeDisk, T!Tree(treeDisk, p))
              /\ opened' = opened \ T!Range(trashed')
              /\ clipboard' = IF clipboard.item \in T!Range(trashed') THEN [clipboard EXCEPT !.item = 0] ELSE clipboard
    PROVE  TreeInv'
<1>1. /\ p \in T!Paths \ {T!Root} /\ DOMAIN treeDisk' \subseteq DOMAIN treeDisk
      /\ \A q \in DOMAIN treeDisk' : q # p /\ treeDisk'[q] = treeDisk[q] /\ (q = T!Root \/ T!Parent(q) # p)
      /\ \A q \in DOMAIN treeDisk : q \in DOMAIN treeDisk' \/ q = p \/ (q # T!Root /\ T!Parent(q) = p)
  BY GoneIs DEF TreeInv, TreeTypes
<1>2. DOMAIN treeDisk \subseteq T!Paths
  BY DEF TreeInv, TreeTypes
<1>3. /\ opened' \subseteq opened /\ clipboard' \in Clips /\ clipboard'.path = clipboard.path
      /\ clipboard'.item = clipboard.item \/ clipboard'.item = 0
  BY DEF TreeInv, TreeTypes, Clips
<1>4. \/ /\ trashed' = trashed
         /\ \A q \in DOMAIN trashed : trashed[q] \notin opened' /\ trashed[q] # clipboard'.item
      \/ \A q \in DOMAIN trashed' :
            /\ q \in DOMAIN treeDisk /\ q # T!Root /\ q \notin DOMAIN treeDisk'
            /\ trashed'[q] = treeDisk[q] /\ trashed'[q] \notin opened' /\ trashed'[q] # clipboard'.item
  <2>1. CASE UNCHANGED <<trashed, opened, clipboard>>
    BY <2>1 DEF TreeInv, Numbered
  <2>2. CASE /\ trashed' = T!Restrict(treeDisk, T!Tree(treeDisk, p))
             /\ opened' = opened \ T!Range(trashed')
             /\ clipboard' = IF clipboard.item \in T!Range(trashed') THEN [clipboard EXCEPT !.item = 0] ELSE clipboard
    <3>1. /\ DOMAIN trashed' = {q \in DOMAIN treeDisk : T!IsPrefix(p, q)}
          /\ \A q \in DOMAIN trashed' : trashed'[q] = treeDisk[q] /\ trashed'[q] \in T!Range(trashed')
      BY <2>2 DEF T!Restrict, T!Tree, T!Range
    <3>2. \A q \in DOMAIN trashed' : q = p \/ (q # T!Root /\ T!Parent(q) = p)
      BY <1>1, <1>2, <3>1, Kin
    <3>3. \A q \in DOMAIN trashed' : trashed'[q] # 0
      BY <3>1 DEF TreeInv, Numbered
    <3>4. \A q \in DOMAIN trashed' : trashed'[q] # clipboard'.item
      <4>1. CASE clipboard.item \in T!Range(trashed')
        <5>1. clipboard'.item = 0
          BY <2>2, <4>1 DEF TreeInv, TreeTypes, Clips
        <5> QED BY <3>3, <5>1
      <4>2. CASE clipboard.item \notin T!Range(trashed')
        BY <2>2, <3>1, <4>2
      <4> QED BY <4>1, <4>2
    <3> QED BY <1>1, <2>2, <3>1, <3>2, <3>4
  <2> QED BY <2>1, <2>2
<1>5. TreeTypes'
  <2>1. /\ DOMAIN treeDisk' \subseteq T!Paths /\ T!Root \in DOMAIN treeDisk' /\ treeDisk'[T!Root] = 1
    BY <1>1, ParentOf DEF TreeInv, TreeTypes
  <2>2. ASSUME NEW q \in DOMAIN treeDisk', q # T!Root PROVE T!Parent(q) \in DOMAIN treeDisk'
    <3>1. T!Parent(q) \in DOMAIN treeDisk /\ T!Parent(q) # p
      BY <1>1, <2>2 DEF TreeInv, TreeTypes
    <3>2. T!Parent(q) = T!Root \/ T!Parent(T!Parent(q)) # p
      <4>1. T!Parent(q) \in T!Folders
        BY <2>1, <2>2, ParentOf
      <4> QED BY <1>1, <2>1, <4>1, ParentOf DEF T!Paths
    <3> QED BY <1>1, <3>1, <3>2
  <2>3. DOMAIN trashed' \subseteq T!Paths \ {T!Root}
    BY <1>4 DEF TreeInv, TreeTypes
  <2>4. DOMAIN listings' \subseteq T!Folders /\ \A d \in DOMAIN listings' : listings'[d] \subseteq T!Paths \ {T!Root}
    BY DEF TreeInv, TreeTypes, LessListed
  <2>5. active' \in BOOLEAN /\ (phase' \in {"draw", "act"} /\ active' = TRUE => T!Root \in DOMAIN watch')
    BY DEF TreeInv, TreeTypes, FrameKept, ByUser
  <2> QED BY <1>3, <2>1, <2>2, <2>3, <2>4, <2>5 DEF TreeInv, TreeTypes
<1>6. Listed'
  <2>1. \A d \in DOMAIN watch : ToldOf(d)
    BY <1>1, GoneTold DEF TreeInv
  <2> QED BY <2>1, ListedKept DEF TreeInv, LessListed
<1>7. Numbered'
  BY <1>1, <1>3, <1>4 DEF TreeInv, TreeTypes, Numbered
<1>8. Followed'
  BY <1>1, <1>3 DEF TreeInv, Numbered, Followed
<1> QED BY <1>5, <1>6, <1>7, <1>8 DEF TreeInv

LEMMA TrashTree == ASSUME TreeInv, NEW p \in T!Paths, T!Trash(p) PROVE TreeInv'
<1>1. /\ T!InTree /\ p \in T!Rows /\ p \in DOMAIN treeDisk
      /\ trashed' = T!Restrict(treeDisk, T!Tree(treeDisk, p)) /\ treeDisk' = T!Gone(p)
      /\ listings' = T!Invalidated({p, T!Parent(p)}) /\ old' = old \ {p, T!Parent(p)}
      /\ treeEvents' = treeEvents \cup T!Says(treeDisk, p)
      /\ opened' = opened \ T!Range(trashed')
      /\ clipboard' = IF clipboard.item \in T!Range(trashed') THEN [clipboard EXCEPT !.item = 0] ELSE clipboard
      /\ UNCHANGED <<expanded, treeHidden, watch, made>>
  BY DEF T!Trash
<1>2. FrameKept /\ Drawn'
  BY <1>1, ActsByUser DEF TreeInv, FrameKept
<1>3. LessListed
  BY <1>1, LessInvalid
<1>4. p \in DOMAIN treeDisk \ {T!Root}
  BY <1>1, RowsOf DEF TreeInv
<1> QED BY <1>1, <1>2, <1>3, <1>4, ItemGone

LEMMA RestoreTree == ASSUME TreeInv, T!Restore PROVE TreeInv'
<1>1. PICK p \in DOMAIN trashed :
        /\ T!InTree /\ T!Tree(trashed, p) = DOMAIN trashed /\ T!Free(p)
        /\ treeDisk' = [q \in DOMAIN trashed \cup DOMAIN treeDisk |->
                          IF q \in DOMAIN trashed THEN trashed[q] ELSE treeDisk[q]]
        /\ trashed' = <<>>
        /\ listings' = T!Invalidated({p, T!Parent(p)}) /\ old' = old \ {p, T!Parent(p)}
        /\ treeEvents' = treeEvents \cup T!Says(treeDisk', p)
        /\ UNCHANGED <<expanded, clipboard, treeHidden, watch, opened, made>>
  BY DEF T!Restore
<1>2. FrameKept /\ Drawn' /\ LessListed
  BY <1>1, ActsByUser, LessInvalid DEF TreeInv, FrameKept
<1>3. /\ p \in T!Paths \ {T!Root} /\ DOMAIN trashed \subseteq T!Paths \ {T!Root}
      /\ DOMAIN treeDisk \subseteq T!Paths /\ T!Parent(p) \in DOMAIN treeDisk
      /\ \A q \in DOMAIN trashed : q = p \/ T!Parent(q) = p
  <2>1. \A q \in DOMAIN trashed : T!IsPrefix(p, q)
    BY <1>1 DEF T!Tree
  <2>2. p \in T!Paths \ {T!Root} /\ DOMAIN trashed \subseteq T!Paths \ {T!Root} /\ DOMAIN treeDisk \subseteq T!Paths
    BY DEF TreeInv, TreeTypes
  <2> QED BY <1>1, <2>1, <2>2, Kin DEF T!Free
<1>4. \A q \in DOMAIN trashed : q \notin DOMAIN treeDisk
  BY <1>1, <1>3 DEF T!Free, TreeInv, TreeTypes
<1>5. /\ DOMAIN treeDisk' = DOMAIN trashed \cup DOMAIN treeDisk
      /\ \A q \in DOMAIN trashed : treeDisk'[q] = trashed[q]
      /\ \A q \in DOMAIN treeDisk : treeDisk'[q] = treeDisk[q]
      /\ DOMAIN trashed' = {}
  BY <1>1, <1>4
<1>6. TreeTypes'
  <2>1. /\ DOMAIN treeDisk' \subseteq T!Paths /\ T!Root \in DOMAIN treeDisk' /\ treeDisk'[T!Root] = 1
        /\ \A q \in DOMAIN treeDisk' : q # T!Root => T!Parent(q) \in DOMAIN treeDisk'
    BY <1>3, <1>5 DEF TreeInv, TreeTypes
  <2>2. DOMAIN listings' \subseteq T!Folders /\ \A d \in DOMAIN listings' : listings'[d] \subseteq T!Paths \ {T!Root}
    BY <1>2 DEF TreeInv, TreeTypes, LessListed
  <2>3. active' \in BOOLEAN /\ (phase' \in {"draw", "act"} /\ active' = TRUE => T!Root \in DOMAIN watch')
    BY <1>2 DEF TreeInv, TreeTypes, FrameKept, ByUser
  <2> QED BY <1>1, <1>5, <2>1, <2>2, <2>3 DEF TreeInv, TreeTypes
<1>7. Listed'
  <2>1. \A d \in DOMAIN watch : ToldOf(d)
    BY <1>1, RestoredTold DEF TreeInv
  <2> QED BY <1>1, <1>2, <2>1, ListedKept DEF TreeInv, LessListed
<1>8. Numbered'
  BY <1>1, <1>5 DEF TreeInv, Numbered
<1>9. Followed'
  BY <1>1, <1>5 DEF TreeInv, Numbered, Followed
<1> QED BY <1>2, <1>6, <1>7, <1>8, <1>9 DEF TreeInv

LEMMA MoveTree ==
    ASSUME TreeInv, NEW from \in T!Paths, NEW to \in T!Paths, T!Move(from, to)
    PROVE  TreeInv'
<1> DEFINE Moves(q) == T!Rebased(q, from, to)
<1>1. /\ T!InTree /\ from \in DOMAIN treeDisk \ {T!Root} /\ T!Free(to)
      /\ from \in T!Folders <=> to \in T!Folders
      /\ treeDisk' = T!Moved(from, to)
      /\ expanded' = {Moves(q) : q \in expanded}
      /\ clipboard' = T!Nothing \/ clipboard' = T!ClipFollows(from, to)
      /\ listings' = T!Invalidated({T!Parent(from), T!Parent(to)})
      /\ old' = old \ {T!Parent(from), T!Parent(to)}
      /\ treeEvents' = treeEvents \cup T!Says(treeDisk, from) \cup T!Says(treeDisk', to)
      /\ UNCHANGED <<trashed, treeHidden, watch, opened, made>>
  BY DEF T!Move
<1>2. FrameKept /\ Drawn' /\ LessListed
  BY <1>1, ActsByUser, LessInvalid DEF TreeInv, FrameKept
<1>3. /\ from \in T!Paths \ {T!Root} /\ to \in T!Paths \ {T!Root} /\ DOMAIN treeDisk \subseteq T!Paths
      /\ \A q \in DOMAIN treeDisk : Moves(q) \in DOMAIN treeDisk' /\ treeDisk'[Moves(q)] = treeDisk[q]
      /\ \A r \in DOMAIN treeDisk' : \E q \in DOMAIN treeDisk : r = Moves(q)
      /\ T!Parent(to) \in DOMAIN treeDisk /\ T!Parent(to) # from /\ T!Parent(from) # from
      /\ T!Parent(to) \in T!Folders /\ T!Parent(from) \in T!Folders
  <2>1. T!Parent(to) # from
    <3>1. ~T!IsPrefix(from, to)
      BY DEF T!Move
    <3>2. to # T!Root
      BY <1>1 DEF T!Free, TreeInv, TreeTypes
    <3> QED BY <1>1, <3>1, <3>2, Kin
  <2> QED BY <1>1, <2>1, MovedIs, ParentOf DEF TreeInv, TreeTypes, T!Free
<1>4. \A q \in T!Paths :
         /\ q = from => Moves(q) = to
         /\ (q # from /\ (q = T!Root \/ T!Parent(q) # from)) => Moves(q) = q
         /\ (q # from /\ q # T!Root /\ T!Parent(q) = from) =>
                Moves(q) \in T!Paths \ {T!Root} /\ T!Parent(Moves(q)) = to /\ q \notin T!Folders
  BY <1>1, <1>3, Rebase
<1> HIDE DEF Moves
<1>5. T!Root \in T!Paths /\ T!Folders \subseteq T!Paths
  BY DEF T!Paths, T!Folders
<1>6. \A q \in T!Paths : Moves(q) \in T!Paths /\ (q \in T!Folders => Moves(q) \in T!Folders)
  BY <1>1, <1>3, <1>4
<1>7. Moves(T!Root) = T!Root
  BY <1>3, <1>4, <1>5
<1>8. /\ clipboard' \in Clips
      /\ \/ clipboard'.item = 0
         \/ clipboard'.item = clipboard.item /\ clipboard'.path = Moves(clipboard.path)
  <2>1. clipboard \in Clips /\ clipboard.path \in T!Paths
    BY DEF TreeInv, TreeTypes, Clips
  <2>2. CASE clipboard' = T!Nothing
    BY <1>5, <2>2 DEF T!Nothing, Clips
  <2>3. CASE clipboard' = T!ClipFollows(from, to)
    <3>1. clipboard' = [clipboard EXCEPT !.path = Moves(clipboard.path)]
      BY <2>3 DEF T!ClipFollows, Moves
    <3>2. Moves(clipboard.path) \in T!Paths
      BY <1>6, <2>1
    <3> QED BY <2>1, <3>1, <3>2 DEF Clips
  <2> QED BY <1>1, <2>2, <2>3
<1>9. TreeTypes'
  <2>1. DOMAIN treeDisk' \subseteq T!Paths
    BY <1>3, <1>6
  <2>2. T!Root \in DOMAIN treeDisk' /\ treeDisk'[T!Root] = 1
    BY <1>3, <1>7 DEF TreeInv, TreeTypes
  <2>3. ASSUME NEW r \in DOMAIN treeDisk', r # T!Root PROVE T!Parent(r) \in DOMAIN treeDisk'
    <3>1. PICK q \in DOMAIN treeDisk : r = Moves(q)
      BY <1>3
    <3>2. \A f \in DOMAIN treeDisk \cap T!Folders : f # from => f \in DOMAIN treeDisk'
      <4>1. \A f \in T!Folders : f = T!Root \/ T!Parent(f) # from
        BY <1>3, <1>5, ParentOf
      <4> QED BY <1>3, <1>4, <1>5, <4>1
    <3>3. CASE q = from
      BY <1>3, <1>4, <3>1, <3>2, <3>3
    <3>4. CASE q # from /\ q # T!Root /\ T!Parent(q) = from
      <4>1. T!Parent(r) = to /\ to = Moves(from)
        BY <1>3, <1>4, <3>1, <3>4
      <4> QED BY <1>1, <1>3, <4>1
    <3>5. CASE q # from /\ q # T!Root /\ T!Parent(q) # from
      <4>1. r = q /\ T!Parent(q) \in DOMAIN treeDisk /\ T!Parent(q) \in T!Folders
        BY <1>3, <1>4, <3>1, <3>5, ParentOf DEF TreeInv, TreeTypes
      <4> QED BY <3>2, <3>5, <4>1
    <3>6. CASE q = T!Root
      BY <1>7, <2>3, <3>1, <3>6
    <3> QED BY <3>3, <3>4, <3>5, <3>6
  <2>4. DOMAIN listings' \subseteq T!Folders /\ \A d \in DOMAIN listings' : listings'[d] \subseteq T!Paths \ {T!Root}
    BY <1>2 DEF TreeInv, TreeTypes, LessListed
  <2>5. active' \in BOOLEAN /\ (phase' \in {"draw", "act"} /\ active' = TRUE => T!Root \in DOMAIN watch')
    BY <1>2 DEF TreeInv, TreeTypes, FrameKept, ByUser
  <2>6. expanded' \subseteq T!Folders /\ T!Root \in expanded'
    BY <1>1, <1>5, <1>6, <1>7 DEF TreeInv, TreeTypes
  <2> QED BY <1>1, <1>8, <2>1, <2>2, <2>3, <2>4, <2>5, <2>6 DEF TreeInv, TreeTypes
<1>10. Listed'
  <2>1. \A d \in DOMAIN watch : ToldOf(d)
    BY <1>1, MovedTold DEF TreeInv
  <2> QED BY <1>1, <1>2, <2>1, ListedKept DEF TreeInv, LessListed
<1>11. Numbered'
  <2>1. clipboard'.item <= made /\ \A q \in DOMAIN trashed : trashed[q] # clipboard'.item
    BY <1>8 DEF TreeInv, TreeTypes, Numbered
  <2>2. /\ \A r \in DOMAIN treeDisk' : treeDisk'[r] \in Nat /\ treeDisk'[r] # 0 /\ treeDisk'[r] <= made
        /\ \A r \in DOMAIN treeDisk', q \in DOMAIN trashed : treeDisk'[r] # trashed[q]
    BY <1>3 DEF TreeInv, Numbered
  <2>3. ASSUME NEW r \in DOMAIN treeDisk', NEW s \in DOMAIN treeDisk', treeDisk'[r] = treeDisk'[s] PROVE r = s
    <3>1. PICK q \in DOMAIN treeDisk : r = Moves(q)
      BY <1>3
    <3>2. PICK t \in DOMAIN treeDisk : s = Moves(t)
      BY <1>3
    <3>3. treeDisk[q] = treeDisk[t]
      BY <1>3, <2>3, <3>1, <3>2
    <3>4. q = t
      BY <3>3 DEF TreeInv, Numbered
    <3> QED BY <3>1, <3>2, <3>4
  <2> QED BY <1>1, <2>1, <2>2, <2>3 DEF TreeInv, Numbered
<1>12. Followed'
  <2> SUFFICES ASSUME NEW r \in DOMAIN treeDisk'
               PROVE  /\ treeDisk'[r] = clipboard'.item => r = clipboard'.path
                      /\ treeDisk'[r] \in opened => r \in expanded'
    BY <1>1 DEF Followed
  <2>1. PICK q \in DOMAIN treeDisk : r = Moves(q)
    BY <1>3
  <2>2. treeDisk'[r] = treeDisk[q] /\ treeDisk[q] # 0
    BY <1>3, <2>1 DEF TreeInv, Numbered
  <2> QED BY <1>1, <1>8, <2>1, <2>2 DEF TreeInv, Followed
<1> QED BY <1>2, <1>9, <1>10, <1>11, <1>12 DEF TreeInv

LEMMA OutsideTree == ASSUME TreeInv, T!Outside PROVE TreeInv'
<1>1. /\ UNCHANGED <<trashed, active, phase, expanded, listings, clipboard, treeHidden, watch, old, opened>>
  BY DEF T!Outside, T!tree
<1>2. FrameKept /\ Drawn' /\ LessListed
  BY <1>1 DEF TreeInv, FrameKept, Drawn, LessListed
<1>3. PICK p \in T!Paths \ {T!Root} :
        \/ /\ T!Free(p) /\ treeDisk' = T!Made(p, made + 1) /\ made' = made + 1
           /\ treeEvents' = treeEvents \cup T!Says(treeDisk', p)
        \/ /\ p \in DOMAIN treeDisk /\ treeDisk' = T!Gone(p) /\ made' = made
           /\ treeEvents' = treeEvents \cup UNION {T!Says(treeDisk, q) : q \in T!Tree(treeDisk, p)}
  BY DEF T!Outside
<1>4. CASE /\ T!Free(p) /\ treeDisk' = T!Made(p, made + 1) /\ made' = made + 1
           /\ treeEvents' = treeEvents \cup T!Says(treeDisk', p)
  BY <1>1, <1>2, <1>4, ItemMade
<1>5. CASE /\ p \in DOMAIN treeDisk /\ treeDisk' = T!Gone(p) /\ made' = made
           /\ treeEvents' = treeEvents \cup UNION {T!Says(treeDisk, q) : q \in T!Tree(treeDisk, p)}
  <2>1. T!IsPrefix(p, p)
    BY Kin
  <2>2. p \in T!Tree(treeDisk, p)
    BY <1>5, <2>1 DEF T!Tree
  <2>3. T!Says(treeDisk, p) \subseteq treeEvents' /\ treeEvents \subseteq treeEvents'
    BY <1>5, <2>2
  <2> QED BY <1>1, <1>2, <1>5, <2>3, ItemGone
<1> QED BY <1>3, <1>4, <1>5

LEMMA LogicTree == ASSUME TreeInv, T!Logic PROVE TreeInv'
<1>1. /\ UNCHANGED <<treeDisk, trashed, active, expanded, clipboard, treeHidden, opened, made>>
      /\ phase' = "draw"
      /\ watch' = [p \in T!Wanted |-> IF p \in DOMAIN watch THEN watch[p] ELSE treeDisk[p]]
      /\ old' = (old \cup (T!Wanted \ DOMAIN watch)) \cap DOMAIN listings'
  BY DEF T!Logic, T!bounds
<1>2. PICK told \in SUBSET treeEvents :
        treeEvents' = treeEvents \ told /\ listings' = T!Invalidated(T!Stale(told))
  BY DEF T!Logic
<1>3. /\ DOMAIN listings' \subseteq DOMAIN listings
      /\ \A d \in DOMAIN listings' : listings'[d] = listings[d] /\ d \notin T!Stale(told)
  BY <1>2 DEF T!Invalidated, T!Restrict
<1>4. T!Wanted = IF active = TRUE THEN expanded \cap DOMAIN treeDisk ELSE {}
  BY DEF T!Wanted, TreeInv, TreeTypes
<1>5. TreeTypes'
  <2>1. DOMAIN watch' = T!Wanted /\ T!Wanted \subseteq T!Folders
    BY <1>1, <1>4 DEF TreeInv, TreeTypes
  <2>2. DOMAIN watch' # {} => active = TRUE /\ T!Root \in DOMAIN watch' /\ watch'[T!Root] = 1
    BY <1>1, <1>4, <2>1 DEF TreeInv, TreeTypes
  <2>3. active' = TRUE => T!Root \in DOMAIN watch'
    BY <1>1, <1>4, <2>1 DEF TreeInv, TreeTypes
  <2> QED BY <1>1, <1>3, <2>1, <2>2, <2>3 DEF TreeInv, TreeTypes
<1>6. Listed'
  <2> SUFFICES ASSUME NEW d \in (DOMAIN listings' \cap DOMAIN watch') \ old'
               PROVE  d \in T!Stale(treeEvents') \/ Fresh(d)'
    BY DEF Listed
  <2>1. d \in DOMAIN watch /\ d \notin old /\ watch'[d] = watch[d] /\ d \in DOMAIN listings
    BY <1>1, <1>3
  <2>2. d \in T!Stale(treeEvents) \/ Fresh(d)
    BY <2>1 DEF TreeInv, Listed
  <2>3. d \in T!Stale(treeEvents) => d \in T!Stale(treeEvents')
    BY <1>2, <1>3 DEF T!Stale
  <2>4. Fresh(d) => Fresh(d)'
    BY <1>1, <1>3, <2>1 DEF Fresh
  <2> QED BY <2>2, <2>3, <2>4
<1> QED BY <1>1, <1>5, <1>6 DEF TreeInv, Drawn, Numbered, Followed

LEMMA DrawTree == ASSUME TreeInv, T!Draw PROVE TreeInv'
<1>1. /\ UNCHANGED <<treeDisk, trashed, active, expanded, clipboard, treeHidden, watch, treeEvents, opened, made>>
      /\ phase = "draw" /\ phase' = "act" /\ active \in BOOLEAN
  BY DEF T!Draw, T!bounds, TreeInv, TreeTypes
<1>2. CASE active # TRUE
  <2>1. listings' = listings /\ old' = old
    BY <1>1, <1>2 DEF T!Draw
  <2>2. TreeTypes'
    BY <1>1, <1>2, <2>1 DEF TreeInv, TreeTypes
  <2>3. Listed'
    BY <1>1, <2>1, ListedSame DEF TreeInv
  <2>4. Drawn'
    BY <1>1, <1>2 DEF Drawn
  <2>5. Numbered' /\ Followed'
    BY <1>1 DEF TreeInv, Numbered, Followed
  <2> QED BY <2>2, <2>3, <2>4, <2>5 DEF TreeInv
<1>3. CASE active = TRUE
  <2>1. /\ DOMAIN listings' = T!Shown \cup DOMAIN listings
        /\ \A d \in DOMAIN listings' : listings'[d] = T!ListingOf(d)
        /\ old' = old \ {d \in T!Shown : d \notin DOMAIN listings}
    BY <1>1, <1>3 DEF T!Draw
  <2>2. /\ \A d : d \in DOMAIN listings => T!ListingOf(d) = listings[d]
        /\ \A d : d \notin DOMAIN listings => T!ListingOf(d) = T!Read(d)
    BY DEF T!ListingOf
  <2>3. \A d : T!Read(d) \subseteq T!Paths \ {T!Root}
    BY DEF T!Read, T!InIt, TreeInv, TreeTypes
  <2>4. T!Root \in T!Shown /\ T!Shown \subseteq T!Folders
    BY DEF T!Shown, T!Folders
  <2>5. TreeTypes'
    BY <1>1, <2>1, <2>2, <2>3, <2>4 DEF TreeInv, TreeTypes
  <2>6. Drawn'
    <3>1. T!Root \in DOMAIN listings' /\ listings'[T!Root] = T!ListingOf(T!Root)
      BY <2>1, <2>4
    <3> QED BY <1>1, <2>1, <3>1 DEF Drawn, T!Shown
  <2>7. Listed'
    <3> SUFFICES ASSUME NEW d \in (DOMAIN listings' \cap DOMAIN watch') \ old'
                 PROVE  d \in T!Stale(treeEvents') \/ Fresh(d)'
      BY DEF Listed
    <3>1. CASE d \in DOMAIN listings
      <4>1. d \in T!Stale(treeEvents) \/ Fresh(d)
        BY <1>1, <2>1, <3>1 DEF TreeInv, Listed
      <4>2. Fresh(d) => Fresh(d)'
        BY <1>1, <2>1, <2>2, <3>1 DEF Fresh
      <4> QED BY <1>1, <4>1, <4>2
    <3>2. CASE d \notin DOMAIN listings
      <4>1. listings'[d] = T!Read(d)
        BY <2>1, <2>2, <3>2
      <4> QED BY <1>1, <4>1 DEF Fresh, T!Read
    <3> QED BY <3>1, <3>2
  <2> QED BY <1>1, <2>5, <2>6, <2>7 DEF TreeInv, Numbered, Followed
<1> QED BY <1>2, <1>3

LEMMA InitTree == T!Init => TreeInv
<1> SUFFICES ASSUME T!Init PROVE TreeInv
  OBVIOUS
<1> DEFINE n == Cardinality(FolderNames)
           number == CHOOSE f \in [FolderNames -> 2 .. n + 1] : T!IsInjective(f)
<1>1. n \in Nat /\ ExistsBijection(1 .. n, FolderNames)
  BY FoldersFinite, FS_CardinalityType
<1>2. \E f \in [FolderNames -> 2 .. n + 1] : T!IsInjective(f)
  <2>1. PICK b \in [1 .. n -> FolderNames] : \A x \in FolderNames : \E i \in 1 .. n : b[i] = x
    BY <1>1 DEF ExistsBijection, Bijection, Surjection, Injection
  <2> DEFINE f == [x \in FolderNames |-> 1 + (CHOOSE i \in 1 .. n : b[i] = x)]
  <2>2. \A x \in FolderNames : (CHOOSE i \in 1 .. n : b[i] = x) \in 1 .. n /\ b[CHOOSE i \in 1 .. n : b[i] = x] = x
    BY <2>1
  <2>3. f \in [FolderNames -> 2 .. n + 1]
    BY <1>1, <2>2
  <2>4. \A x, y \in FolderNames : f[x] = f[y] => x = y
    BY <1>1, <2>2
  <2> QED BY <2>3, <2>4 DEF T!IsInjective
<1>3. number \in [FolderNames -> 2 .. n + 1] /\ \A x, y \in FolderNames : number[x] = number[y] => x = y
  BY <1>2 DEF T!IsInjective
<1>0. T!Cardinality(FolderNames) = n
  BY DEF T!Cardinality, Cardinality
<1>4. /\ DOMAIN treeDisk = {T!Root} \cup {<<x>> : x \in FolderNames} /\ treeDisk[T!Root] = 1
      /\ \A p \in DOMAIN treeDisk \ {T!Root} : treeDisk[p] = number[Head(p)]
      /\ made = n + 1
  BY <1>0 DEF T!Init
<1> HIDE DEF n, number
<1>5. /\ DOMAIN treeDisk = T!Folders /\ T!Folders \subseteq T!Paths /\ T!Root \in T!Folders
      /\ \A p \in T!Folders \ {T!Root} : \E x \in FolderNames : p = <<x>> /\ treeDisk[p] = number[x]
  <2>1. \A x \in FolderNames : Head(<<x>>) = x
    OBVIOUS
  <2> QED BY <1>4, <2>1 DEF T!Folders, T!Paths
<1>6. \A p \in T!Folders \ {T!Root} : T!Parent(p) = T!Root
  BY <1>5, ParentOf
<1>7. /\ trashed = <<>> /\ active = TRUE /\ phase = "logic" /\ expanded = {T!Root} /\ listings = <<>>
      /\ clipboard = T!Nothing /\ watch = <<>> /\ old = {} /\ opened = {1}
  BY DEF T!Init
<1>8. DOMAIN trashed = {} /\ DOMAIN listings = {} /\ DOMAIN watch = {}
  BY <1>7
<1>9. clipboard \in Clips /\ clipboard.item = 0
  BY <1>5, <1>7 DEF T!Nothing, Clips
<1>10. TreeTypes
  BY <1>1, <1>4, <1>5, <1>6, <1>7, <1>8, <1>9 DEF TreeTypes
<1>11. /\ \A p \in T!Folders \ {T!Root} : treeDisk[p] \in 2 .. n + 1
       /\ \A p, q \in T!Folders \ {T!Root} : treeDisk[p] = treeDisk[q] => p = q
  BY <1>3, <1>5
<1>12. Numbered
  BY <1>1, <1>4, <1>5, <1>7, <1>8, <1>9, <1>11 DEF Numbered
<1>13. Followed
  BY <1>1, <1>4, <1>5, <1>7, <1>9, <1>11 DEF Followed
<1> QED BY <1>7, <1>8, <1>10, <1>12, <1>13 DEF TreeInv, Listed, Drawn

LEMMA NextTree == ASSUME TreeInv, T!Next PROVE TreeInv'
BY LogicTree, DrawTree, ReadAgainTree, RestoreTree, SwitchTree, ToggleTree, CreateTree, CutTree, TrashTree,
   MoveTree, OutsideTree DEF T!Next, T!User

LEMMA TreeProperties == TreeInv => T!TreeIsTheDisk /\ T!MovesAreFollowed
<1> SUFFICES ASSUME TreeInv PROVE T!TreeIsTheDisk /\ T!MovesAreFollowed
  OBVIOUS
<1>1. T!MovesAreFollowed
  BY DEF TreeInv, Followed, T!MovesAreFollowed
<1>2. ASSUME phase = "act", active = TRUE, treeEvents = {}, NEW d \in T!Shown \ old,
             d \in DOMAIN watch, d \in DOMAIN treeDisk, watch[d] = treeDisk[d]
      PROVE  listings[d] = T!InIt(treeDisk, d) \ treeHidden
  <2>1. T!Root \in DOMAIN listings /\ listings[T!Root] \cap expanded \cap T!Folders \subseteq DOMAIN listings
    BY <1>2 DEF TreeInv, Drawn
  <2>2. d \in DOMAIN listings
    BY <2>1 DEF T!Shown, T!ListingOf
  <2>3. d \notin T!Stale(treeEvents)
    BY <1>2 DEF T!Stale
  <2> QED BY <1>2, <2>2, <2>3 DEF TreeInv, Listed, Fresh
<1>3. active \in BOOLEAN
  BY DEF TreeInv, TreeTypes
<1> QED BY <1>1, <1>2, <1>3 DEF T!TreeIsTheDisk

(* However other programs' changes, their events, the frames, the tree's own
   operations and the switches between projects meet: once the news has arrived
   and been drawn, a folder on screen that was listed since its watch was set
   lists what is on disk, less what is hidden; and what was cut, copied or
   expanded is followed wherever the tree moves it (explorer.rs listing,
   follow_move; app.rs process_watch; watch.rs sync). *)
THEOREM TreeStaysTrue == Spec => []TreeFollows
<1>1. Init => (part = "tree" => TreeInv)
  BY InitTree DEF Init
<1>2. (part = "tree" => TreeInv) /\ [Next]_vars => (part = "tree" => TreeInv)'
  <2>1. UNCHANGED TVars /\ TreeInv => TreeInv'
    BY DEF TVars, TreeInv, TreeTypes, Listed, Fresh, Drawn, Numbered, Followed
  <2> QED BY <2>1, NextTree DEF Next, vars
<1>3. (part = "tree" => TreeInv) => TreeFollows
  BY TreeProperties DEF TreeFollows
<1> QED BY <1>1, <1>2, <1>3, PTL DEF Spec
=============================================================================
