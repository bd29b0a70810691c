--------------------------- MODULE PreviewsProofs ---------------------------
(***************************************************************************)
(* What is proved of a Markdown preview, for any files and views, any      *)
(* blocks, timing and history sizes: what it takes for shown is on screen, *)
(* it is never late, it and the editor never chase each other, and its     *)
(* history is a run of the places shown.  WorkbenchPartsProofs has the     *)
(* theorem these lemmas are for.                                           *)
(***************************************************************************)
EXTENDS PreviewPart, FiniteSetTheorems, FunctionTheorems, SequenceTheorems, TLAPS

(***************************************************************************)
(* The history                                                             *)
(***************************************************************************)
LEMMA MinIs == ASSUME NEW a \in Int, NEW b \in Int
               PROVE  V!Min({a, b}) = IF a <= b THEN a ELSE b
BY DEF V!Min

LEMMA MaxIs == ASSUME NEW a \in Int, NEW b \in Int
               PROVE  V!Max({a, b}) = IF a >= b THEN a ELSE b
BY DEF V!Max

PlaceType == [path : MarkdownFiles, scroll : Int]
ConfigType == [path : MarkdownFiles, history : Seq(PlaceType), at : Nat]
TrailType == [places : Seq(PlaceType), at : Nat]

(* The history is a run of the places shown. *)
RunOf(c, t) ==
    /\ c.at \in 1 .. Len(c.history) /\ c.history[c.at].path = c.path
    /\ t.at \in 1 .. Len(t.places) /\ t.places[t.at].path = c.path
    /\ t.at >= c.at /\ t.at - c.at + Len(c.history) <= Len(t.places)
    /\ \A i \in 1 .. Len(c.history) : i # c.at => c.history[i] = t.places[t.at - c.at + i]
Recorded(c, t) ==
    /\ t.at \in 1 .. Len(t.places) /\ t.places[t.at].path = c.path
    /\ c.history = <<>> => c.at = 1
    /\ c.history # <<>> => RunOf(c, t) /\ \E n \in Caps : Len(c.history) <= n

LEMMA StartedIs ==
    ASSUME NEW c \in ConfigType, NEW t \in TrailType, Recorded(c, t)
    PROVE  /\ V!Started(c) \in ConfigType /\ V!Started(c).path = c.path
           /\ RunOf(V!Started(c), t) /\ \E n \in Caps : Len(V!Started(c).history) <= n
<1>1. CASE c.history # <<>>
  <2>1. V!Started(c) = c
    BY <1>1 DEF V!Started, Recorded, RunOf
  <2> QED BY <1>1, <2>1 DEF Recorded
<1>2. CASE c.history = <<>>
  <2>1. V!Started(c) = [path |-> c.path, history |-> <<V!Place(c.path, 0)>>, at |-> 1]
    <3>1. c = [path |-> c.path, history |-> c.history, at |-> c.at] /\ c.at = 1
      BY <1>2 DEF Recorded, ConfigType
    <3>2. ~(c.at \in DOMAIN c.history)
      BY <1>2
    <3>3. V!Started(c) = [c EXCEPT !.history = <<V!Place(c.path, 0)>>, !.at = 1]
      BY <3>2 DEF V!Started
    <3> QED BY <3>1, <3>3
  <2>2. V!Place(c.path, 0) \in PlaceType /\ V!Place(c.path, 0).path = c.path
    BY DEF V!Place, PlaceType, ConfigType
  <2>3. PICK x \in PlaceType : x = V!Place(c.path, 0)
    BY <2>2
  <2>4. <<x>> \in Seq(PlaceType) /\ Len(<<x>>) = 1 /\ <<x>>[1] = x
    OBVIOUS
  <2>5. \A i \in 1 .. 1 : i = 1
    OBVIOUS
  <2>6. PICK n \in Caps : 1 <= n
    BY PreviewsSound
  <2> QED BY <1>2, <2>1, <2>2, <2>3, <2>4, <2>5, <2>6 DEF Recorded, RunOf, ConfigType, TrailType
<1> QED BY <1>1, <1>2

(* Places dropped from the front, and those too many behind the current one. *)
LEMMA CappedIs ==
    ASSUME NEW c \in ConfigType, NEW t \in TrailType, RunOf(c, t), NEW n \in Caps
    PROVE  /\ V!Capped(c, n) \in ConfigType /\ V!Capped(c, n).path = c.path
           /\ RunOf(V!Capped(c, n), t) /\ Len(V!Capped(c, n).history) <= n
<1>1. PICK h \in Seq(PlaceType), len \in Nat, a \in Nat, b \in Nat, pl \in Seq(PlaceType) :
          h = c.history /\ len = Len(c.history) /\ a = c.at /\ b = t.at /\ pl = t.places
  BY DEF ConfigType, TrailType
<1>2. /\ a \in 1 .. len /\ h[a].path = c.path /\ len = Len(h) /\ Len(pl) \in Nat
      /\ b \in 1 .. Len(pl) /\ pl[b].path = c.path /\ b >= a /\ b - a + len <= Len(pl)
      /\ \A i \in 1 .. len : i # a => h[i] = pl[b - a + i]
  BY <1>1 DEF RunOf, TrailType
<1>3. n \in Nat \ {0} /\ h # <<>>
  BY <1>2, PreviewsSound
<1>4. PICK m : m = V!Max({len - n, 0})
  OBVIOUS
<1>5. m \in Nat /\ m = IF len - n >= 0 THEN len - n ELSE 0
  BY <1>3, <1>4, MaxIs
<1>6. PICK drop : drop = V!Min({m, a - 1})
  OBVIOUS
<1>7. drop \in Nat /\ drop <= a - 1 /\ drop <= m /\ (drop = a - 1 \/ drop = m)
  BY <1>2, <1>5, <1>6, MinIs
<1>8. PICK at \in Nat : at = a - drop
  BY <1>2, <1>7
<1>9. at \in 1 .. n
  BY <1>2, <1>3, <1>5, <1>7, <1>8
<1>10. V!Max({n, at}) = n /\ V!Max({n, 1}) = n
  BY <1>3, <1>9, MaxIs
<1>11. PICK last : last = V!Min({len, drop + n})
  OBVIOUS
<1>12. last \in Nat /\ last <= len /\ last <= drop + n /\ drop + at <= last
  <2>1. len \in Int /\ drop + n \in Int /\ drop + at = a /\ drop + at <= drop + n /\ drop + at <= len
    BY <1>2, <1>3, <1>7, <1>8, <1>9
  <2>2. last = IF len <= drop + n THEN len ELSE drop + n
    BY <1>11, <2>1, MinIs
  <2> QED BY <1>3, <1>7, <2>1, <2>2
<1>13. PICK s : s = SubSeq(h, drop + 1, last)
  OBVIOUS
<1>14. V!Capped(c, n) = [path |-> c.path, history |-> s, at |-> at]
  <2>1. c = [path |-> c.path, history |-> c.history, at |-> c.at]
    BY DEF ConfigType
  <2>2. V!Capped(c, n) = [c EXCEPT !.at = at, !.history = s]
    BY <1>1, <1>3, <1>4, <1>6, <1>8, <1>10, <1>11, <1>13 DEF V!Capped
  <2> QED BY <2>1, <2>2
<1>15. s \in Seq(PlaceType) /\ Len(s) = last - drop /\ \A i \in 1 .. last - drop : s[i] = h[drop + i]
  <2>1. drop + 1 \in 1 .. Len(h) + 1 /\ last \in (drop + 1) - 1 .. Len(h)
    BY <1>2, <1>7, <1>8, <1>12
  <2>2. /\ s \in Seq(PlaceType) /\ Len(s) = last - (drop + 1) + 1
        /\ \A i \in 1 .. last - (drop + 1) + 1 : s[i] = h[(drop + 1) + i - 1]
    BY <1>13, <2>1, SubSeqProperties
  <2>3. last - (drop + 1) + 1 = last - drop
    BY <1>7, <1>12
  <2>4. ASSUME NEW i \in 1 .. last - drop PROVE s[i] = h[drop + i]
    <3>1. i \in 1 .. last - (drop + 1) + 1 /\ (drop + 1) + i - 1 = drop + i
      BY <1>7, <1>12, <2>3
    <3>2. s[i] = h[(drop + 1) + i - 1]
      BY <2>2, <3>1
    <3> QED BY <3>1, <3>2
  <2> QED BY <2>2, <2>3, <2>4
<1>16. Len(s) \in Nat /\ at \in 1 .. Len(s) /\ s[at].path = c.path /\ Len(s) <= n
  <2>1. drop + at = a /\ last - drop \in Nat /\ at \in 1 .. last - drop
    BY <1>2, <1>7, <1>8, <1>9, <1>12
  <2>2. Len(s) <= n
    BY <1>3, <1>7, <1>12, <1>15, <2>1
  <2>3. s[at] = h[a]
    BY <1>15, <2>1
  <2> QED BY <1>2, <1>15, <2>1, <2>2, <2>3
<1>17. b >= at /\ b - at + Len(s) <= Len(pl)
  BY <1>2, <1>7, <1>8, <1>12, <1>15
<1>18. \A i \in 1 .. Len(s) : i # at => s[i] = pl[b - at + i]
  <2> SUFFICES ASSUME NEW i \in 1 .. Len(s), i # at PROVE s[i] = pl[b - at + i]
    OBVIOUS
  <2>1. drop + i \in 1 .. len /\ drop + i # a /\ s[i] = h[drop + i]
    BY <1>2, <1>7, <1>8, <1>12, <1>15
  <2>2. b - a + (drop + i) = b - at + i
    BY <1>7, <1>8
  <2> QED BY <1>2, <2>1, <2>2
<1>19. V!Capped(c, n) \in ConfigType
  BY <1>14, <1>15 DEF ConfigType
<1> QED BY <1>1, <1>2, <1>14, <1>16, <1>17, <1>18, <1>19 DEF RunOf

(* What the browser would keep once a place is opened. *)
OnTrail(t, scroll, path) ==
    [places |-> Append([SubSeq(t.places, 1, t.at) EXCEPT ![t.at].scroll = scroll], V!Place(path, 0)),
     at |-> t.at + 1]

(* The places up to one, that one left at a scroll: as the history is cut, and as the trail is. *)
CutAt(h, a, scroll) == SubSeq([h EXCEPT ![a].scroll = scroll], 1, a)
LeftOf(h, a, scroll) == [SubSeq(h, 1, a) EXCEPT ![a].scroll = scroll]
LEMMA LeftAt ==
    ASSUME NEW h \in Seq(PlaceType), NEW a \in 1 .. Len(h), NEW scroll \in Int, NEW s,
           s = LeftOf(h, a, scroll) \/ s = CutAt(h, a, scroll)
    PROVE  /\ s \in Seq(PlaceType) /\ Len(s) = a
           /\ \A i \in 1 .. a - 1 : s[i] = h[i]
           /\ s[a] = V!Place(h[a].path, scroll)
<1>1. PICK x : x = [h[a] EXCEPT !.scroll = scroll]
  OBVIOUS
<1>2. x \in PlaceType /\ x = V!Place(h[a].path, scroll)
  <2>1. h[a] \in PlaceType
    OBVIOUS
  <2> QED BY <1>1, <2>1 DEF PlaceType, V!Place
<1>3. \A i \in 1 .. a : h[i] \in PlaceType /\ i \in 1 .. Len(h)
  OBVIOUS
<1>4. PICK r : r = [i \in 1 .. a |-> IF i = a THEN x ELSE h[i]]
  OBVIOUS
<1>5. s = r
  <2>1. CASE s = LeftOf(h, a, scroll)
    <3>1. SubSeq(h, 1, a) = [i \in 1 .. a |-> h[i]]
      <4>1. SubSeq(h, 1, a) = [i \in 1 .. (1 + a - 1) |-> h[i + 1 - 1]]
        OBVIOUS
      <4>2. 1 + a - 1 = a /\ \A i \in 1 .. a : i + 1 - 1 = i
        OBVIOUS
      <4> QED BY <4>1, <4>2
    <3>2. PICK u : u = SubSeq(h, 1, a)
      OBVIOUS
    <3>3. s = [u EXCEPT ![a] = [u[a] EXCEPT !.scroll = scroll]]
      BY <2>1, <3>2 DEF LeftOf
    <3> QED BY <1>1, <1>4, <3>1, <3>2, <3>3
  <2>2. CASE s = CutAt(h, a, scroll)
    <3>1. PICK u : u = [h EXCEPT ![a].scroll = scroll]
      OBVIOUS
    <3>2. u = [h EXCEPT ![a] = x]
      BY <1>1, <3>1
    <3>3. \A i \in 1 .. a : u[i] = IF i = a THEN x ELSE h[i]
      BY <1>3, <3>2
    <3>4. SubSeq(u, 1, a) = [i \in 1 .. a |-> u[i]]
      <4>1. SubSeq(u, 1, a) = [i \in 1 .. (1 + a - 1) |-> u[i + 1 - 1]]
        OBVIOUS
      <4>2. 1 + a - 1 = a /\ \A i \in 1 .. a : i + 1 - 1 = i
        OBVIOUS
      <4> QED BY <4>1, <4>2
    <3> QED BY <1>4, <2>2, <3>1, <3>3, <3>4 DEF CutAt
  <2> QED BY <2>1, <2>2
<1>6. r \in Seq(PlaceType) /\ Len(r) = a
  <2>1. r \in [1 .. a -> PlaceType] /\ a \in Nat
    BY <1>2, <1>3, <1>4
  <2> QED BY <2>1
<1> QED BY <1>2, <1>4, <1>5, <1>6

LEMMA OpenedIs ==
    ASSUME NEW c \in ConfigType, NEW t \in TrailType, Recorded(c, t),
           NEW path \in MarkdownFiles, NEW scroll \in Int, NEW n \in Caps
    PROVE  /\ V!Opened(c, path, scroll, n) \in ConfigType /\ V!Opened(c, path, scroll, n).path = path
           /\ OnTrail(t, scroll, path) \in TrailType
           /\ Recorded(V!Opened(c, path, scroll, n), OnTrail(t, scroll, path))
<1>1. PICK s \in ConfigType : s = V!Started(c)
  BY StartedIs
<1>2. RunOf(s, t) /\ s.path = c.path
  BY <1>1, StartedIs
<1>3. PICK h \in Seq(PlaceType), a \in Nat, pl \in Seq(PlaceType), b \in Nat :
          h = s.history /\ a = s.at /\ pl = t.places /\ b = t.at
  BY DEF ConfigType, TrailType
<1>4. /\ a \in 1 .. Len(h) /\ h[a].path = c.path /\ Len(h) \in Nat /\ Len(pl) \in Nat
      /\ b \in 1 .. Len(pl) /\ pl[b].path = c.path /\ b >= a /\ b - a + Len(h) <= Len(pl)
      /\ \A i \in 1 .. Len(h) : i # a => h[i] = pl[b - a + i]
  BY <1>2, <1>3 DEF RunOf
<1>5. PICK left : left = CutAt(h, a, scroll)
  OBVIOUS
<1>6. PICK been : been = LeftOf(pl, b, scroll)
  OBVIOUS
<1>7. /\ left \in Seq(PlaceType) /\ Len(left) = a /\ \A i \in 1 .. a - 1 : left[i] = h[i]
      /\ left[a] = V!Place(c.path, scroll)
  <2>1. /\ left \in Seq(PlaceType) /\ Len(left) = a /\ \A i \in 1 .. a - 1 : left[i] = h[i]
        /\ left[a] = V!Place(h[a].path, scroll)
    BY <1>4, <1>5, LeftAt
  <2> QED BY <1>4, <2>1
<1>8. /\ been \in Seq(PlaceType) /\ Len(been) = b /\ \A i \in 1 .. b - 1 : been[i] = pl[i]
      /\ been[b] = V!Place(c.path, scroll)
  <2>1. /\ been \in Seq(PlaceType) /\ Len(been) = b /\ \A i \in 1 .. b - 1 : been[i] = pl[i]
        /\ been[b] = V!Place(pl[b].path, scroll)
    BY <1>4, <1>6, LeftAt
  <2> QED BY <1>4, <2>1
<1>9. PICK x \in PlaceType : x = V!Place(path, 0) /\ x.path = path
  <2>1. V!Place(path, 0) \in PlaceType /\ V!Place(path, 0).path = path
    BY DEF V!Place, PlaceType
  <2> QED BY <2>1
<1>10. PICK m, p : m = Append(left, x) /\ p = Append(been, x)
  OBVIOUS
<1>11. /\ m \in Seq(PlaceType) /\ Len(m) = a + 1 /\ m[a + 1] = x /\ \A i \in 1 .. a : m[i] = left[i]
       /\ p \in Seq(PlaceType) /\ Len(p) = b + 1 /\ p[b + 1] = x /\ \A i \in 1 .. b : p[i] = been[i]
  BY <1>7, <1>8, <1>9, <1>10
<1>12. PICK o : o = [path |-> path, at |-> a + 1, history |-> m]
  OBVIOUS
<1>13. PICK u : u = OnTrail(t, scroll, path)
  OBVIOUS
<1>14. u = [places |-> p, at |-> b + 1]
  BY <1>3, <1>6, <1>9, <1>10, <1>13 DEF OnTrail, LeftOf
<1>15. o \in ConfigType /\ u \in TrailType
  BY <1>11, <1>12, <1>14 DEF ConfigType, TrailType
<1>16. RunOf(o, u)
  <2>1. ASSUME NEW i \in 1 .. a PROVE m[i] = p[b - a + i]
    <3>1. b - a + i \in 1 .. b /\ (i = a => b - a + i = b) /\ (i # a => i \in 1 .. a - 1 /\ b - a + i \in 1 .. b - 1)
      BY <1>4
    <3>2. m[i] = left[i] /\ p[b - a + i] = been[b - a + i]
      BY <1>11, <3>1
    <3>3. CASE i = a
      BY <1>7, <1>8, <3>1, <3>2, <3>3
    <3>4. CASE i # a
      <4>0. i \in 1 .. Len(h)
        BY <1>4
      <4>1. left[i] = h[i] /\ been[b - a + i] = pl[b - a + i]
        BY <1>7, <1>8, <3>1, <3>4
      <4>2. h[i] = pl[b - a + i]
        BY <1>4, <3>4, <4>0
      <4> QED BY <3>2, <4>1, <4>2
    <3> QED BY <3>3, <3>4
  <2>2. b + 1 - (a + 1) = b - a /\ b + 1 >= a + 1 /\ b - a + (a + 1) <= b + 1 /\ a + 1 \in 1 .. a + 1 /\ b + 1 \in 1 .. b + 1
    BY <1>4
  <2>3. \A i \in 1 .. a + 1 : i # a + 1 => i \in 1 .. a
    OBVIOUS
  <2>4. \A i \in 1 .. a + 1 : i # a + 1 => m[i] = p[b + 1 - (a + 1) + i]
    BY <2>1, <2>2, <2>3
  <2> QED BY <1>9, <1>11, <1>12, <1>14, <2>2, <2>4 DEF RunOf
<1>17. V!Opened(c, path, scroll, n) = V!Capped(o, n)
  BY <1>1, <1>3, <1>5, <1>9, <1>10, <1>12 DEF V!Opened, CutAt
<1>18. /\ V!Capped(o, n) \in ConfigType /\ V!Capped(o, n).path = path
       /\ RunOf(V!Capped(o, n), u) /\ Len(V!Capped(o, n).history) <= n
  BY <1>12, <1>15, <1>16, CappedIs
<1>19. V!Capped(o, n).history # <<>>
  BY <1>18 DEF RunOf
<1> QED BY <1>13, <1>15, <1>17, <1>18, <1>19 DEF Recorded, RunOf

(* What is recorded stays so when the history is cut to the size set. *)
LEMMA CappedRecorded ==
    ASSUME NEW c \in ConfigType, NEW t \in TrailType, Recorded(c, t), NEW n \in Caps
    PROVE  V!Capped(c, n) \in ConfigType /\ Recorded(V!Capped(c, n), t) /\ V!Capped(c, n).path = c.path
<1>1. CASE c.history = <<>>
  BY <1>1 DEF V!Capped
<1>2. CASE c.history # <<>>
  <2>1. RunOf(c, t)
    BY <1>2 DEF Recorded
  <2>2. /\ V!Capped(c, n) \in ConfigType /\ V!Capped(c, n).path = c.path
        /\ RunOf(V!Capped(c, n), t) /\ Len(V!Capped(c, n).history) <= n
    BY <2>1, CappedIs
  <2>3. V!Capped(c, n).history # <<>>
    BY <2>2 DEF RunOf
  <2> QED BY <2>2, <2>3 DEF Recorded, RunOf
<1> QED BY <1>1, <1>2

(* Going back or forward: the place left keeps where it was scrolled to. *)
GoneTo(c, to, scroll) ==
    [path |-> c.history[to].path, at |-> to, history |-> [c.history EXCEPT ![c.at].scroll = scroll]]
TrailTo(t, by, scroll) == [places |-> [t.places EXCEPT ![t.at].scroll = scroll], at |-> t.at + by]

ScrolledTo(h, a, scroll) == [h EXCEPT ![a].scroll = scroll]

LEMMA ScrolledAt ==
    ASSUME NEW h \in Seq(PlaceType), NEW a \in 1 .. Len(h), NEW scroll \in Int, NEW s,
           s = ScrolledTo(h, a, scroll)
    PROVE  /\ s \in Seq(PlaceType) /\ Len(s) = Len(h)
           /\ \A i \in 1 .. Len(h) : i # a => s[i] = h[i]
           /\ s[a] = V!Place(h[a].path, scroll)
<1>1. PICK x : x = [h[a] EXCEPT !.scroll = scroll]
  OBVIOUS
<1>2. x \in PlaceType /\ x = V!Place(h[a].path, scroll)
  <2>1. h[a] \in PlaceType
    OBVIOUS
  <2> QED BY <1>1, <2>1 DEF PlaceType, V!Place
<1>3. s = [h EXCEPT ![a] = x]
  BY <1>1 DEF ScrolledTo
<1> QED BY <1>2, <1>3

LEMMA SteppedIs ==
    ASSUME NEW c \in ConfigType, NEW t \in TrailType, RunOf(c, t), NEW n \in Caps, Len(c.history) <= n,
           NEW by \in Int, by # 0, c.at + by \in 1 .. Len(c.history), NEW scroll \in Int
    PROVE  /\ GoneTo(c, c.at + by, scroll) \in ConfigType /\ TrailTo(t, by, scroll) \in TrailType
           /\ Recorded(GoneTo(c, c.at + by, scroll), TrailTo(t, by, scroll))
           /\ c.history[c.at + by] \in PlaceType
<1>1. PICK h \in Seq(PlaceType), a \in Nat, pl \in Seq(PlaceType), b \in Nat :
          h = c.history /\ a = c.at /\ pl = t.places /\ b = t.at
  BY DEF ConfigType, TrailType
<1>2. /\ a \in 1 .. Len(h) /\ h[a].path = c.path /\ Len(h) \in Nat /\ Len(pl) \in Nat
      /\ b \in 1 .. Len(pl) /\ pl[b].path = c.path /\ b >= a /\ b - a + Len(h) <= Len(pl)
      /\ \A i \in 1 .. Len(h) : i # a => h[i] = pl[b - a + i]
  BY <1>1 DEF RunOf
<1>3. PICK to \in 1 .. Len(h) : to = a + by
  BY <1>1
<1>4. PICK s : s = ScrolledTo(h, a, scroll)
  OBVIOUS
<1>5. PICK been : been = ScrolledTo(pl, b, scroll)
  OBVIOUS
<1>6. /\ s \in Seq(PlaceType) /\ Len(s) = Len(h) /\ \A i \in 1 .. Len(h) : i # a => s[i] = h[i]
      /\ s[a] = V!Place(h[a].path, scroll)
  BY <1>2, <1>4, ScrolledAt
<1>7. /\ been \in Seq(PlaceType) /\ Len(been) = Len(pl) /\ \A i \in 1 .. Len(pl) : i # b => been[i] = pl[i]
      /\ been[b] = V!Place(pl[b].path, scroll)
  BY <1>2, <1>5, ScrolledAt
<1>8. to # a /\ b + by \in 1 .. Len(pl) /\ b + by # b /\ b - a + to = b + by
  BY <1>2, <1>3
<1>9. h[to] \in PlaceType /\ s[to] = h[to] /\ been[b + by] = pl[b + by] /\ h[to] = pl[b + by]
  <2>1. h[to] = pl[b - a + to]
    BY <1>2, <1>8
  <2>2. h[to] \in PlaceType
    BY <1>3
  <2>3. s[to] = h[to]
    BY <1>6, <1>8
  <2>4. been[b + by] = pl[b + by]
    BY <1>7, <1>8
  <2> QED BY <1>8, <2>1, <2>2, <2>3, <2>4
<1>10. PICK o, u : o = GoneTo(c, c.at + by, scroll) /\ u = TrailTo(t, by, scroll)
  OBVIOUS
<1>11. o = [path |-> h[to].path, at |-> to, history |-> s] /\ u = [places |-> been, at |-> b + by]
  BY <1>1, <1>3, <1>4, <1>5, <1>10 DEF GoneTo, TrailTo, ScrolledTo
<1>12. o \in ConfigType /\ u \in TrailType
  <2>1. h[to].path \in MarkdownFiles /\ to \in Nat /\ b + by \in Nat
    BY <1>8, <1>9 DEF PlaceType
  <2> QED BY <1>6, <1>7, <1>11, <2>1 DEF ConfigType, TrailType
<1>13. \A i \in 1 .. Len(h) : i # to => s[i] = been[b + by - to + i]
  <2> SUFFICES ASSUME NEW i \in 1 .. Len(h), i # to PROVE s[i] = been[b + by - to + i]
    OBVIOUS
  <2>1. b + by - to + i = b - a + i /\ b - a + i \in 1 .. Len(pl) /\ (i # a => b - a + i # b) /\ (i = a => b - a + i = b)
    BY <1>2, <1>3
  <2>2. CASE i = a
    BY <1>2, <1>6, <1>7, <2>1, <2>2
  <2>3. CASE i # a
    BY <1>2, <1>6, <1>7, <2>1, <2>3
  <2> QED BY <2>2, <2>3
<1>14. b + by >= to /\ b + by - to + Len(h) <= Len(pl)
  BY <1>2, <1>3
<1>15. RunOf(o, u)
  <2>1. o.at = to /\ o.history = s /\ o.path = h[to].path /\ u.at = b + by /\ u.places = been
    BY <1>11
  <2>2. /\ to \in 1 .. Len(s) /\ s[to].path = h[to].path
        /\ b + by \in 1 .. Len(been) /\ been[b + by].path = h[to].path
        /\ b + by >= to /\ b + by - to + Len(s) <= Len(been)
        /\ \A i \in 1 .. Len(s) : i # to => s[i] = been[b + by - to + i]
    BY <1>6, <1>7, <1>8, <1>9, <1>13, <1>14
  <2>3. o.at \in 1 .. Len(o.history) /\ o.history[o.at].path = o.path
    BY <2>1, <2>2
  <2>4. u.at \in 1 .. Len(u.places) /\ u.places[u.at].path = o.path
    BY <2>1, <2>2
  <2>5. u.at >= o.at /\ u.at - o.at + Len(o.history) <= Len(u.places)
    BY <2>1, <2>2
  <2>6. \A i \in 1 .. Len(o.history) : i # o.at => o.history[i] = u.places[u.at - o.at + i]
    BY <2>1, <2>2
  <2> QED BY <2>3, <2>4, <2>5, <2>6 DEF RunOf
<1>16. o.history # <<>> /\ Len(o.history) <= n
  BY <1>1, <1>2, <1>6, <1>11
<1> QED BY <1>1, <1>3, <1>9, <1>10, <1>12, <1>15, <1>16 DEF Recorded, RunOf

(* A renamed file is renamed wherever it is named. *)
LEMMA AllMovedIs ==
    ASSUME NEW f \in MarkdownFiles, NEW g \in MarkdownFiles, NEW h \in Seq(PlaceType)
    PROVE  /\ V!AllMoved(f, g, h) \in Seq(PlaceType) /\ Len(V!AllMoved(f, g, h)) = Len(h)
           /\ \A i \in 1 .. Len(h) : /\ V!AllMoved(f, g, h)[i] = V!Moved(f, g, h[i])
                                     /\ V!AllMoved(f, g, h)[i].path = V!To(f, g, h[i].path)
<1>1. PICK len \in Nat : len = Len(h) /\ DOMAIN h = 1 .. len
  OBVIOUS
<1>2. ASSUME NEW x \in PlaceType
      PROVE  V!Moved(f, g, x) \in PlaceType /\ V!Moved(f, g, x).path = V!To(f, g, x.path)
  BY DEF V!Moved, V!To, PlaceType
<1>3. \A i \in 1 .. len : h[i] \in PlaceType
  BY <1>1
<1>4. V!AllMoved(f, g, h) = [i \in 1 .. len |-> V!Moved(f, g, h[i])]
  BY <1>1 DEF V!AllMoved
<1>5. PICK m : m = V!AllMoved(f, g, h)
  OBVIOUS
<1>6. m \in [1 .. len -> PlaceType] /\ \A i \in 1 .. len : m[i] = V!Moved(f, g, h[i]) /\ m[i].path = V!To(f, g, h[i].path)
  BY <1>2, <1>3, <1>4, <1>5
<1>7. m \in Seq(PlaceType) /\ Len(m) = len
  BY <1>6
<1> QED BY <1>1, <1>5, <1>6, <1>7

RenamedIn(c, f, g) == [c EXCEPT !.path = V!To(f, g, c.path), !.history = V!AllMoved(f, g, c.history)]
RenamedTrail(t, f, g) == [t EXCEPT !.places = V!AllMoved(f, g, t.places)]

LEMMA RenamedRecorded ==
    ASSUME NEW c \in ConfigType, NEW t \in TrailType, Recorded(c, t),
           NEW f \in MarkdownFiles, NEW g \in MarkdownFiles, NEW o, NEW u,
           o = RenamedIn(c, f, g), u = RenamedTrail(t, f, g)
    PROVE  o \in ConfigType /\ u \in TrailType /\ Recorded(o, u) /\ o.path = V!To(f, g, c.path)
<1>1. PICK h \in Seq(PlaceType), a \in Nat, pl \in Seq(PlaceType), b \in Nat :
          h = c.history /\ a = c.at /\ pl = t.places /\ b = t.at
  BY DEF ConfigType, TrailType
<1>2. PICK m, q : m = V!AllMoved(f, g, h) /\ q = V!AllMoved(f, g, pl)
  OBVIOUS
<1>3. /\ m \in Seq(PlaceType) /\ Len(m) = Len(h)
      /\ \A i \in 1 .. Len(h) : m[i] = V!Moved(f, g, h[i]) /\ m[i].path = V!To(f, g, h[i].path)
      /\ q \in Seq(PlaceType) /\ Len(q) = Len(pl)
      /\ \A i \in 1 .. Len(pl) : q[i] = V!Moved(f, g, pl[i]) /\ q[i].path = V!To(f, g, pl[i].path)
  BY <1>2, AllMovedIs
<1>4. PICK now : now = V!To(f, g, c.path)
  OBVIOUS
<1>5. o = [path |-> now, history |-> m, at |-> a] /\ u = [places |-> q, at |-> b]
  BY <1>1, <1>2, <1>4 DEF ConfigType, TrailType, RenamedIn, RenamedTrail
<1>6. now \in MarkdownFiles
  BY <1>4 DEF V!To, ConfigType
<1>7. o \in ConfigType /\ u \in TrailType
  BY <1>3, <1>5, <1>6 DEF ConfigType, TrailType
<1>11. o.at = a /\ o.history = m /\ o.path = now /\ u.at = b /\ u.places = q
  <2>1. o.at = a /\ o.history = m /\ o.path = now
    BY <1>5
  <2>2. u.at = b /\ u.places = q
    BY <1>5
  <2> QED BY <2>1, <2>2
<1>8. b \in 1 .. Len(q) /\ q[b].path = now /\ (m = <<>> => a = 1)
  BY <1>1, <1>3, <1>4 DEF Recorded
<1>9. CASE m # <<>>
  <2>1. h # <<>>
    BY <1>3, <1>9
  <2>2. /\ a \in 1 .. Len(h) /\ h[a].path = c.path /\ Len(h) \in Nat /\ Len(pl) \in Nat
        /\ b >= a /\ b - a + Len(h) <= Len(pl)
        /\ \A i \in 1 .. Len(h) : i # a => h[i] = pl[b - a + i]
    BY <1>1, <2>1 DEF RunOf, Recorded
  <2>3. \A i \in 1 .. Len(h) : b - a + i \in 1 .. Len(pl)
    BY <2>2
  <2>4. \A i \in 1 .. Len(h) : i # a => m[i] = q[b - a + i]
    BY <1>3, <2>2, <2>3
  <2>5. RunOf(o, u)
    <3>1. a \in 1 .. Len(m) /\ m[a].path = now
      BY <1>3, <1>4, <2>2
    <3> QED BY <1>3, <1>8, <1>11, <2>2, <2>4, <3>1 DEF RunOf
  <2>6. \E n \in Caps : Len(m) <= n
    BY <1>1, <1>3, <2>1 DEF Recorded
  <2> QED BY <1>4, <1>7, <1>8, <1>9, <1>11, <2>5, <2>6 DEF Recorded
<1>10. CASE m = <<>>
  BY <1>4, <1>7, <1>8, <1>10, <1>11 DEF Recorded
<1> QED BY <1>9, <1>10

(***************************************************************************)
(* Files, documents and what a view shows                                  *)
(***************************************************************************)
DocType == [id : Nat, version : Nat, text : Nat, top : Int, ask : Int, drawn : BOOLEAN]

FilesTrue ==
    /\ reading \in Nat
    /\ previewed \in [MarkdownFiles -> [text : Nat, stamp : Int]]
    /\ doc \in [MarkdownFiles -> DocType \cup {V!NoDoc}]
    /\ \A f \in MarkdownFiles : /\ previewed[f].text = V!Gone <=> previewed[f].stamp = V!None
                                /\ previewed[f].stamp <= reading
    /\ \A f, g \in MarkdownFiles :
          f # g /\ previewed[f].stamp = previewed[g].stamp => previewed[f].stamp = V!None
    /\ \A f \in MarkdownFiles : doc[f] # V!NoDoc => doc[f].id <= reading /\ doc[f].text # V!Gone
    /\ \A f, g \in MarkdownFiles : f # g /\ doc[f].id = doc[g].id => doc[f] = V!NoDoc /\ doc[g] = V!NoDoc

LEMMA DocIs == ASSUME NEW d \in DocType \cup {V!NoDoc}
               PROVE  /\ d # V!NoDoc <=> d \in DocType
                      /\ d # V!NoDoc <=> d.id # V!None
BY DEF DocType, V!NoDoc, V!None

FilesKept == UNCHANGED <<previewed, doc, reading>>
LEMMA SameFiles == ASSUME FilesTrue, FilesKept PROVE FilesTrue'
BY DEF FilesTrue, FilesKept

(* A document changed, or its editor scrolled. *)
OnlyDoc(f, d) == doc' = [doc EXCEPT ![f] = d] /\ previewed' = previewed
Numbered(f, d) ==
    /\ reading' \in Nat /\ reading <= reading' /\ d.id <= reading' /\ d.text # V!Gone
    /\ d.id = doc[f].id \/ (d.id = reading + 1 /\ reading' = reading + 1)

LEMMA DocChanged ==
    ASSUME FilesTrue, NEW f \in MarkdownFiles, NEW d \in DocType, OnlyDoc(f, d), Numbered(f, d)
    PROVE  FilesTrue'
<1> USE DEF OnlyDoc, Numbered
<1>1. d # V!NoDoc /\ d.id # V!None
  BY DocIs
<1>2. \A g \in MarkdownFiles : doc'[g] = IF g = f THEN d ELSE doc[g]
  BY DEF FilesTrue
<1>3. doc' \in [MarkdownFiles -> DocType \cup {V!NoDoc}]
  BY DEF FilesTrue
<1>4. \A g \in MarkdownFiles : doc[g].id \in Int /\ doc[g].id <= reading
  BY DEF FilesTrue, DocType, V!NoDoc, V!None
<1>5. \A g \in MarkdownFiles : g # f => doc[g].id # d.id
  <2>1. CASE d.id = doc[f].id
    BY <1>1, <2>1, DocIs DEF FilesTrue
  <2>2. CASE d.id = reading + 1
    BY <1>4, <2>2 DEF FilesTrue
  <2> QED BY <2>1, <2>2
<1>6. \A g \in MarkdownFiles : doc'[g] # V!NoDoc => doc'[g].id <= reading' /\ doc'[g].text # V!Gone
  BY <1>2, <1>4 DEF FilesTrue
<1>7. \A g, h \in MarkdownFiles : g # h /\ doc'[g].id = doc'[h].id => doc'[g] = V!NoDoc /\ doc'[h] = V!NoDoc
  BY <1>2, <1>5 DEF FilesTrue
<1>8. \A g \in MarkdownFiles : previewed[g].stamp \in Int /\ previewed[g].stamp <= reading'
  BY DEF FilesTrue
<1> QED BY <1>3, <1>6, <1>7, <1>8 DEF FilesTrue

LEMMA FileChanged ==
    ASSUME FilesTrue, NEW f \in MarkdownFiles, NEW x \in [text : Nat, stamp : Int],
           previewed' = [previewed EXCEPT ![f] = x], doc' = doc, reading' = reading + 1,
           x = [text |-> V!Gone, stamp |-> V!None] \/ (x.text # V!Gone /\ x.stamp = reading + 1)
    PROVE  FilesTrue'
<1>1. \A g \in MarkdownFiles : previewed'[g] = IF g = f THEN x ELSE previewed[g]
  BY DEF FilesTrue
<1>2. \A g \in MarkdownFiles : previewed[g].stamp \in Int /\ previewed[g].stamp <= reading
  BY DEF FilesTrue
<1>3. \A g \in MarkdownFiles : /\ previewed'[g].text = V!Gone <=> previewed'[g].stamp = V!None
                               /\ previewed'[g].stamp <= reading'
  BY <1>1, <1>2 DEF FilesTrue, V!Gone, V!None
<1>4. \A g, h \in MarkdownFiles :
          g # h /\ previewed'[g].stamp = previewed'[h].stamp => previewed'[g].stamp = V!None
  BY <1>1, <1>2 DEF FilesTrue, V!Gone, V!None
<1>5. \A g \in MarkdownFiles : doc[g] # V!NoDoc => doc[g].id <= reading'
  BY DocIs DEF FilesTrue, DocType
<1>6. reading' \in Nat /\ previewed' \in [MarkdownFiles -> [text : Nat, stamp : Int]]
  BY DEF FilesTrue
<1> QED BY <1>3, <1>4, <1>5, <1>6 DEF FilesTrue

LEMMA EditorDrawsIs ==
    ASSUME NEW d \in DocType \cup {V!NoDoc}
    PROVE  /\ V!EditorDraws(d) \in DocType \cup {V!NoDoc}
           /\ d = V!NoDoc => V!EditorDraws(d) = V!NoDoc
           /\ d # V!NoDoc => /\ V!EditorDraws(d) # V!NoDoc
                             /\ V!EditorDraws(d).id = d.id /\ V!EditorDraws(d).version = d.version
                             /\ V!EditorDraws(d).text = d.text /\ V!EditorDraws(d).drawn = d.drawn
                             /\ d.ask = V!None => V!EditorDraws(d) = d
                             /\ d.drawn => V!EditorDraws(d).ask = V!None
<1>1. CASE d = V!NoDoc \/ ~d.drawn \/ d.ask = V!None
  BY <1>1, DocIs DEF V!EditorDraws
<1>2. CASE ~(d = V!NoDoc \/ ~d.drawn \/ d.ask = V!None)
  <2>1. d \in DocType /\ V!Min({d.ask, LastTop}) \in Int
    BY <1>2, DocIs, MinIs, PreviewsSound DEF DocType
  <2>2. V!EditorDraws(d) = [d EXCEPT !.top = V!Min({d.ask, LastTop}), !.ask = V!None]
    BY <1>2 DEF V!EditorDraws
  <2>3. PICK t \in Int : t = V!Min({d.ask, LastTop})
    BY <2>1
  <2>4. V!EditorDraws(d) = [id |-> d.id, version |-> d.version, text |-> d.text, top |-> t,
                            ask |-> V!None, drawn |-> d.drawn]
    BY <2>1, <2>2, <2>3 DEF DocType
  <2>5. V!None \in Int
    BY DEF V!None
  <2>6. V!EditorDraws(d) \in DocType
    BY <2>1, <2>3, <2>4, <2>5 DEF DocType
  <2>7. /\ V!EditorDraws(d).id = d.id /\ V!EditorDraws(d).version = d.version
        /\ V!EditorDraws(d).text = d.text /\ V!EditorDraws(d).drawn = d.drawn
        /\ V!EditorDraws(d).ask = V!None
    BY <2>4
  <2>8. V!EditorDraws(d) # V!NoDoc
    BY <2>6, DocIs
  <2> QED BY <1>2, <2>6, <2>7, <2>8
<1> QED BY <1>1, <1>2

(* The greatest of some numbers up to n. *)
LEMMA MaxOf ==
    ASSUME NEW n \in Nat, NEW S \in SUBSET (1 .. n), S # {}
    PROVE  V!Max(S) \in S
<1>1. \E i \in S : \A j \in S : i >= j
  <2> SUFFICES ASSUME \A i \in S : \E j \in S : i < j PROVE FALSE
    OBVIOUS
  <2> DEFINE Under == {d \in 1 .. n : \E t \in S : d <= t}
             next == [d \in Under |-> d + 1]
  <2>1. 1 \in Under
    <3>1. PICK t \in S : TRUE
      OBVIOUS
    <3> QED BY <3>1
  <2>2. ASSUME NEW d \in Under PROVE d + 1 \in Under
    <3>1. PICK t \in S : d <= t
      OBVIOUS
    <3>2. PICK u \in S : t < u
      OBVIOUS
    <3> QED BY <3>1, <3>2
  <2>3. next \in Injection(Under, Under)
    BY <2>2 DEF Injection, IsInjective
  <2>4. IsFiniteSet(Under)
    <3>1. Under \in SUBSET Nat /\ \A d \in Under : d <= n
      OBVIOUS
    <3> QED BY <3>1, FS_BoundedSetOfNaturals
  <2>5. next \in Surjection(Under, Under)
    BY <2>3, <2>4, FS_Injection
  <2>6. \E d \in Under : next[d] = 1
    BY <2>1, <2>5 DEF Surjection
  <2> QED BY <2>6
<1> QED BY <1>1 DEF V!Max

LEMMA OffsetIs == ASSUME NEW line \in Int PROVE V!OffsetForLine(line) \in Int
<1>1. CASE \A k \in DOMAIN Lines : Lines[k] > line
  BY <1>1 DEF V!OffsetForLine, V!None
<1>2. CASE ~\A k \in DOMAIN Lines : Lines[k] > line
  <2>1. PICK n \in Nat : n = Len(Lines) /\ n = Len(Tops) /\ DOMAIN Lines = 1 .. n
    BY PreviewsSound
  <2>2. \A k \in 1 .. n : Lines[k] \in Nat /\ Tops[k] \in Nat
    BY <2>1, PreviewsSound
  <2>3. PICK i : i = V!Max({k \in DOMAIN Lines : Lines[k] <= line})
    OBVIOUS
  <2>4. i \in 1 .. n
    <3>1. {k \in DOMAIN Lines : Lines[k] <= line} \in SUBSET (1 .. n)
      BY <2>1
    <3>2. {k \in DOMAIN Lines : Lines[k] <= line} # {}
      BY <1>2, <2>1, <2>2
    <3> QED BY <2>3, <3>1, <3>2, MaxOf
  <2>5. CASE i = n
    BY <1>2, <2>1, <2>2, <2>3, <2>4, <2>5 DEF V!OffsetForLine
  <2>6. CASE i # n
    <3>1. Lines[i] \in Nat /\ Lines[i + 1] \in Nat /\ Tops[i] \in Nat /\ Tops[i + 1] \in Nat
      BY <2>2, <2>4, <2>6
    <3>2. PICK span : span = V!Max({1, Lines[i + 1] - Lines[i]})
      OBVIOUS
    <3>3. span \in Nat \ {0}
      BY <3>1, <3>2, MaxIs
    <3>4. PICK far : far = V!Min({line - Lines[i], span})
      OBVIOUS
    <3>5. far \in Int
      BY <3>1, <3>3, <3>4, MinIs
    <3>6. PICK high \in Int : high = Tops[i + 1] - Tops[i]
      BY <3>1
    <3>7. (high * far) \div span \in Int
      BY <3>3, <3>5, <3>6
    <3>8. V!OffsetForLine(line) = Tops[i] + (high * far) \div span
      BY <1>2, <2>1, <2>3, <2>6, <3>2, <3>4, <3>6 DEF V!OffsetForLine
    <3> QED BY <3>1, <3>7, <3>8
  <2> QED BY <2>5, <2>6
<1> QED BY <1>1, <1>2

LEMMA LineIs == ASSUME NEW offset \in Int PROVE V!LineForOffset(offset) \in Int
<1>1. PICK n \in Nat : n = Len(Lines) /\ n = Len(Tops) /\ DOMAIN Tops = 1 .. n /\ n > 0
  BY PreviewsSound
<1>2. \A k \in 1 .. n : Lines[k] \in Nat /\ Tops[k] \in Nat
  BY <1>1, PreviewsSound
<1>3. PICK i : i = V!Max({1} \cup {k \in DOMAIN Tops : Tops[k] <= offset})
  OBVIOUS
<1>4. i \in 1 .. n
  <2>1. {1} \cup {k \in DOMAIN Tops : Tops[k] <= offset} \in SUBSET (1 .. n)
    BY <1>1
  <2>2. {1} \cup {k \in DOMAIN Tops : Tops[k] <= offset} # {}
    OBVIOUS
  <2> QED BY <1>3, <2>1, <2>2, MaxOf
<1>5. CASE i = n
  <2>1. V!LineForOffset(offset) = Lines[i]
    BY <1>1, <1>3, <1>5 DEF V!LineForOffset
  <2> QED BY <1>2, <1>4, <2>1
<1>6. CASE i # n
  <2>1. Lines[i] \in Nat /\ Lines[i + 1] \in Nat /\ Tops[i] \in Nat /\ Tops[i + 1] \in Nat
    BY <1>2, <1>4, <1>6
  <2>2. PICK height : height = V!Max({1, Tops[i + 1] - Tops[i]})
    OBVIOUS
  <2>3. height \in Nat \ {0}
    BY <2>1, <2>2, MaxIs
  <2>4. PICK far : far = V!Min({offset - Tops[i], height})
    OBVIOUS
  <2>5. far \in Int
    BY <2>1, <2>3, <2>4, MinIs
  <2>6. PICK down : down = V!Max({0, far})
    OBVIOUS
  <2>7. down \in Int
    BY <2>5, <2>6, MaxIs
  <2>8. PICK rows \in Int : rows = Lines[i + 1] - Lines[i]
    BY <2>1
  <2>9. (down * rows) \div height \in Int
    BY <2>3, <2>7, <2>8
  <2>10. V!LineForOffset(offset) = Lines[i] + (down * rows) \div height
    BY <1>1, <1>3, <1>6, <2>2, <2>4, <2>6, <2>8 DEF V!LineForOffset
  <2> QED BY <2>1, <2>9, <2>10
<1> QED BY <1>5, <1>6

ShownType == {V!Nothing} \cup {V!OfDisk(s) : s \in Int} \cup {V!OfDoc(n) : n \in Nat}
PendingType == [first : Int, last : Int, version : Int]
Offsets == {n \in Int : n <= LastOffset}
Jumps == {V!None} \cup DOMAIN Tops
ViewType ==
    [path : MarkdownFiles, shown : ShownType, text : Int, from : Int, pending : PendingType,
     due : BOOLEAN, refresh : BOOLEAN, jump : Jumps, restore : Int, scroll : Offsets,
     redrawn : BOOLEAN, behind : Int, line : Int, offset : Int, settling : BOOLEAN]

ShownIn(p, disk, docs, now) ==
    /\ p.from <= now
    /\ p.shown.of = "disk" => p.shown.stamp <= now
    /\ \A f \in MarkdownFiles :
           disk[f].text # V!Gone /\ p.shown = V!OfDisk(disk[f].stamp) =>
               p.path = f /\ p.text = disk[f].text
    /\ \A f \in MarkdownFiles : docs[f] # V!NoDoc /\ p.from = docs[f].id =>
           /\ p.path = f
           /\ p.shown.of = "document" =>
                /\ p.shown.version <= docs[f].version
                /\ p.shown.version = docs[f].version => p.text = docs[f].text

InTime(p) ==
    /\ p.behind \in 0 .. Wait
    /\ p.pending # V!NoPending => p.pending.first \in 0 .. Wait
    /\ p.shown.of = "document" => p.behind <= IF p.pending = V!NoPending THEN 0 ELSE p.pending.first

LEMMA ShownIs ==
    /\ V!Nothing \in ShownType /\ V!Nothing.of = "nothing"
    /\ \A s \in Int : V!OfDisk(s) \in ShownType /\ V!OfDisk(s).of = "disk" /\ V!OfDisk(s).stamp = s
    /\ \A n \in Nat : V!OfDoc(n) \in ShownType /\ V!OfDoc(n).of = "document" /\ V!OfDoc(n).version = n
    /\ \A x \in ShownType : /\ x.of \in {"nothing", "disk", "document"}
                            /\ x.of = "disk" => x.stamp \in Int /\ x = V!OfDisk(x.stamp)
                            /\ x.of = "document" => x.version \in Nat /\ x = V!OfDoc(x.version)
<1>1. V!Nothing \in ShownType /\ V!Nothing.of = "nothing"
  BY DEF ShownType, V!Nothing
<1>2. ASSUME NEW s \in Int
      PROVE  V!OfDisk(s) \in ShownType /\ V!OfDisk(s).of = "disk" /\ V!OfDisk(s).stamp = s
  BY DEF ShownType, V!OfDisk
<1>3. ASSUME NEW n \in Nat
      PROVE  V!OfDoc(n) \in ShownType /\ V!OfDoc(n).of = "document" /\ V!OfDoc(n).version = n
  BY DEF ShownType, V!OfDoc
<1>4. ASSUME NEW x \in ShownType
      PROVE  /\ x.of \in {"nothing", "disk", "document"}
             /\ x.of = "disk" => x.stamp \in Int /\ x = V!OfDisk(x.stamp)
             /\ x.of = "document" => x.version \in Nat /\ x = V!OfDoc(x.version)
  <2>1. CASE x = V!Nothing
    BY <1>1, <2>1
  <2>2. CASE \E s \in Int : x = V!OfDisk(s)
    BY <1>2, <2>2
  <2>3. CASE \E n \in Nat : x = V!OfDoc(n)
    BY <1>3, <2>3
  <2> QED BY <2>1, <2>2, <2>3 DEF ShownType
<1> QED BY <1>1, <1>2, <1>3, <1>4

LEMMA ViewIs ==
    ASSUME NEW p \in ViewType \cup {V!NoView}
    PROVE  p # V!NoView <=> p \in ViewType
<1>1. "shown" \notin DOMAIN V!NoView
  BY DEF V!NoView
<1>2. \A q \in ViewType : "shown" \in DOMAIN q
  BY DEF ViewType
<1> QED BY <1>1, <1>2

LEMMA PendingIs == V!NoPending \in PendingType
BY DEF V!NoPending, PendingType, V!None

(* Made by a link or a step, or for a mirror, a preview shows nothing yet. *)
LEMMA NewViewIs ==
    ASSUME NEW path \in MarkdownFiles, NEW jump \in Jumps, NEW docs \in [MarkdownFiles -> DocType \cup {V!NoDoc}],
           NEW disk, NEW now \in Nat
    PROVE  LET p == V!NewView(path, jump)
           IN p \in ViewType /\ p.path = path /\ InTime(p) /\ ShownIn(p, disk, docs, now)
<1>1. PICK p : p = V!NewView(path, jump)
  OBVIOUS
<1>2. /\ p.path = path /\ p.shown = V!Nothing /\ p.from = V!None /\ p.behind = 0 /\ p.pending = V!NoPending
  BY <1>1 DEF V!NewView
<1>3. p \in ViewType
  <2>1. V!None \in Int /\ 0 \in Offsets /\ 0 \in Int
    BY PreviewsSound DEF V!None, Offsets
  <2> QED BY <1>1, <2>1, ShownIs, PendingIs DEF V!NewView, ViewType
<1>4. V!None <= now
  BY DEF V!None
<1>5. \A s \in Int : V!Nothing # V!OfDisk(s)
  BY ShownIs
<1>6. \A f \in MarkdownFiles : docs[f] # V!NoDoc => docs[f].id # V!None
  BY DocIs
<1>7. ShownIn(p, disk, docs, now)
  <2>1. \A s : V!Nothing # V!OfDisk(s)
    BY DEF V!Nothing, V!OfDisk
  <2> QED BY <1>2, <1>4, <1>6, <2>1, ShownIs DEF ShownIn
<1>8. InTime(p)
  BY <1>2, PreviewsSound, ShownIs DEF InTime
<1> QED BY <1>1, <1>2, <1>3, <1>7, <1>8

(* What a preview keeps that does not show: the same text, for the same reasons. *)
SameText(p, q) ==
    /\ q.path = p.path /\ q.shown = p.shown /\ q.text = p.text /\ q.from = p.from
    /\ q.pending = p.pending /\ q.behind = p.behind

LEMMA SameTextTrue ==
    ASSUME NEW p, NEW q, NEW disk, NEW docs, NEW now, SameText(p, q), ShownIn(p, disk, docs, now), InTime(p)
    PROVE  ShownIn(q, disk, docs, now) /\ InTime(q)
BY DEF SameText, ShownIn, InTime

(* What changes on disk and in the documents is numbered anew. *)
News(disk, docs, now, disk2, docs2, now2) ==
    /\ now <= now2
    /\ \A f \in MarkdownFiles : disk2[f] = disk[f] \/ disk2[f].text = V!Gone \/ disk2[f].stamp > now
    /\ \A f \in MarkdownFiles :
          \/ docs2[f] = V!NoDoc \/ docs2[f].id > now
          \/ /\ docs[f] # V!NoDoc /\ docs2[f].id = docs[f].id
             /\ docs2[f].version > docs[f].version
                    \/ (docs2[f].version = docs[f].version /\ docs2[f].text = docs[f].text)

DisksType == [MarkdownFiles -> [text : Nat, stamp : Int]]
DocsType == [MarkdownFiles -> DocType \cup {V!NoDoc}]

LEMMA NewsTrue ==
    ASSUME NEW p \in ViewType, NEW disk \in DisksType, NEW docs \in DocsType, NEW now \in Nat,
           NEW disk2 \in DisksType, NEW docs2 \in DocsType, NEW now2 \in Nat,
           ShownIn(p, disk, docs, now), News(disk, docs, now, disk2, docs2, now2)
    PROVE  ShownIn(p, disk2, docs2, now2)
<1>1. p.from \in Int /\ p.shown \in ShownType
  BY DEF ViewType
<1>2. p.from <= now /\ p.from <= now2
  BY <1>1 DEF ShownIn, News
<1>3. p.shown.of = "disk" => p.shown.stamp \in Int /\ p.shown.stamp <= now /\ p.shown.stamp <= now2
  BY <1>1, ShownIs DEF ShownIn, News
<1>4. ASSUME NEW f \in MarkdownFiles, disk2[f].text # V!Gone, p.shown = V!OfDisk(disk2[f].stamp)
      PROVE  p.path = f /\ p.text = disk2[f].text
  <2>1. disk2[f].stamp \in Int
    BY DEF DisksType
  <2>2. disk2[f].stamp <= now
    BY <1>3, <1>4, <2>1, ShownIs
  <2>3. disk2[f] = disk[f]
    BY <1>4, <2>1, <2>2 DEF News
  <2> QED BY <1>4, <2>3 DEF ShownIn
<1>5. ASSUME NEW f \in MarkdownFiles, docs2[f] # V!NoDoc, p.from = docs2[f].id
      PROVE  /\ p.path = f
             /\ p.shown.of = "document" =>
                  /\ p.shown.version <= docs2[f].version
                  /\ p.shown.version = docs2[f].version => p.text = docs2[f].text
  <2>1. docs2[f] \in DocType
    BY <1>5, DocIs DEF DocsType
  <2>2. docs[f] # V!NoDoc /\ p.from = docs[f].id /\ docs[f] \in DocType
        /\ (docs2[f].version > docs[f].version \/ (docs2[f].version = docs[f].version /\ docs2[f].text = docs[f].text))
    BY <1>1, <1>2, <1>5, <2>1, DocIs DEF News, DocType, DocsType
  <2>3. p.path = f /\ (p.shown.of = "document" =>
                  /\ p.shown.version <= docs[f].version
                  /\ p.shown.version = docs[f].version => p.text = docs[f].text)
    BY <2>2 DEF ShownIn
  <2>4. docs[f].version \in Nat /\ docs2[f].version \in Nat
    BY <2>1, <2>2 DEF DocType
  <2>5. p.shown.of = "document" => p.shown.version \in Nat
    BY <1>1, ShownIs
  <2> QED BY <2>2, <2>3, <2>4, <2>5
<1> QED BY <1>2, <1>3, <1>4, <1>5 DEF ShownIn

(* What the scrolling rests on: kept, but for a text shown, which is to be synced anew. *)
SameScroll(p, q) ==
    /\ q.scroll = p.scroll /\ q.restore = p.restore /\ q.jump = p.jump
    /\ q.line = p.line /\ q.offset = p.offset /\ q.settling = p.settling
    /\ q.redrawn = p.redrawn \/ q.redrawn = TRUE

LEMMA ViewFields ==
    ASSUME NEW p \in ViewType
    PROVE  /\ p.path \in MarkdownFiles /\ p.shown \in ShownType /\ p.text \in Int /\ p.from \in Int
           /\ p.pending \in PendingType /\ p.due \in BOOLEAN /\ p.refresh \in BOOLEAN
           /\ p.jump \in Jumps /\ p.restore \in Int /\ p.scroll \in Offsets /\ p.scroll \in Int
           /\ p.redrawn \in BOOLEAN /\ p.behind \in Int /\ p.line \in Int /\ p.offset \in Int
           /\ p.settling \in BOOLEAN
BY DEF ViewType, Offsets

TextShown(p, text, shown, from, q) ==
    /\ q \in ViewType /\ q.path = p.path /\ q.text = text /\ q.shown = shown /\ q.from = from
    /\ SameScroll(p, q) /\ InTime(q)

LEMMA ShowTextIs ==
    ASSUME NEW p \in ViewType, NEW text \in Int, NEW shown \in ShownType, NEW from \in Int
    PROVE  TextShown(p, text, shown, from, V!ShowText(p, text, shown, from))
<1>0. PICK q : q = V!ShowText(p, text, shown, from)
  OBVIOUS
<1>1. PICK none \in PendingType : none = V!NoPending
  BY PendingIs
<1>5. q = [p EXCEPT !.text = text, !.shown = shown, !.from = from, !.redrawn = TRUE,
                    !.behind = 0, !.pending = none, !.refresh = FALSE]
  BY <1>0, <1>1 DEF V!ShowText
<1>6. q = [path |-> p.path, shown |-> shown, text |-> text, from |-> from, pending |-> none,
           due |-> p.due, refresh |-> FALSE, jump |-> p.jump, restore |-> p.restore,
           scroll |-> p.scroll, redrawn |-> TRUE, behind |-> 0, line |-> p.line,
           offset |-> p.offset, settling |-> p.settling]
  BY <1>5 DEF ViewType
<1>2. q \in ViewType
  BY <1>6, ViewFields DEF ViewType
<1>3. /\ q.path = p.path /\ q.text = text /\ q.shown = shown /\ q.from = from
      /\ q.behind = 0 /\ q.pending = V!NoPending
  BY <1>1, <1>6
<1>4. SameScroll(p, q)
  BY <1>6 DEF SameScroll
<1>7. InTime(q)
  BY <1>3, PreviewsSound DEF InTime
<1> QED BY <1>0, <1>2, <1>3, <1>4, <1>7 DEF TextShown

LEMMA SinceIs ==
    ASSUME NEW p \in ViewType, InTime(p), NEW version \in Nat
    PROVE  LET since == V!Since(p, version)
           IN /\ since \in PendingType /\ since # V!NoPending /\ since.first \in 0 .. Wait
              /\ since.first = IF p.pending = V!NoPending THEN 0 ELSE p.pending.first
<1>1. p.pending \in PendingType
  BY DEF ViewType
<1>2. PICK since : since = V!Since(p, version)
  OBVIOUS
<1>3. since.first = (IF p.pending = V!NoPending THEN 0 ELSE p.pending.first) /\ since.version = version
  BY <1>2 DEF V!Since
<1>4. since.first \in 0 .. Wait
  BY <1>3, PreviewsSound DEF InTime
<1>5. since \in PendingType
  <2>1. PICK last : last = IF p.pending.version = version THEN p.pending.last ELSE 0
    OBVIOUS
  <2>2. since = [first |-> since.first, last |-> last, version |-> version]
    BY <1>2, <1>3, <2>1 DEF V!Since
  <2>3. last \in Int
    BY <1>1, <2>1 DEF PendingType
  <2> QED BY <1>4, <2>2, <2>3 DEF PendingType
<1>6. since # V!NoPending
  BY <1>3 DEF V!NoPending, V!None
<1> QED BY <1>2, <1>3, <1>4, <1>5, <1>6

LEMMA DocumentFollowed ==
    ASSUME FilesTrue, NEW p \in ViewType, ShownIn(p, previewed, doc, reading), InTime(p),
           doc[p.path] # V!NoDoc, NEW q, q = V!FollowDocument(p, doc[p.path])
    PROVE  /\ q \in ViewType /\ q.path = p.path /\ SameScroll(p, q)
           /\ ShownIn(q, previewed, doc, reading) /\ InTime(q)
<1>1. PICK d \in DocType : d = doc[p.path]
  BY DocIs DEF FilesTrue, ViewType
<1>2. PICK since : since = V!Since(p, d.version)
  OBVIOUS
<1>3. d.version \in Nat /\ d.id \in Nat /\ d.text \in Nat /\ p.path \in MarkdownFiles /\ d.id <= reading
  BY <1>1 DEF DocType, ViewType, FilesTrue
<1>4. /\ since \in PendingType /\ since # V!NoPending /\ since.first \in 0 .. Wait
      /\ since.first = IF p.pending = V!NoPending THEN 0 ELSE p.pending.first
  BY <1>2, <1>3, SinceIs
<1>5. CASE q = [p EXCEPT !.pending = V!NoPending, !.behind = 0]
  <2>0. PICK none \in PendingType : none = V!NoPending
    BY PendingIs
  <2>4. q = [path |-> p.path, shown |-> p.shown, text |-> p.text, from |-> p.from, pending |-> none,
             due |-> p.due, refresh |-> p.refresh, jump |-> p.jump, restore |-> p.restore,
             scroll |-> p.scroll, redrawn |-> p.redrawn, behind |-> 0, line |-> p.line,
             offset |-> p.offset, settling |-> p.settling]
    BY <1>5, <2>0 DEF ViewType
  <2>1. q \in ViewType /\ SameScroll(p, q)
    BY <2>4, ViewFields DEF ViewType, SameScroll
  <2>2. /\ q.path = p.path /\ q.shown = p.shown /\ q.text = p.text /\ q.from = p.from
        /\ q.pending = V!NoPending /\ q.behind = 0
    BY <1>5 DEF ViewType
  <2>3. ShownIn(q, previewed, doc, reading)
    BY <2>2 DEF ShownIn
  <2> QED BY <2>1, <2>2, <2>3, PreviewsSound DEF InTime
<1>6. CASE q = V!ShowText(p, d.text, V!OfDoc(d.version), d.id)
  <2>1. /\ q \in ViewType /\ q.path = p.path /\ q.text = d.text /\ q.shown = V!OfDoc(d.version)
        /\ q.from = d.id /\ SameScroll(p, q) /\ InTime(q)
    <3>1. d.text \in Int /\ V!OfDoc(d.version) \in ShownType /\ d.id \in Int
      BY <1>3, ShownIs
    <3> QED BY <1>6, <3>1, ShowTextIs DEF TextShown
  <2>2. q.shown.of = "document" /\ q.shown.version = d.version /\ \A s : q.shown # V!OfDisk(s)
    BY <1>3, <2>1, ShownIs DEF V!OfDoc, V!OfDisk
  <2>3. \A f \in MarkdownFiles : doc[f] # V!NoDoc /\ d.id = doc[f].id => f = p.path
    BY <1>1, <1>3 DEF FilesTrue
  <2> QED BY <1>1, <1>3, <2>1, <2>2, <2>3 DEF ShownIn
<1>7. CASE q = [p EXCEPT !.pending = since] /\ p.shown.of = "document"
  <2>1. q \in ViewType /\ SameScroll(p, q)
    BY <1>4, <1>7 DEF ViewType, SameScroll
  <2>2. /\ q.path = p.path /\ q.shown = p.shown /\ q.text = p.text /\ q.from = p.from
        /\ q.pending = since /\ q.behind = p.behind
    BY <1>7 DEF ViewType
  <2>3. ShownIn(q, previewed, doc, reading)
    BY <2>2 DEF ShownIn
  <2> QED BY <1>4, <1>7, <2>1, <2>2, <2>3 DEF InTime
<1> QED BY <1>1, <1>2, <1>5, <1>6, <1>7 DEF V!FollowDocument

(* The file's stamp is taken before it is read: when another program writes in between, the stamp is
   not the one of what was read, and no file's. *)
Followed(p, q, disk2, now2) ==
    /\ q \in ViewType /\ q.path = p.path /\ SameScroll(p, q)
    /\ ShownIn(q, disk2, doc, now2) /\ InTime(q)
RacedWith(y, x) == y = x \/ (y.text # V!Gone /\ y.stamp > reading /\ x.text # V!Gone)
OnlyThat(f, y, disk2) == \A h \in MarkdownFiles : disk2[h] = IF h = f THEN y ELSE previewed[h]

LEMMA DiskFollowed ==
    ASSUME FilesTrue, NEW p \in ViewType, ShownIn(p, previewed, doc, reading), InTime(p),
           doc[p.path] = V!NoDoc, NEW y, NEW disk2 \in DisksType, NEW now2 \in Nat, reading <= now2,
           OnlyThat(p.path, y, disk2), RacedWith(y, previewed[p.path])
    PROVE  Followed(p, V!FollowDisk(p, previewed[p.path], y), disk2, now2)
<1>0. PICK q : q = V!FollowDisk(p, previewed[p.path], y)
  OBVIOUS
<1>1. PICK g \in MarkdownFiles : g = p.path
  BY DEF ViewType
<1>2. PICK x \in [text : Nat, stamp : Int] : x = previewed[g]
  BY <1>1 DEF FilesTrue
<1>3. y \in [text : Nat, stamp : Int] /\ \A f \in MarkdownFiles : disk2[f] = IF f = g THEN y ELSE previewed[f]
  BY <1>1 DEF OnlyThat, DisksType
<1>15. y = x \/ (y.text # V!Gone /\ y.stamp > reading /\ x.text # V!Gone)
  BY <1>1, <1>2 DEF RacedWith
<1>4. ShownIn(p, disk2, doc, now2)
  <2>1. News(previewed, doc, reading, disk2, doc, now2)
    BY <1>1, <1>2, <1>3, <1>15 DEF News
  <2>2. previewed \in DisksType /\ doc \in DocsType /\ reading \in Nat
    BY DEF FilesTrue, DisksType, DocsType
  <2> QED BY <2>1, <2>2, NewsTrue
<1>5. x.stamp \in Int /\ x.stamp <= reading /\ x.stamp <= now2 /\ reading \in Nat /\ (x.text = V!Gone <=> x.stamp = V!None)
  BY <1>2 DEF FilesTrue
<1>6. \A f \in MarkdownFiles : disk2[f].text # V!Gone /\ disk2[f].stamp = x.stamp => f = g /\ y = x
  <2> SUFFICES ASSUME NEW f \in MarkdownFiles, disk2[f].text # V!Gone, disk2[f].stamp = x.stamp
               PROVE  f = g /\ y = x
    OBVIOUS
  <2>1. CASE f = g
    BY <1>1, <1>2, <1>3, <1>5, <1>15, <2>1
  <2>2. CASE f # g
    <3>1. previewed[f].text # V!Gone /\ previewed[f].stamp = previewed[g].stamp
      BY <1>2, <1>3, <2>2
    <3> QED BY <2>2, <3>1 DEF FilesTrue
  <2> QED BY <2>1, <2>2
<1>7. V!None \in Int /\ V!None <= now2
  BY DEF V!None
<1>8. \A f \in MarkdownFiles : doc[f] # V!NoDoc => doc[f].id # V!None
  BY DocIs DEF FilesTrue
<1>9. PICK looked : looked = [p EXCEPT !.due = FALSE]
  OBVIOUS
<1>10. looked \in ViewType /\ SameText(p, looked) /\ SameScroll(p, looked)
  BY <1>9 DEF ViewType, SameText, SameScroll
<1>11. CASE q = p
  BY <1>0, <1>4, <1>11 DEF SameScroll, Followed
<1>12. CASE q = looked
  <2>1. ShownIn(looked, disk2, doc, now2) /\ InTime(looked)
    BY <1>4, <1>10, SameTextTrue
  <2> QED BY <1>0, <1>10, <1>12, <2>1 DEF SameText, Followed
<1>13. CASE q = [looked EXCEPT !.shown = V!OfDisk(x.stamp), !.refresh = FALSE, !.from = V!None] /\ y.text = V!Gone
  <2>1. /\ q.path = p.path /\ q.shown = V!OfDisk(x.stamp) /\ q.from = V!None
        /\ q.pending = p.pending /\ q.behind = p.behind
    BY <1>10, <1>13 DEF ViewType, SameText
  <2>2. q \in ViewType
    <3>1. PICK shown \in ShownType, none \in Int : shown = V!OfDisk(x.stamp) /\ none = V!None
      BY <1>5, <1>7, ShownIs
    <3>2. q = [path |-> looked.path, shown |-> shown, text |-> looked.text, from |-> none,
               pending |-> looked.pending, due |-> looked.due, refresh |-> FALSE,
               jump |-> looked.jump, restore |-> looked.restore, scroll |-> looked.scroll,
               redrawn |-> looked.redrawn, behind |-> looked.behind, line |-> looked.line,
               offset |-> looked.offset, settling |-> looked.settling]
      BY <1>10, <1>13, <3>1 DEF ViewType
    <3> QED BY <1>10, <3>2, ViewFields DEF ViewType
  <2>3. SameScroll(p, q)
    BY <1>10, <1>13 DEF SameScroll, ViewType
  <2>4. q.shown.of = "disk" /\ q.shown.stamp = x.stamp
    BY <1>5, <2>1, ShownIs
  <2>5. ASSUME NEW f \in MarkdownFiles, disk2[f].text # V!Gone, q.shown = V!OfDisk(disk2[f].stamp)
        PROVE  FALSE
    <3>1. disk2[f].stamp = x.stamp
      BY <2>4, <2>5, ShownIs DEF DisksType
    <3> QED BY <1>3, <1>6, <1>13, <2>5, <3>1
  <2>6. ShownIn(q, disk2, doc, now2)
    BY <1>5, <1>7, <1>8, <2>1, <2>4, <2>5 DEF ShownIn
  <2>7. InTime(q)
    BY <2>1, <2>4, PreviewsSound DEF InTime
  <2> QED BY <1>0, <2>1, <2>2, <2>3, <2>6, <2>7 DEF Followed
<1>14. CASE q = V!ShowText(looked, y.text, V!OfDisk(x.stamp), V!None)
  <2>1. /\ q \in ViewType /\ q.path = looked.path /\ q.text = y.text /\ q.shown = V!OfDisk(x.stamp)
        /\ q.from = V!None /\ SameScroll(looked, q) /\ InTime(q)
    <3>1. PICK txt \in Int, why \in ShownType, none \in Int :
              txt = y.text /\ why = V!OfDisk(x.stamp) /\ none = V!None
      BY <1>3, <1>5, <1>7, ShownIs
    <3>2. q = V!ShowText(looked, txt, why, none)
      BY <1>14, <3>1
    <3>3. looked \in ViewType
      BY <1>10
    <3>4. TextShown(looked, txt, why, none, V!ShowText(looked, txt, why, none))
      BY <3>3, ShowTextIs
    <3> QED BY <3>1, <3>2, <3>4 DEF TextShown
  <2>2. q.shown.of = "disk" /\ q.shown.stamp = x.stamp
    BY <1>5, <2>1, ShownIs
  <2>3. ASSUME NEW f \in MarkdownFiles, disk2[f].text # V!Gone, q.shown = V!OfDisk(disk2[f].stamp)
        PROVE  q.path = f /\ q.text = disk2[f].text
    <3>1. disk2[f].stamp = x.stamp
      BY <2>2, <2>3, ShownIs DEF DisksType
    <3> QED BY <1>1, <1>3, <1>6, <1>10, <2>1, <2>3, <3>1 DEF SameText
  <2>4. ShownIn(q, disk2, doc, now2)
    BY <1>5, <1>7, <1>8, <2>1, <2>2, <2>3 DEF ShownIn
  <2>5. SameScroll(p, q)
    BY <1>10, <2>1 DEF SameScroll
  <2> QED BY <1>0, <1>10, <2>1, <2>4, <2>5 DEF SameText, Followed
<1> QED BY <1>0, <1>1, <1>2, <1>9, <1>11, <1>12, <1>13, <1>14 DEF V!FollowDisk, V!FollowDiskFrom

(* A state of the scrolling that the sync leaves alone: it was told to settle, is to be synced
   anew, or stands where it was last synced, with the editor where it was. *)
Landed(p, d) ==
    \/ p.settling = TRUE \/ p.redrawn = TRUE
    \/ /\ p.restore = V!None /\ p.jump = V!None /\ p.offset = p.scroll
       /\ d # V!NoDoc => d.top = p.line /\ d.ask = V!None

(* What the sync may do with a preview, and the line it may ask the editor for. *)
Synced(p, top, s, ask) ==
    /\ s \in ViewType /\ ask \in Int /\ SameText(p, s) /\ s.jump = p.jump
    /\ ask # V!None \/ s.restore # V!None => s.settling = TRUE
    /\ p.settling = TRUE =>
           ask = V!None /\ s.restore = V!None /\ s.line = top /\ s.offset = s.scroll
    /\ p.settling # TRUE /\ p.redrawn # TRUE /\ p.line = top /\ p.offset = p.scroll =>
           ask = V!None /\ s = p

LEMMA SyncIs ==
    ASSUME NEW p \in ViewType, NEW top \in Int, p.restore = V!None
    PROVE  Synced(p, top, V!Sync(p, top).state, V!Sync(p, top).ask)
<1>1. PICK offset \in Int, line \in Int, none \in Int :
          offset = V!OffsetForLine(top) /\ line = V!LineForOffset(p.scroll) /\ none = V!None
  BY OffsetIs, LineIs, ViewFields DEF V!None
<1>6. ASSUME NEW s, NEW ask, V!Sync(p, top) = [state |-> s, ask |-> ask], Synced(p, top, s, ask)
      PROVE  Synced(p, top, V!Sync(p, top).state, V!Sync(p, top).ask)
  <2>1. V!Sync(p, top).state = s /\ V!Sync(p, top).ask = ask
    BY <1>6
  <2> QED BY <1>6, <2>1
<1>2. CASE p.settling
  <2>1. PICK s : s = [p EXCEPT !.settling = FALSE, !.line = top, !.offset = p.scroll]
    OBVIOUS
  <2>2. V!Sync(p, top) = [state |-> s, ask |-> none]
    BY <1>1, <1>2, <2>1 DEF V!Sync, V!SyncWith
  <2>3. s = [path |-> p.path, shown |-> p.shown, text |-> p.text, from |-> p.from,
            pending |-> p.pending, due |-> p.due, refresh |-> p.refresh, jump |-> p.jump,
            restore |-> p.restore, scroll |-> p.scroll, redrawn |-> p.redrawn, behind |-> p.behind,
            line |-> top, offset |-> p.scroll, settling |-> FALSE]
    BY <2>1 DEF ViewType
  <2>4. s \in ViewType /\ SameText(p, s)
    BY <2>3, ViewFields DEF ViewType, SameText
  <2>5. s.restore = p.restore /\ s.line = top /\ s.offset = s.scroll /\ s.jump = p.jump
    BY <2>3
  <2>6. Synced(p, top, s, none)
    BY <1>1, <1>2, <2>4, <2>5 DEF Synced
  <2> QED BY <1>6, <2>2, <2>6
<1>3. CASE ~p.settling /\ (top # p.line \/ p.redrawn)
  <2>1. PICK follow : follow = [p EXCEPT !.redrawn = FALSE, !.line = top]
    OBVIOUS
  <2>3. follow = [path |-> p.path, shown |-> p.shown, text |-> p.text, from |-> p.from,
                  pending |-> p.pending, due |-> p.due, refresh |-> p.refresh, jump |-> p.jump,
                  restore |-> p.restore, scroll |-> p.scroll, redrawn |-> FALSE,
                  behind |-> p.behind, line |-> top, offset |-> p.offset, settling |-> p.settling]
    BY <2>1 DEF ViewType
  <2>4. follow \in ViewType /\ SameText(p, follow)
    BY <2>3, ViewFields DEF ViewType, SameText
  <2>5. CASE offset \in {V!None, p.scroll}
    <3>1. V!Sync(p, top) = [state |-> follow, ask |-> none]
      BY <1>1, <1>3, <2>1, <2>5 DEF V!Sync, V!SyncWith
    <3>2. follow.restore = p.restore /\ follow.jump = p.jump
      BY <2>3
    <3>3. Synced(p, top, follow, none)
      BY <1>1, <1>3, <2>4, <3>2 DEF Synced
    <3> QED BY <1>6, <3>1, <3>3
  <2>6. CASE offset \notin {V!None, p.scroll}
    <3>1. PICK s : s = [[follow EXCEPT !.restore = offset] EXCEPT !.settling = TRUE]
      OBVIOUS
    <3>2. V!Sync(p, top) = [state |-> s, ask |-> none]
      BY <1>1, <1>3, <2>1, <2>6, <3>1 DEF V!Sync, V!SyncWith
    <3>3. s = [path |-> p.path, shown |-> p.shown, text |-> p.text, from |-> p.from,
                pending |-> p.pending, due |-> p.due, refresh |-> p.refresh, jump |-> p.jump,
                restore |-> offset, scroll |-> p.scroll, redrawn |-> FALSE, behind |-> p.behind,
                line |-> top, offset |-> p.offset, settling |-> TRUE]
      BY <2>3, <3>1
    <3>4. s \in ViewType /\ SameText(p, s)
      BY <1>1, <3>3, ViewFields DEF ViewType, SameText
    <3>5. s.settling = TRUE /\ s.jump = p.jump
      BY <3>3
    <3>6. Synced(p, top, s, none)
      BY <1>1, <1>3, <3>4, <3>5 DEF Synced
    <3> QED BY <1>6, <3>2, <3>6
  <2> QED BY <2>5, <2>6
<1>4. CASE ~p.settling /\ ~(top # p.line \/ p.redrawn) /\ p.scroll # p.offset
  <2>1. CASE line # top
    <3>1. PICK s : s = [[p EXCEPT !.offset = p.scroll, !.line = line] EXCEPT !.settling = TRUE]
      OBVIOUS
    <3>2. V!Sync(p, top) = [state |-> s, ask |-> line]
      BY <1>1, <1>4, <2>1, <3>1 DEF V!Sync, V!SyncWith
    <3>3. s = [path |-> p.path, shown |-> p.shown, text |-> p.text, from |-> p.from,
                pending |-> p.pending, due |-> p.due, refresh |-> p.refresh, jump |-> p.jump,
                restore |-> p.restore, scroll |-> p.scroll, redrawn |-> p.redrawn,
                behind |-> p.behind, line |-> line, offset |-> p.scroll, settling |-> TRUE]
      BY <3>1 DEF ViewType
    <3>4. s \in ViewType /\ SameText(p, s)
      BY <1>1, <3>3, ViewFields DEF ViewType, SameText
    <3>5. s.settling = TRUE /\ s.jump = p.jump
      BY <3>3
    <3>6. Synced(p, top, s, line)
      BY <1>1, <1>4, <3>4, <3>5 DEF Synced
    <3> QED BY <1>6, <3>2, <3>6
  <2>2. CASE line = top
    <3>1. PICK s : s = [p EXCEPT !.offset = p.scroll]
      OBVIOUS
    <3>2. V!Sync(p, top) = [state |-> s, ask |-> none]
      BY <1>1, <1>4, <2>2, <3>1 DEF V!Sync, V!SyncWith
    <3>3. s = [path |-> p.path, shown |-> p.shown, text |-> p.text, from |-> p.from,
                pending |-> p.pending, due |-> p.due, refresh |-> p.refresh, jump |-> p.jump,
                restore |-> p.restore, scroll |-> p.scroll, redrawn |-> p.redrawn,
                behind |-> p.behind, line |-> p.line, offset |-> p.scroll, settling |-> p.settling]
      BY <3>1 DEF ViewType
    <3>4. s \in ViewType /\ SameText(p, s)
      BY <3>3, ViewFields DEF ViewType, SameText
    <3>5. s.restore = p.restore /\ s.jump = p.jump
      BY <3>3
    <3>6. Synced(p, top, s, none)
      BY <1>1, <1>4, <3>4, <3>5 DEF Synced
    <3> QED BY <1>6, <3>2, <3>6
  <2> QED BY <2>1, <2>2
<1>5. CASE ~p.settling /\ ~(top # p.line \/ p.redrawn) /\ p.scroll = p.offset
  <2>1. V!Sync(p, top) = [state |-> p, ask |-> none]
    BY <1>1, <1>5 DEF V!Sync, V!SyncWith
  <2>2. Synced(p, top, p, none)
    BY <1>1, <1>5 DEF Synced, SameText
  <2> QED BY <1>6, <2>1, <2>2
<1> QED BY <1>2, <1>3, <1>4, <1>5

LEMMA ScrolledIs ==
    ASSUME NEW p \in ViewType, NEW q, q = V!Scrolled(p)
    PROVE  /\ q \in ViewType /\ SameText(p, q) /\ q.restore = V!None /\ q.jump = V!None
           /\ q.settling = p.settling /\ q.redrawn = p.redrawn /\ q.line = p.line /\ q.offset = p.offset
           /\ p.restore = V!None /\ p.jump = V!None => q.scroll = p.scroll
<1>1. PICK none : none = V!None /\ none \in Int /\ none \in Jumps
  BY DEF V!None, Jumps
<1>2. PICK to : to = IF p.jump # V!None THEN Tops[p.jump] ELSE IF p.restore # V!None THEN p.restore ELSE p.scroll
  OBVIOUS
<1>3. to \in Int /\ LastOffset \in Int
  BY <1>2, ViewFields, PreviewsSound DEF Jumps
<1>4. PICK scroll : scroll = V!Min({to, LastOffset})
  OBVIOUS
<1>5. scroll = IF to <= LastOffset THEN to ELSE LastOffset
  BY <1>3, <1>4, MinIs
<1>6. scroll \in Offsets
  BY <1>3, <1>5 DEF Offsets
<1>7. q = [p EXCEPT !.scroll = scroll, !.restore = none, !.jump = none]
  BY <1>1, <1>2, <1>4 DEF V!Scrolled
<1>8. q = [path |-> p.path, shown |-> p.shown, text |-> p.text, from |-> p.from,
           pending |-> p.pending, due |-> p.due, refresh |-> p.refresh, jump |-> none,
           restore |-> none, scroll |-> scroll, redrawn |-> p.redrawn, behind |-> p.behind,
           line |-> p.line, offset |-> p.offset, settling |-> p.settling]
  BY <1>7 DEF ViewType
<1>9. q \in ViewType /\ SameText(p, q)
  BY <1>1, <1>6, <1>8, ViewFields DEF ViewType, SameText
<1>10. p.restore = V!None /\ p.jump = V!None => scroll = p.scroll
  BY <1>2, <1>5, ViewFields DEF Offsets
<1> QED BY <1>1, <1>8, <1>9, <1>10

(***************************************************************************)
(* The invariant                                                           *)
(***************************************************************************)
ConfigTrue ==
    /\ config \in ConfigType /\ trail \in TrailType /\ cap \in Caps
    /\ Recorded(config, trail)
ViewsTrue ==
    /\ drawn \subseteq Views /\ view \in [Views -> ViewType \cup {V!NoView}]
    /\ \A v \in Views : view[v] # V!NoView => ShownIn(view[v], previewed, doc, reading) /\ InTime(view[v])
Own ==
    /\ view["own"] # V!NoView => view["own"].path = config.path
    /\ editorFirst # TRUE => \A f \in MarkdownFiles : doc[f] # V!NoDoc => doc[f].ask = V!None
    /\ answers \in {0, 1}
    /\ answers = 1 => view["own"] # V!NoView /\ Landed(view["own"], doc[config.path])
PreviewInv == FilesTrue /\ ConfigTrue /\ ViewsTrue /\ Own

SameDoc(d, e) ==
    /\ e \in DocType \cup {V!NoDoc} /\ (e = V!NoDoc <=> d = V!NoDoc)
    /\ d # V!NoDoc => e.id = d.id /\ e.version = d.version /\ e.text = d.text /\ e.drawn = d.drawn

LEMMA EditorSame ==
    ASSUME NEW d \in DocType \cup {V!NoDoc}
    PROVE  SameDoc(d, V!EditorDraws(d)) /\ SameDoc(d, d)
BY EditorDrawsIs DEF SameDoc

LEMMA EditorAsked ==
    ASSUME NEW d \in DocType, NEW ask \in Int
    PROVE  SameDoc(d, [d EXCEPT !.ask = ask]) /\ [d EXCEPT !.ask = ask].ask = ask
<1>1. [d EXCEPT !.ask = ask] = [id |-> d.id, version |-> d.version, text |-> d.text, top |-> d.top,
                                ask |-> ask, drawn |-> d.drawn]
  BY DEF DocType
<1>2. PICK e : e = [d EXCEPT !.ask = ask]
  OBVIOUS
<1>3. e \in DocType
  BY <1>1, <1>2 DEF DocType
<1>4. e.id = d.id /\ e.version = d.version /\ e.text = d.text /\ e.drawn = d.drawn /\ e.ask = ask
  BY <1>1, <1>2
<1>5. e # V!NoDoc /\ d # V!NoDoc
  BY <1>3, DocIs
<1> QED BY <1>2, <1>3, <1>4, <1>5 DEF SameDoc

LEMMA SameDocs ==
    ASSUME NEW d, NEW e, NEW h, SameDoc(d, e), SameDoc(e, h)
    PROVE  SameDoc(d, h)
BY DEF SameDoc

(* What a view drawn shows before it is scrolled. *)
LEMMA FollowsIs ==
    ASSUME PreviewInv, NEW v \in Views, NEW y, NEW disk2 \in DisksType, NEW now2 \in Nat, reading <= now2,
           OnlyThat(config.path, y, disk2), RacedWith(y, previewed[config.path]),
           doc[config.path] # V!NoDoc => y = previewed[config.path]
    PROVE  LET q == V!Follows(v, y)
           IN /\ q \in ViewType /\ q.path = config.path /\ ShownIn(q, disk2, doc, now2) /\ InTime(q)
              /\ view[v] # V!NoView /\ view[v].path = config.path => SameScroll(view[v], q)
<1>1. PICK f \in MarkdownFiles : f = config.path
  BY DEF PreviewInv, ConfigTrue, ConfigType
<1>2. PICK p : p = IF view[v] # V!NoView /\ view[v].path = config.path THEN view[v] ELSE V!NewView(config.path, V!None)
  OBVIOUS
<1>3. p \in ViewType /\ p.path = f /\ ShownIn(p, previewed, doc, reading) /\ InTime(p)
  <2>1. CASE view[v] # V!NoView /\ view[v].path = config.path
    BY <1>1, <1>2, <2>1, ViewIs DEF PreviewInv, ViewsTrue
  <2>2. CASE ~(view[v] # V!NoView /\ view[v].path = config.path)
    <3>1. V!None \in Jumps /\ doc \in [MarkdownFiles -> DocType \cup {V!NoDoc}] /\ reading \in Nat
      BY DEF Jumps, PreviewInv, FilesTrue
    <3> QED BY <1>1, <1>2, <2>2, <3>1, NewViewIs
  <2> QED BY <2>1, <2>2
<1>4. PICK q : q = V!Follows(v, y)
  OBVIOUS
<1>5. FilesTrue
  BY DEF PreviewInv
<1>6. CASE doc[f] # V!NoDoc
  <2>1. q = V!FollowDocument(p, doc[p.path])
    BY <1>1, <1>2, <1>3, <1>4, <1>6 DEF V!Follows
  <2>2. /\ q \in ViewType /\ q.path = p.path /\ SameScroll(p, q)
        /\ ShownIn(q, previewed, doc, reading) /\ InTime(q)
    BY <1>3, <1>5, <1>6, <2>1, DocumentFollowed
  <2>3. ShownIn(q, disk2, doc, now2)
    <3>1. \A h \in MarkdownFiles : disk2[h] = previewed[h]
      BY <1>1, <1>6 DEF OnlyThat
    <3>4. \A h \in MarkdownFiles : doc[h] # V!NoDoc => doc[h].version \in Nat
      BY <1>5, DocIs DEF FilesTrue, DocType
    <3>2. News(previewed, doc, reading, disk2, doc, now2)
      BY <3>1, <3>4 DEF News
    <3>3. previewed \in DisksType /\ doc \in DocsType /\ reading \in Nat
      BY <1>5 DEF FilesTrue, DisksType, DocsType
    <3> QED BY <2>2, <3>2, <3>3, NewsTrue
  <2> QED BY <1>1, <1>2, <1>3, <1>4, <2>2, <2>3
<1>7. CASE doc[f] = V!NoDoc
  <2>1. q = V!FollowDisk(p, previewed[p.path], y)
    BY <1>1, <1>2, <1>3, <1>4, <1>7 DEF V!Follows
  <2>2. /\ q \in ViewType /\ q.path = p.path /\ SameScroll(p, q)
        /\ ShownIn(q, disk2, doc, now2) /\ InTime(q)
    <3>1. doc[p.path] = V!NoDoc /\ OnlyThat(p.path, y, disk2) /\ RacedWith(y, previewed[p.path])
      BY <1>1, <1>3, <1>7
    <3> QED BY <1>3, <1>5, <2>1, <3>1, DiskFollowed DEF Followed
  <2> QED BY <1>1, <1>2, <1>3, <1>4, <2>2
<1> QED BY <1>6, <1>7

(***************************************************************************)
(* A frame                                                                 *)
(***************************************************************************)
LEMMA DrawsKeeps ==
    ASSUME PreviewInv, NEW v \in drawn, NEW raced \in BOOLEAN, V!Draws(v, raced)
    PROVE  PreviewInv'
<1>1. PICK f \in MarkdownFiles : f = config.path
  BY DEF PreviewInv, ConfigTrue, ConfigType
<1>2. PICK y : y = IF raced THEN [text |-> V!Fresh, stamp |-> V!Fresh] ELSE previewed[f]
  OBVIOUS
<1>3. PICK e : e = IF editorFirst THEN V!EditorDraws(doc[f]) ELSE doc[f]
  OBVIOUS
<1>4. PICK q : q = V!Follows(v, y)
  OBVIOUS
<1>5. PICK p : p = V!Scrolled(q)
  OBVIOUS
<1> DEFINE both == v = "own" /\ e # V!NoDoc /\ e.drawn
<1>6. PICK s, ask : /\ both => s = V!Sync(p, e.top).state /\ ask = V!Sync(p, e.top).ask
                    /\ ~both => s = p /\ ask = V!None
  OBVIOUS
<1>7. PICK d : d = IF ask = V!None THEN e ELSE [e EXCEPT !.ask = ask]
  OBVIOUS
<1>8. PICK d2 : d2 = IF editorFirst THEN d ELSE V!EditorDraws(d)
  OBVIOUS
<1>9. PICK moves : moves = IF ask # V!None \/ s.restore # V!None THEN 1 ELSE 0
  OBVIOUS
<1>10. /\ raced => reading < MaxReading /\ previewed[f].text # V!Gone /\ doc[f] = V!NoDoc
       /\ reading' = reading + IF raced THEN 1 ELSE 0
       /\ previewed' = [previewed EXCEPT ![f] = y]
       /\ doc' = [doc EXCEPT ![f] = d2]
       /\ view' = [view EXCEPT ![v] = s]
       /\ answers' = IF v # "own" THEN answers ELSE moves + IF p.redrawn THEN 0 ELSE answers
       /\ UNCHANGED <<config, drawn, cap, trail, editorFirst>>
  <2>1. CASE both
    <3>1. V!Sync(p, e.top).state = s /\ V!Sync(p, e.top).ask = ask
      BY <1>6, <2>1
    <3> QED BY <1>1, <1>2, <1>3, <1>4, <1>5, <1>7, <1>8, <1>9, <2>1, <3>1 DEF V!Draws
  <2>2. CASE ~both
    <3>1. [state |-> p, ask |-> V!None].state = s /\ [state |-> p, ask |-> V!None].ask = ask
      BY <1>6, <2>2
    <3> QED BY <1>1, <1>2, <1>3, <1>4, <1>5, <1>7, <1>8, <1>9, <2>2, <3>1 DEF V!Draws
  <2> QED BY <2>1, <2>2
<1>11. v \in Views /\ FilesTrue /\ doc[f] \in DocType \cup {V!NoDoc} /\ reading \in Nat /\ "own" \in Views
  BY PreviewsSound DEF PreviewInv, ViewsTrue, FilesTrue
<1> HIDE DEF both
<1>12. reading' \in Nat /\ reading <= reading' /\ (raced => reading' = reading + 1) /\ (~raced => reading' = reading)
  BY <1>10, <1>11
<1>13. /\ y \in [text : Nat, stamp : Int] /\ RacedWith(y, previewed[f])
       /\ doc[f] # V!NoDoc => y = previewed[f]
       /\ raced => y.text # V!Gone /\ y.stamp = reading + 1
       /\ ~raced => y = previewed[f]
  BY <1>2, <1>10, <1>11 DEF V!Fresh, V!Gone, RacedWith, FilesTrue
<1>14. previewed' \in DisksType /\ OnlyThat(f, y, previewed')
  BY <1>10, <1>11, <1>13 DEF FilesTrue, DisksType, OnlyThat
<1>15. /\ q \in ViewType /\ q.path = f /\ ShownIn(q, previewed', doc, reading') /\ InTime(q)
       /\ view[v] # V!NoView /\ view[v].path = f => SameScroll(view[v], q)
  BY <1>1, <1>4, <1>11, <1>12, <1>13, <1>14, FollowsIs
<1>16. /\ p \in ViewType /\ SameText(q, p) /\ p.restore = V!None /\ p.jump = V!None
       /\ p.settling = q.settling /\ p.redrawn = q.redrawn /\ p.line = q.line /\ p.offset = q.offset
       /\ q.restore = V!None /\ q.jump = V!None => p.scroll = q.scroll
  BY <1>5, <1>15, ScrolledIs
<1>17. SameDoc(doc[f], e) /\ (editorFirst = TRUE /\ e # V!NoDoc /\ e.drawn => e.ask = V!None)
  BY <1>3, <1>11, EditorSame, EditorDrawsIs DEF SameDoc
<1>18. both => e \in DocType /\ e.top \in Int /\ v = "own"
  BY <1>17, DocIs DEF both, SameDoc, DocType
<1>19. /\ s \in ViewType /\ ask \in Int /\ SameText(p, s) /\ s.jump = V!None
       /\ both => Synced(p, e.top, s, ask)
  <2>1. CASE both
    <3>1. Synced(p, e.top, s, ask)
      BY <1>6, <1>16, <1>18, <2>1, SyncIs
    <3> QED BY <1>16, <3>1 DEF Synced
  <2>2. CASE ~both
    BY <1>6, <1>16, <2>2 DEF SameText, V!None
  <2> QED BY <2>1, <2>2
<1>20. SameDoc(e, d)
  BY <1>6, <1>7, <1>17, <1>18, <1>19, EditorSame, EditorAsked DEF SameDoc
<1>21. SameDoc(doc[f], d2)
  <2>1. SameDoc(d, d2)
    BY <1>8, <1>20, EditorSame DEF SameDoc
  <2> QED BY <1>17, <1>20, <2>1, SameDocs
<1>22. News(previewed, doc, reading, previewed', doc', reading')
  BY <1>10, <1>11, <1>12, <1>13, <1>14, <1>21 DEF News, OnlyThat, FilesTrue, SameDoc
<1>23. FilesTrue'
  <2>1. CASE doc[f] = V!NoDoc
    <3>1. doc' = doc
      BY <1>10, <1>11, <1>21, <2>1 DEF SameDoc, FilesTrue
    <3>2. CASE raced
      BY <1>10, <1>11, <1>12, <1>13, <3>1, <3>2, FileChanged
    <3>3. CASE ~raced
      <4>1. previewed' = previewed
        BY <1>10, <1>11, <1>13, <3>3 DEF FilesTrue
      <4> QED BY <1>11, <1>12, <3>1, <3>3, <4>1, SameFiles DEF FilesKept
    <3> QED BY <3>2, <3>3
  <2>2. CASE doc[f] # V!NoDoc
    <3>1. previewed' = previewed /\ reading' = reading
      BY <1>10, <1>11, <1>12, <1>13, <2>2 DEF FilesTrue
    <3>2. d2 \in DocType /\ d2.id = doc[f].id /\ d2.text # V!Gone /\ d2.id <= reading
      BY <1>11, <1>21, <2>2, DocIs DEF SameDoc, FilesTrue
    <3>3. OnlyDoc(f, d2) /\ Numbered(f, d2)
      BY <1>10, <1>11, <3>1, <3>2 DEF OnlyDoc, Numbered
    <3> QED BY <1>11, <3>2, <3>3, DocChanged
  <2> QED BY <2>1, <2>2
<1>24. doc' \in DocsType /\ doc \in DocsType /\ previewed \in DisksType
  BY <1>11, <1>23 DEF FilesTrue, DocsType, DisksType
<1>25. ShownIn(s, previewed', doc', reading') /\ InTime(s) /\ s.path = f
  <2>1. News(previewed', doc, reading', previewed', doc', reading')
    BY <1>10, <1>11, <1>12, <1>21 DEF News, FilesTrue, SameDoc
  <2>2. ShownIn(q, previewed', doc', reading')
    BY <1>12, <1>14, <1>15, <1>24, <2>1, NewsTrue
  <2>3. SameText(q, s)
    BY <1>16, <1>19 DEF SameText
  <2>4. q.path = f /\ InTime(q)
    BY <1>15
  <2> QED BY <2>2, <2>3, <2>4, SameTextTrue DEF SameText
<1>26. ViewsTrue'
  <2>1. view' \in [Views -> ViewType \cup {V!NoView}] /\ drawn' \subseteq Views
    BY <1>10, <1>11, <1>19 DEF PreviewInv, ViewsTrue
  <2>2. ASSUME NEW w \in Views, view'[w] # V!NoView
        PROVE  ShownIn(view'[w], previewed', doc', reading') /\ InTime(view'[w])
    <3>1. CASE w = v
      BY <1>10, <1>11, <1>25, <3>1 DEF PreviewInv, ViewsTrue
    <3>2. CASE w # v
      <4>1. view'[w] = view[w] /\ view[w] # V!NoView
        BY <1>10, <2>2, <3>2 DEF PreviewInv, ViewsTrue
      <4>2. view[w] \in ViewType /\ ShownIn(view[w], previewed, doc, reading) /\ InTime(view[w])
        BY <4>1, ViewIs DEF PreviewInv, ViewsTrue
      <4> QED BY <1>11, <1>12, <1>14, <1>22, <1>24, <4>1, <4>2, NewsTrue
    <3> QED BY <3>1, <3>2
  <2> QED BY <2>1, <2>2 DEF ViewsTrue
<1>27. ConfigTrue'
  BY <1>10 DEF PreviewInv, ConfigTrue
<1>28. Own'
  <2>1. view'["own"] # V!NoView => view'["own"].path = config'.path
    BY <1>1, <1>10, <1>11, <1>25 DEF PreviewInv, ViewsTrue, Own
  <2>2. editorFirst' # TRUE => \A g \in MarkdownFiles : doc'[g] # V!NoDoc => doc'[g].ask = V!None
    <3> SUFFICES ASSUME editorFirst # TRUE, NEW g \in MarkdownFiles, doc'[g] # V!NoDoc
                 PROVE  doc'[g].ask = V!None
      BY <1>10
    <3>1. CASE g # f
      BY <1>10, <1>11, <3>1 DEF PreviewInv, Own, FilesTrue
    <3>2. CASE g = f
      <4>1. doc'[g] = d2 /\ d2 = V!EditorDraws(d) /\ e = doc[f] /\ d2 # V!NoDoc /\ doc[f] # V!NoDoc /\ e.ask = V!None
        BY <1>3, <1>8, <1>10, <1>11, <1>21, <3>2 DEF PreviewInv, Own, FilesTrue, SameDoc
      <4>2. d \in DocType /\ d # V!NoDoc /\ d.drawn = e.drawn
        BY <1>20, <4>1, DocIs DEF SameDoc
      <4>3. CASE both
        <5>1. d.drawn
          BY <4>2, <4>3 DEF both
        <5>2. V!EditorDraws(d).ask = V!None
          BY <4>2, <5>1, EditorDrawsIs
        <5> QED BY <4>1, <5>2
      <4>4. CASE ~both
        <5>1. d = e
          BY <1>6, <1>7, <4>4
        <5> QED BY <4>1, <4>2, <5>1, EditorDrawsIs
      <4> QED BY <4>3, <4>4
    <3> QED BY <3>1, <3>2
  <2>3. moves \in {0, 1} /\ answers \in {0, 1} /\ s.redrawn \in BOOLEAN /\ p.redrawn \in BOOLEAN
        /\ editorFirst' = editorFirst /\ config' = config
    BY <1>9, <1>10, <1>16, <1>19, ViewFields DEF PreviewInv, Own
  <2>4. CASE v = "own"
    <3>1. view'["own"] = s /\ s # V!NoView /\ doc'[config.path] = d2
      BY <1>1, <1>10, <1>11, <1>19, <2>4, ViewIs DEF PreviewInv, ViewsTrue, FilesTrue
    <3>2. moves = 1 => both /\ s.settling = TRUE
      <4> SUFFICES ASSUME moves = 1 PROVE both /\ s.settling = TRUE
        OBVIOUS
      <4>1. ask # V!None \/ s.restore # V!None
        BY <1>9
      <4>2. both
        BY <1>6, <1>16, <4>1
      <4> QED BY <1>19, <4>1, <4>2 DEF Synced
    <3>3. ASSUME p.redrawn # TRUE, answers = 1 PROVE moves = 0 /\ Landed(s, d2)
      <4>1. PICK o \in ViewType : o = view["own"] /\ o # V!NoView /\ o.path = f /\ Landed(o, doc[f])
        BY <1>1, <1>11, <3>3, ViewIs DEF PreviewInv, Own, ViewsTrue
      <4>2. SameScroll(o, q) /\ o.redrawn # TRUE
        BY <1>15, <1>16, <2>4, <3>3, <4>1 DEF SameScroll
      <4>3. CASE p.settling = TRUE /\ both
        <5>1. ask = V!None /\ s.restore = V!None /\ s.line = e.top /\ s.offset = s.scroll
          BY <1>19, <4>3 DEF Synced
        <5>2. d = e /\ moves = 0 /\ e # V!NoDoc /\ e.drawn
          BY <1>7, <1>9, <4>3, <5>1 DEF both
        <5>3. e.ask = V!None
          <6>1. CASE editorFirst = TRUE
            BY <1>17, <5>2, <6>1
          <6>2. CASE editorFirst # TRUE
            BY <1>3, <5>2, <6>2 DEF PreviewInv, Own
          <6> QED BY <6>1, <6>2
        <5>4. d2 = e
          BY <1>8, <1>17, <5>2, <5>3, EditorDrawsIs DEF SameDoc
        <5> QED BY <1>19, <5>1, <5>2, <5>3, <5>4 DEF Landed
      <4>4. CASE p.settling = TRUE /\ ~both
        BY <1>6, <1>9, <1>16, <4>4 DEF Landed
      <4>5. CASE p.settling # TRUE
        <5>1. /\ o.restore = V!None /\ o.jump = V!None /\ o.offset = o.scroll
              /\ doc[f] # V!NoDoc => doc[f].top = o.line /\ doc[f].ask = V!None
          BY <1>16, <4>1, <4>2, <4>5 DEF Landed, SameScroll
        <5>2. p.scroll = o.scroll /\ p.offset = p.scroll /\ p.line = o.line
          BY <1>16, <4>2, <5>1 DEF SameScroll
        <5>3. e = doc[f]
          BY <1>3, <1>11, <5>1, EditorDrawsIs
        <5>4. s = p /\ ask = V!None
          <6>1. CASE both
            <7>1. p.line = e.top
              BY <5>1, <5>2, <5>3, <6>1 DEF both
            <7> QED BY <1>19, <3>3, <4>5, <5>2, <6>1, <7>1 DEF Synced
          <6>2. CASE ~both
            BY <1>6, <6>2
          <6> QED BY <6>1, <6>2
        <5>5. d2 = doc[f] /\ moves = 0
          <6>1. d = e /\ moves = 0
            BY <1>7, <1>9, <1>16, <5>4
          <6> QED BY <1>8, <1>11, <5>1, <5>3, <6>1, EditorDrawsIs
        <5> QED BY <1>16, <5>1, <5>2, <5>4, <5>5 DEF Landed
      <4> QED BY <4>3, <4>4, <4>5
    <3>4. answers' = moves + IF p.redrawn THEN 0 ELSE answers
      BY <1>10, <2>4
    <3>5. answers' \in {0, 1} /\ (answers' = 1 => moves = 1 \/ (p.redrawn # TRUE /\ answers = 1))
      <4>0. moves \in {0, 1} /\ answers \in {0, 1}
        BY <2>3
      <4>1. CASE p.redrawn = TRUE
        <5>1. answers' = moves + 0
          BY <3>4, <4>1
        <5>2. answers' = moves
          BY <4>0, <5>1
        <5> QED BY <4>0, <5>2
      <4>2. CASE p.redrawn # TRUE
        <5>1. answers' = moves + answers
          <6>1. p.redrawn = FALSE
            BY <2>3, <4>2
          <6> QED BY <3>4, <6>1
        <5>2. CASE answers = 0
          <6>1. answers' = moves
            BY <4>0, <5>1, <5>2
          <6> QED BY <4>0, <6>1
        <5>3. CASE answers = 1
          <6>1. moves = 0
            BY <3>3, <4>2, <5>3
          <6>2. answers' = 1
            BY <5>1, <5>3, <6>1
          <6> QED BY <4>2, <5>3, <6>2
        <5> QED BY <4>0, <5>2, <5>3
      <4> QED BY <4>1, <4>2
    <3>6. answers' = 1 => Landed(s, d2)
      BY <3>2, <3>3, <3>5 DEF Landed
    <3> QED BY <2>1, <2>2, <2>3, <3>1, <3>5, <3>6 DEF Own
  <2>5. CASE v # "own"
    <3>1. answers' = answers /\ view'["own"] = view["own"] /\ doc'[config.path] = d2
      BY <1>1, <1>10, <1>11, <2>5 DEF PreviewInv, ViewsTrue, FilesTrue
    <3>2. ASSUME Landed(view["own"], doc[f]) PROVE Landed(view["own"], d2)
      <4>1. ~both /\ d = e
        BY <1>6, <1>7, <2>5 DEF both
      <4>2. CASE doc[f] = V!NoDoc \/ doc[f].ask = V!None
        <5>1. d2 = doc[f]
          BY <1>3, <1>8, <1>11, <4>1, <4>2, EditorDrawsIs
        <5> QED BY <3>2, <5>1
      <4>3. CASE ~(doc[f] = V!NoDoc \/ doc[f].ask = V!None)
        BY <3>2, <4>3 DEF Landed
      <4> QED BY <4>2, <4>3
    <3> QED BY <1>1, <2>1, <2>2, <2>3, <3>1, <3>2 DEF PreviewInv, Own
  <2> QED BY <2>4, <2>5
<1> QED BY <1>23, <1>26, <1>27, <1>28 DEF PreviewInv

(***************************************************************************)
(* The files and their editors                                             *)
(***************************************************************************)
LEMMA MoreRead ==
    ASSUME FilesTrue, previewed' = previewed, doc' = doc, reading' \in Nat, reading <= reading'
    PROVE  FilesTrue'
<1>1. \A f \in MarkdownFiles : previewed[f].stamp \in Int /\ previewed[f].stamp <= reading /\ reading \in Nat
  BY DEF FilesTrue
<1>2. \A f \in MarkdownFiles : doc[f] # V!NoDoc => doc[f].id \in Nat /\ doc[f].id <= reading
  BY DocIs DEF FilesTrue, DocType
<1>3. \A f \in MarkdownFiles : previewed[f].stamp <= reading'
  BY <1>1
<1>4. \A f \in MarkdownFiles : doc[f] # V!NoDoc => doc[f].id <= reading'
  BY <1>1, <1>2
<1> QED BY <1>3, <1>4 DEF FilesTrue

OldNews == News(previewed, doc, reading, previewed', doc', reading')

LEMMA NoNews ==
    ASSUME FilesTrue, previewed' = previewed, doc' = doc, reading <= reading'
    PROVE  OldNews
BY DEF OldNews, News, FilesTrue

(* The views keep what they show, or show what is there. *)
ViewKept(w) ==
    \/ view'[w] = V!NoView
    \/ view[w] # V!NoView /\ SameText(view[w], view'[w])
    \/ ShownIn(view'[w], previewed', doc', reading') /\ InTime(view'[w])
ViewsKept ==
    /\ drawn' \subseteq Views /\ view' \in [Views -> ViewType \cup {V!NoView}]
    /\ \A w \in Views : ViewKept(w)

LEMMA ViewsKeep ==
    ASSUME PreviewInv, FilesTrue', OldNews, ViewsKept
    PROVE  ViewsTrue'
<1>1. ASSUME NEW w \in Views, view'[w] # V!NoView
      PROVE  ShownIn(view'[w], previewed', doc', reading') /\ InTime(view'[w])
  <2>1. CASE view[w] # V!NoView /\ SameText(view[w], view'[w])
    <3>1. view[w] \in ViewType /\ ShownIn(view[w], previewed, doc, reading) /\ InTime(view[w])
      BY <2>1, ViewIs DEF PreviewInv, ViewsTrue
    <3>2. /\ previewed \in DisksType /\ doc \in DocsType /\ reading \in Nat
          /\ previewed' \in DisksType /\ doc' \in DocsType /\ reading' \in Nat
      BY DEF PreviewInv, FilesTrue, DisksType, DocsType
    <3>3. ShownIn(view[w], previewed', doc', reading')
      BY <3>1, <3>2, NewsTrue DEF OldNews
    <3> QED BY <2>1, <3>1, <3>3, SameTextTrue
  <2> QED BY <1>1, <2>1 DEF ViewsKept, ViewKept
<1> QED BY <1>1 DEF ViewsTrue, ViewsKept

(* Only files and documents change. *)
AskKept(f) ==
    doc'[f] # V!NoDoc => doc'[f].ask = V!None \/ (doc[f] # V!NoDoc /\ doc'[f].ask = doc[f].ask)
PlaceKept(f) ==
    doc'[f] # V!NoDoc => doc[f] # V!NoDoc /\ doc'[f].top = doc[f].top /\ doc'[f].ask = doc[f].ask
FilesMove ==
    /\ UNCHANGED <<config, view, drawn, cap, trail, editorFirst>>
    /\ \A f \in MarkdownFiles : AskKept(f)
    /\ answers' = 0 \/ (answers' = answers /\ \A f \in MarkdownFiles : PlaceKept(f))

LEMMA FilesMoveKeep ==
    ASSUME PreviewInv, FilesTrue', OldNews, FilesMove
    PROVE  PreviewInv'
<1>1. ConfigTrue'
  BY DEF PreviewInv, ConfigTrue, FilesMove
<1>2. ViewsTrue'
  <2>1. ViewsKept
    BY DEF PreviewInv, ViewsTrue, ViewsKept, ViewKept, FilesMove, SameText
  <2> QED BY <2>1, ViewsKeep
<1>3. Own'
  <2>1. config.path \in MarkdownFiles
    BY DEF PreviewInv, ConfigTrue, ConfigType
  <2>4. editorFirst' # TRUE => \A f \in MarkdownFiles : doc'[f] # V!NoDoc => doc'[f].ask = V!None
    BY DEF PreviewInv, Own, FilesMove, AskKept
  <2>5. view'["own"] # V!NoView => view'["own"].path = config'.path
    BY DEF PreviewInv, Own, FilesMove
  <2>2. CASE answers' = 0
    <3>1. answers' \in {0, 1} /\ ~(answers' = 1)
      BY <2>2
    <3> QED BY <2>4, <2>5, <3>1 DEF Own
  <2>3. CASE answers' = answers /\ \A f \in MarkdownFiles : PlaceKept(f)
    <3>1. Landed(view["own"], doc[config.path]) => Landed(view["own"], doc'[config.path])
      BY <2>1, <2>3 DEF Landed, PlaceKept
    <3>2. UNCHANGED <<view, config>>
      BY DEF FilesMove
    <3> QED BY <2>3, <2>4, <2>5, <3>1, <3>2 DEF PreviewInv, Own
  <2> QED BY <2>2, <2>3 DEF FilesMove
<1> QED BY <1>1, <1>2, <1>3 DEF PreviewInv

LEMMA DocKeeps ==
    ASSUME PreviewInv, NEW f \in MarkdownFiles, NEW d \in DocType, OnlyDoc(f, d), Numbered(f, d),
           d.id = doc[f].id => d.version > doc[f].version \/ (d.version = doc[f].version /\ d.text = doc[f].text),
           UNCHANGED <<config, view, drawn, cap, trail, editorFirst>>,
           d.ask = V!None \/ (doc[f] # V!NoDoc /\ d.ask = doc[f].ask),
           answers' = 0 \/ (answers' = answers /\ doc[f] # V!NoDoc /\ d.top = doc[f].top /\ d.ask = doc[f].ask)
    PROVE  PreviewInv'
<1>1. FilesTrue'
  BY DocChanged DEF PreviewInv
<1>2. \A g \in MarkdownFiles : doc'[g] = IF g = f THEN d ELSE doc[g]
  BY DEF PreviewInv, FilesTrue, OnlyDoc
<1>3. d # V!NoDoc /\ d.id # V!None /\ d.id \in Nat
  BY DocIs DEF DocType
<1>4. OldNews
  <2>1. reading \in Nat /\ reading' \in Nat /\ reading <= reading' /\ previewed' = previewed
    BY DEF PreviewInv, FilesTrue, OnlyDoc, Numbered
  <2>2. d.id = doc[f].id => doc[f] # V!NoDoc
    BY <1>3 DEF V!NoDoc
  <2>3. d.id = doc[f].id \/ d.id > reading
    BY <2>1 DEF Numbered
  <2>4. ASSUME NEW g \in MarkdownFiles
        PROVE  \/ doc'[g] = V!NoDoc \/ doc'[g].id > reading
               \/ /\ doc[g] # V!NoDoc /\ doc'[g].id = doc[g].id
                  /\ doc'[g].version > doc[g].version
                         \/ (doc'[g].version = doc[g].version /\ doc'[g].text = doc[g].text)
    <3>1. CASE g = f
      BY <1>2, <2>2, <2>3, <3>1
    <3>2. CASE g # f
      BY <1>2, <3>2
    <3> QED BY <3>1, <3>2
  <2> QED BY <2>1, <2>4 DEF OldNews, News
<1>5. FilesMove
  <2>1. \A g \in MarkdownFiles : AskKept(g)
    BY <1>2 DEF AskKept
  <2>2. doc[f] # V!NoDoc /\ d.top = doc[f].top /\ d.ask = doc[f].ask => \A g \in MarkdownFiles : PlaceKept(g)
    BY <1>2 DEF PlaceKept
  <2>3. answers' = 0 \/ (answers' = answers /\ \A g \in MarkdownFiles : PlaceKept(g))
    BY <2>2
  <2> QED BY <2>1, <2>3 DEF FilesMove
<1> QED BY <1>1, <1>4, <1>5, FilesMoveKeep

LEMMA TypeKeeps == ASSUME PreviewInv, NEW f \in MarkdownFiles, V!Type(f) PROVE PreviewInv'
<1>1. PICK fresh, none, top : /\ fresh = V!Fresh /\ none = V!None /\ top \in {doc[f].top, LastTop}
                              /\ doc' = [doc EXCEPT ![f] = [doc[f] EXCEPT !.version = @ + 1, !.text = fresh,
                                                                         !.top = top, !.ask = none]]
  BY DEF V!Type
<1>2. doc[f] \in DocType /\ doc[f].id <= reading /\ reading \in Nat
  BY DocIs DEF V!Type, PreviewInv, FilesTrue
<1>3. PICK d : d = [doc[f] EXCEPT !.version = @ + 1, !.text = fresh, !.top = top, !.ask = none]
  OBVIOUS
<1>4. top \in Int /\ fresh \in Nat /\ fresh # V!Gone /\ none \in Int
  <2>1. doc[f].top \in Int /\ LastTop \in Int
    BY <1>2, PreviewsSound DEF DocType
  <2>2. fresh = reading + 1 /\ none = -1
    BY <1>1 DEF V!Fresh, V!None
  <2> QED BY <1>1, <1>2, <2>1, <2>2 DEF V!Gone
<1>5. d = [id |-> doc[f].id, version |-> doc[f].version + 1, text |-> fresh, top |-> top,
           ask |-> none, drawn |-> doc[f].drawn]
  BY <1>2, <1>3 DEF DocType
<1>6. d \in DocType /\ d.id = doc[f].id /\ d.text = fresh /\ d.version > doc[f].version /\ d.ask = V!None
  BY <1>1, <1>2, <1>4, <1>5 DEF DocType
<1>7. /\ reading' = reading + 1 /\ previewed' = previewed /\ answers' = 0
      /\ UNCHANGED <<config, view, drawn, cap, trail, editorFirst>>
  BY DEF V!Type, V!Acts
<1>8. OnlyDoc(f, d)
  BY <1>1, <1>3, <1>7 DEF OnlyDoc
<1>9. Numbered(f, d)
  BY <1>2, <1>4, <1>6, <1>7 DEF Numbered, DocType
<1> QED BY <1>6, <1>7, <1>8, <1>9, DocKeeps

LEMMA ReloadKeeps == ASSUME PreviewInv, NEW f \in MarkdownFiles, V!Reload(f) PROVE PreviewInv'
<1>1. /\ doc' = [doc EXCEPT ![f] = [doc[f] EXCEPT !.version = @ + 1, !.text = previewed[f].text]]
      /\ reading' = reading + 1 /\ previewed' = previewed /\ answers' = answers
      /\ UNCHANGED <<config, view, drawn, cap, trail, editorFirst>>
      /\ doc[f] # V!NoDoc /\ previewed[f].text # V!Gone
  BY DEF V!Reload, V!Acts
<1>2. doc[f] \in DocType /\ doc[f].id <= reading /\ reading \in Nat /\ previewed[f].text \in Nat
  BY <1>1, DocIs DEF PreviewInv, FilesTrue
<1>3. PICK d : d = [doc[f] EXCEPT !.version = @ + 1, !.text = previewed[f].text]
  OBVIOUS
<1>4. PICK txt \in Nat : txt = previewed[f].text
  BY <1>2
<1>5. d = [id |-> doc[f].id, version |-> doc[f].version + 1, text |-> txt, top |-> doc[f].top,
           ask |-> doc[f].ask, drawn |-> doc[f].drawn]
  BY <1>2, <1>3, <1>4 DEF DocType
<1>6. /\ d \in DocType /\ d.id = doc[f].id /\ d.text = txt /\ d.version > doc[f].version
      /\ d.ask = doc[f].ask /\ d.top = doc[f].top
  BY <1>2, <1>5 DEF DocType
<1>8. OnlyDoc(f, d)
  BY <1>1, <1>3 DEF OnlyDoc
<1>9. Numbered(f, d)
  BY <1>1, <1>2, <1>4, <1>6 DEF Numbered, DocType
<1> QED BY <1>1, <1>6, <1>8, <1>9, DocKeeps

LEMMA ScrollEditorKeeps == ASSUME PreviewInv, NEW f \in MarkdownFiles, V!ScrollEditor(f) PROVE PreviewInv'
<1>1. PICK to \in 0 .. LastTop : doc' = [doc EXCEPT ![f] = [@ EXCEPT !.top = to]]
  BY DEF V!ScrollEditor
<1>2. /\ reading' = reading + 1 /\ previewed' = previewed /\ answers' = 0
      /\ UNCHANGED <<config, view, drawn, cap, trail, editorFirst>> /\ doc[f] # V!NoDoc
  BY DEF V!ScrollEditor, V!Acts
<1>3. doc[f] \in DocType /\ doc[f].id <= reading /\ reading \in Nat /\ doc[f].text # V!Gone
  BY <1>2, DocIs DEF PreviewInv, FilesTrue
<1>4. PICK d : d = [doc[f] EXCEPT !.top = to]
  OBVIOUS
<1>5. d = [id |-> doc[f].id, version |-> doc[f].version, text |-> doc[f].text, top |-> to,
           ask |-> doc[f].ask, drawn |-> doc[f].drawn]
  BY <1>3, <1>4 DEF DocType
<1>6. /\ d \in DocType /\ d.id = doc[f].id /\ d.text = doc[f].text /\ d.version = doc[f].version
      /\ d.ask = doc[f].ask
  BY <1>3, <1>5, PreviewsSound DEF DocType
<1>8. OnlyDoc(f, d)
  BY <1>1, <1>2, <1>4 DEF OnlyDoc
<1>9. Numbered(f, d)
  BY <1>2, <1>3, <1>6 DEF Numbered, DocType
<1> QED BY <1>2, <1>6, <1>8, <1>9, DocKeeps

LEMMA OpenEditorKeeps == ASSUME PreviewInv, NEW f \in MarkdownFiles, V!OpenEditor(f) PROVE PreviewInv'
<1>1. /\ doc' = [doc EXCEPT ![f] = V!NewDoc(f, V!Fresh)]
      /\ reading' = reading + 1 /\ previewed' = previewed /\ answers' = 0
      /\ UNCHANGED <<config, view, drawn, cap, trail, editorFirst>>
      /\ doc[f] = V!NoDoc /\ previewed[f].text # V!Gone
  BY DEF V!OpenEditor, V!Acts
<1>2. reading \in Nat /\ previewed[f].text \in Nat
  BY DEF PreviewInv, FilesTrue
<1>3. PICK txt \in Nat : txt = previewed[f].text
  BY <1>2
<1>4. PICK d : d = V!NewDoc(f, V!Fresh)
  OBVIOUS
<1>5. d = [id |-> reading + 1, version |-> 0, text |-> txt, top |-> 0, ask |-> V!None, drawn |-> TRUE]
  BY <1>3, <1>4 DEF V!NewDoc, V!Fresh
<1>6. d \in DocType /\ d.id = reading + 1 /\ d.text = txt /\ d.ask = V!None
  <2>1. V!None \in Int
    BY DEF V!None
  <2> QED BY <1>2, <1>5, <2>1 DEF DocType
<1>7. d.id # doc[f].id
  BY <1>1, <1>2, <1>6 DEF V!NoDoc, V!None
<1>8. OnlyDoc(f, d)
  BY <1>1, <1>4 DEF OnlyDoc
<1>9. Numbered(f, d)
  BY <1>1, <1>2, <1>3, <1>6 DEF Numbered
<1> QED BY <1>1, <1>6, <1>7, <1>8, <1>9, DocKeeps

LEMMA CloseEditorKeeps == ASSUME PreviewInv, NEW f \in MarkdownFiles, V!CloseEditor(f) PROVE PreviewInv'
<1>1. /\ doc' = [doc EXCEPT ![f] = V!NoDoc]
      /\ reading' = reading + 1 /\ previewed' = previewed /\ answers' = answers
      /\ UNCHANGED <<config, view, drawn, cap, trail, editorFirst>>
  BY DEF V!CloseEditor, V!Acts
<1>2. reading \in Nat /\ \A g \in MarkdownFiles : doc'[g] = V!NoDoc \/ doc'[g] = doc[g]
  BY <1>1 DEF PreviewInv, FilesTrue
<1>3. doc' \in [MarkdownFiles -> DocType \cup {V!NoDoc}]
  BY <1>1 DEF PreviewInv, FilesTrue
<1>4. \A g \in MarkdownFiles : previewed[g].stamp \in Int /\ previewed[g].stamp <= reading'
  BY <1>1, <1>2 DEF PreviewInv, FilesTrue
<1>5. \A g \in MarkdownFiles : doc[g] # V!NoDoc => doc[g].id \in Nat /\ doc[g].id <= reading'
  BY <1>1, <1>2, DocIs DEF PreviewInv, FilesTrue, DocType
<1>6. \A g, h \in MarkdownFiles : g # h /\ doc'[g].id = doc'[h].id => doc'[g] = V!NoDoc /\ doc'[h] = V!NoDoc
  <2> SUFFICES ASSUME NEW g \in MarkdownFiles, NEW h \in MarkdownFiles, g # h, doc'[g].id = doc'[h].id
               PROVE  doc'[g] = V!NoDoc /\ doc'[h] = V!NoDoc
    OBVIOUS
  <2>1. doc'[g] \in DocType \cup {V!NoDoc} /\ doc'[h] \in DocType \cup {V!NoDoc}
    BY <1>3
  <2>2. V!NoDoc.id = V!None
    BY DEF V!NoDoc
  <2>3. doc'[g] = V!NoDoc <=> doc'[h] = V!NoDoc
    BY <2>1, <2>2, DocIs
  <2> QED BY <1>2, <2>3 DEF PreviewInv, FilesTrue
<1>7. FilesTrue'
  BY <1>1, <1>2, <1>3, <1>4, <1>5, <1>6 DEF PreviewInv, FilesTrue
<1>8. OldNews
  BY <1>1, <1>2 DEF OldNews, News
<1>9. FilesMove
  BY <1>1, <1>2 DEF FilesMove, AskKept, PlaceKept
<1> QED BY <1>7, <1>8, <1>9, FilesMoveKeep

LEMMA DiskKeeps ==
    ASSUME PreviewInv, NEW f \in MarkdownFiles, NEW x \in [text : Nat, stamp : Int],
           previewed' = [previewed EXCEPT ![f] = x], reading' = reading + 1,
           x = [text |-> V!Gone, stamp |-> V!None] \/ (x.text # V!Gone /\ x.stamp = reading + 1),
           UNCHANGED <<doc, config, view, drawn, cap, trail, answers, editorFirst>>
    PROVE  PreviewInv'
<1>1. FilesTrue'
  BY FileChanged DEF PreviewInv
<1>2. OldNews
  <2>1. reading \in Nat /\ \A g \in MarkdownFiles : previewed'[g] = IF g = f THEN x ELSE previewed[g]
    BY DEF PreviewInv, FilesTrue
  <2>2. x.text = V!Gone \/ x.stamp > reading
    BY <2>1
  <2> QED BY <2>1, <2>2 DEF OldNews, News
<1>3. FilesMove
  BY DEF FilesMove, AskKept, PlaceKept
<1> QED BY <1>1, <1>2, <1>3, FilesMoveKeep

LEMMA SaveKeeps == ASSUME PreviewInv, NEW f \in MarkdownFiles, V!Save(f) PROVE PreviewInv'
<1>1. /\ previewed' = [previewed EXCEPT ![f] = [text |-> doc[f].text, stamp |-> reading + 1]]
      /\ reading' = reading + 1 /\ doc[f] # V!NoDoc
      /\ UNCHANGED <<doc, config, view, drawn, cap, trail, answers, editorFirst>>
  BY DEF V!Save, V!Acts, V!Fresh
<1>2. PICK x : x = [text |-> doc[f].text, stamp |-> reading + 1]
  OBVIOUS
<1>3. x \in [text : Nat, stamp : Int] /\ x.text # V!Gone /\ x.stamp = reading + 1
  BY <1>1, <1>2, DocIs DEF PreviewInv, FilesTrue, DocType
<1> QED BY <1>1, <1>2, <1>3, DiskKeeps

LEMMA OutsideKeeps == ASSUME PreviewInv, NEW f \in MarkdownFiles, V!Outside(f) PROVE PreviewInv'
<1>1. PICK x \in {[text |-> reading + 1, stamp |-> reading + 1], [text |-> V!Gone, stamp |-> V!None]} :
          previewed' = [previewed EXCEPT ![f] = x]
  BY DEF V!Outside, V!Fresh
<1>2. /\ reading' = reading + 1
      /\ UNCHANGED <<doc, config, view, drawn, cap, trail, answers, editorFirst>>
  BY DEF V!Outside, V!Acts
<1>3. /\ x \in [text : Nat, stamp : Int]
      /\ x = [text |-> V!Gone, stamp |-> V!None] \/ (x.text # V!Gone /\ x.stamp = reading + 1)
  BY <1>1 DEF PreviewInv, FilesTrue, V!Gone, V!None
<1> QED BY <1>1, <1>2, <1>3, DiskKeeps

(***************************************************************************)
(* Time, and what is done to the views                                     *)
(***************************************************************************)
(* Only the views change. *)
LandedKept ==
    view["own"] # V!NoView /\ Landed(view["own"], doc[config.path]) =>
        view'["own"] # V!NoView /\ Landed(view'["own"], doc[config.path])
ViewsMove ==
    /\ UNCHANGED <<previewed, doc, config, trail, editorFirst>>
    /\ reading' = reading \/ reading' = reading + 1
    /\ cap' \in Caps
    /\ view'["own"] # V!NoView => view["own"] # V!NoView /\ view'["own"].path = view["own"].path
    /\ answers' = 0 \/ (answers' = answers /\ LandedKept)

LEMMA ViewsMoveKeep ==
    ASSUME PreviewInv, ViewsMove, ViewsKept
    PROVE  PreviewInv'
<1>1. reading \in Nat /\ reading' \in Nat /\ reading <= reading' /\ previewed' = previewed /\ doc' = doc
  BY DEF PreviewInv, FilesTrue, ViewsMove
<1>2. FilesTrue'
  BY <1>1, MoreRead DEF PreviewInv
<1>3. OldNews
  BY <1>1, NoNews DEF PreviewInv
<1>4. ViewsTrue'
  BY <1>2, <1>3, ViewsKeep
<1>5. ConfigTrue'
  BY DEF PreviewInv, ConfigTrue, ViewsMove
<1>6. Own'
  <2>1. UNCHANGED <<doc, config, editorFirst>>
    BY DEF ViewsMove
  <2>2. view'["own"] # V!NoView => view'["own"].path = config'.path
    BY <2>1 DEF PreviewInv, Own, ViewsMove
  <2>3. CASE answers' = 0
    <3>1. answers' \in {0, 1} /\ ~(answers' = 1)
      BY <2>3
    <3> QED BY <2>1, <2>2, <3>1 DEF PreviewInv, Own
  <2>4. CASE answers' = answers /\ LandedKept
    <3>1. answers' = 1 => view'["own"] # V!NoView /\ Landed(view'["own"], doc'[config'.path])
      BY <2>1, <2>4 DEF PreviewInv, Own, LandedKept
    <3> QED BY <2>1, <2>2, <2>4, <3>1 DEF PreviewInv, Own
  <2> QED BY <2>3, <2>4 DEF ViewsMove
<1> QED BY <1>2, <1>4, <1>5, <1>6 DEF PreviewInv

Aged(p, q) == /\ q \in ViewType /\ SameScroll(p, q) /\ q.path = p.path /\ q.shown = p.shown
              /\ q.text = p.text /\ q.from = p.from

LEMMA OlderIs ==
    ASSUME NEW p \in ViewType, InTime(p), NEW onScreen \in BOOLEAN, NEW q,
           onScreen = TRUE /\ V!Waits(p) => p.pending.first < Wait,
           q = V!Older(p, onScreen)
    PROVE  Aged(p, q) /\ InTime(q)
<1>1. p.pending \in PendingType /\ p.behind \in 0 .. Wait /\ Wait \in Nat
  BY ViewFields, PreviewsSound DEF InTime
<1>2. PICK first, last : /\ first = V!Min({p.pending.first + 1, Wait})
                         /\ last = V!Min({p.pending.last + 1, Wait})
  OBVIOUS
<1>3. /\ first = IF p.pending.first + 1 <= Wait THEN p.pending.first + 1 ELSE Wait
      /\ last \in Int /\ first \in Int
  <2>1. p.pending.first + 1 \in Int /\ p.pending.last + 1 \in Int
    BY <1>1 DEF PendingType
  <2> QED BY <1>1, <1>2, <2>1, MinIs
<1>4. PICK since : since = [p.pending EXCEPT !.first = first, !.last = last]
  OBVIOUS
<1>5. since = [first |-> first, last |-> last, version |-> p.pending.version]
  BY <1>1, <1>4 DEF PendingType
<1>6. since \in PendingType /\ since.first = first
  BY <1>1, <1>3, <1>5 DEF PendingType
<1>7. PICK pending : pending = IF p.pending = V!NoPending THEN p.pending ELSE since
  OBVIOUS
<1>8. PICK behind : behind = IF onScreen /\ V!Waits(p) THEN p.behind + 1 ELSE p.behind
  OBVIOUS
<1>9. q = [p EXCEPT !.due = TRUE, !.pending = pending, !.behind = behind]
  BY <1>2, <1>4, <1>7, <1>8 DEF V!Older
<1>10. q = [path |-> p.path, shown |-> p.shown, text |-> p.text, from |-> p.from, pending |-> pending,
            due |-> TRUE, refresh |-> p.refresh, jump |-> p.jump, restore |-> p.restore,
            scroll |-> p.scroll, redrawn |-> p.redrawn, behind |-> behind, line |-> p.line,
            offset |-> p.offset, settling |-> p.settling]
  BY <1>9 DEF ViewType
<1>11. pending \in PendingType /\ behind \in Int
  BY <1>1, <1>6, <1>7, <1>8
<1>12. Aged(p, q)
  BY <1>10, <1>11, ViewFields DEF ViewType, SameScroll, Aged
<1>13. InTime(q)
  <2>0. q.pending = pending /\ q.behind = behind /\ q.shown = p.shown
    BY <1>10
  <2>1. CASE p.pending = V!NoPending
    <3>1. ~V!Waits(p)
      BY <2>1 DEF V!Waits
    <3>2. pending = p.pending /\ behind = p.behind
      BY <1>7, <1>8, <2>1, <3>1
    <3> QED BY <2>0, <3>2 DEF InTime
  <2>2. CASE p.pending # V!NoPending
    <3>1. p.pending.first \in 0 .. Wait /\ pending = since /\ pending.first = first
      BY <1>6, <1>7, <2>2 DEF InTime
    <3>2. first \in 0 .. Wait /\ p.pending.first <= first
      BY <1>1, <1>3, <3>1
    <3>3. first # V!None
      BY <3>2 DEF V!None
    <3>4. pending # V!NoPending
      BY <3>1, <3>3 DEF V!NoPending
    <3>5. p # V!NoView
      BY ViewIs
    <3>6. CASE onScreen = TRUE /\ V!Waits(p)
      <4>1. p.pending.first < Wait /\ behind = p.behind + 1 /\ p.shown.of = "document" /\ first = p.pending.first + 1
        BY <1>1, <1>3, <1>8, <3>1, <3>6 DEF V!Waits
      <4>2. p.behind <= p.pending.first
        BY <2>2, <4>1 DEF InTime
      <4>3. behind \in 0 .. Wait /\ behind <= first
        BY <1>1, <3>1, <4>1, <4>2
      <4> QED BY <2>0, <3>1, <3>2, <3>4, <4>3 DEF InTime
    <3>7. CASE ~(onScreen = TRUE /\ V!Waits(p))
      <4>1. behind = p.behind
        BY <1>8, <3>7
      <4>2. p.shown.of = "document" => p.behind <= p.pending.first
        BY <2>2 DEF InTime
      <4>3. p.shown.of = "document" => behind <= first
        BY <1>1, <3>1, <3>2, <4>1, <4>2
      <4> QED BY <1>1, <2>0, <3>1, <3>2, <3>4, <4>1, <4>3 DEF InTime
    <3> QED BY <3>6, <3>7
  <2> QED BY <2>1, <2>2
<1> QED BY <1>12, <1>13

LEMMA TimePassesKeeps == ASSUME PreviewInv, V!TimePasses PROVE PreviewInv'
<1>1. /\ \A v \in drawn : V!Waits(view[v]) => view[v].pending.first < Wait
      /\ view' = [v \in Views |-> IF view[v] = V!NoView THEN V!NoView ELSE V!Older(view[v], v \in drawn)]
      /\ UNCHANGED <<previewed, doc, config, drawn, cap, trail, answers, reading, editorFirst>>
  BY DEF V!TimePasses
<1>2. ASSUME NEW w \in Views, view[w] # V!NoView
      PROVE  Aged(view[w], view'[w]) /\ ShownIn(view'[w], previewed', doc', reading') /\ InTime(view'[w])
  <2>1. view[w] \in ViewType /\ InTime(view[w]) /\ ShownIn(view[w], previewed, doc, reading)
    BY <1>2, ViewIs DEF PreviewInv, ViewsTrue
  <2>2. view'[w] = V!Older(view[w], w \in drawn)
    BY <1>1, <1>2
  <2>3. (w \in drawn) = TRUE /\ V!Waits(view[w]) => view[w].pending.first < Wait
    BY <1>1
  <2>4. (w \in drawn) \in BOOLEAN
    OBVIOUS
  <2>5. PICK on \in BOOLEAN : on = (w \in drawn)
    BY <2>4
  <2>6. view'[w] = V!Older(view[w], on) /\ (on = TRUE /\ V!Waits(view[w]) => view[w].pending.first < Wait)
    BY <2>2, <2>3, <2>5
  <2>7. Aged(view[w], view'[w]) /\ InTime(view'[w])
    BY <2>1, <2>6, OlderIs
  <2> QED BY <1>1, <2>1, <2>7 DEF Aged, ShownIn
<1>3. ASSUME NEW w \in Views, view[w] = V!NoView PROVE view'[w] = V!NoView
  BY <1>1, <1>3
<1>4. ViewsKept
  <2>1. drawn' \subseteq Views
    BY <1>1 DEF PreviewInv, ViewsTrue
  <2>2. view' \in [Views -> ViewType \cup {V!NoView}]
    <3>1. view' = [v \in Views |-> view'[v]]
      BY <1>1
    <3>2. \A w \in Views : view'[w] \in ViewType \cup {V!NoView}
      BY <1>2, <1>3 DEF Aged
    <3> QED BY <3>1, <3>2
  <2> QED BY <1>2, <1>3, <2>1, <2>2 DEF ViewsKept, ViewKept
<1>5. ViewsMove
  <2>1. "own" \in Views
    BY PreviewsSound
  <2>2. view'["own"] # V!NoView => view["own"] # V!NoView /\ view'["own"].path = view["own"].path
    BY <1>2, <1>3, <2>1 DEF Aged
  <2>3. LandedKept
    <3> SUFFICES ASSUME view["own"] # V!NoView, Landed(view["own"], doc[config.path])
                 PROVE  view'["own"] # V!NoView /\ Landed(view'["own"], doc[config.path])
      BY DEF LandedKept
    <3>1. Aged(view["own"], view'["own"])
      BY <1>2, <2>1
    <3>2. view'["own"] # V!NoView
      BY <3>1, ViewIs DEF Aged
    <3> QED BY <3>1, <3>2 DEF Aged, SameScroll, Landed
  <2>4. cap' \in Caps
    BY <1>1 DEF PreviewInv, ConfigTrue
  <2> QED BY <1>1, <2>2, <2>3, <2>4 DEF ViewsMove
<1> QED BY <1>4, <1>5, ViewsMoveKeep

LEMMA SetCapKeeps == ASSUME PreviewInv, V!SetCap PROVE PreviewInv'
<1>1. /\ cap' \in Caps /\ reading' = reading + 1
      /\ UNCHANGED <<previewed, doc, config, view, drawn, trail, answers, editorFirst>>
  BY DEF V!SetCap, V!Acts
<1>2. ViewsKept
  BY <1>1 DEF PreviewInv, ViewsTrue, ViewsKept, ViewKept, SameText
<1>3. ViewsMove
  BY <1>1 DEF ViewsMove, LandedKept
<1> QED BY <1>2, <1>3, ViewsMoveKeep

LEMMA RefreshKeeps == ASSUME PreviewInv, NEW v \in Views, V!Refresh(v) PROVE PreviewInv'
<1>1. /\ view[v] # V!NoView /\ reading' = reading + 1
      /\ view' = [view EXCEPT ![v] = [@ EXCEPT !.refresh = TRUE]]
      /\ UNCHANGED <<previewed, doc, config, drawn, cap, trail, answers, editorFirst>>
  BY DEF V!Refresh, V!Acts
<1>2. PICK q : q = [view[v] EXCEPT !.refresh = TRUE]
  OBVIOUS
<1>3. view[v] \in ViewType
  BY <1>1, ViewIs DEF PreviewInv, ViewsTrue
<1>4. q \in ViewType /\ SameText(view[v], q) /\ SameScroll(view[v], q) /\ q # V!NoView
  <2>1. q \in ViewType /\ SameText(view[v], q) /\ SameScroll(view[v], q)
    BY <1>2, <1>3 DEF ViewType, SameText, SameScroll
  <2> QED BY <2>1, ViewIs
<1>5. \A w \in Views : view'[w] = IF w = v THEN q ELSE view[w]
  BY <1>1, <1>2 DEF PreviewInv, ViewsTrue
<1>6. ViewsKept
  <2>1. view' \in [Views -> ViewType \cup {V!NoView}] /\ drawn' \subseteq Views
    BY <1>1, <1>2, <1>4 DEF PreviewInv, ViewsTrue
  <2> QED BY <1>1, <1>4, <1>5, <2>1 DEF ViewsKept, ViewKept, SameText
<1>7. ViewsMove
  <2>1. view'["own"] # V!NoView => view["own"] # V!NoView /\ view'["own"].path = view["own"].path
    BY <1>1, <1>4, <1>5, PreviewsSound DEF SameText
  <2>2. LandedKept
    <3>1. CASE v = "own"
      BY <1>4, <1>5, <3>1, PreviewsSound DEF LandedKept, Landed, SameScroll
    <3>2. CASE v # "own"
      BY <1>5, <3>2, PreviewsSound DEF LandedKept
    <3> QED BY <3>1, <3>2
  <2>3. cap' \in Caps
    BY <1>1 DEF PreviewInv, ConfigTrue
  <2> QED BY <1>1, <2>1, <2>2, <2>3 DEF ViewsMove
<1> QED BY <1>6, <1>7, ViewsMoveKeep

LEMMA ScrollPreviewKeeps == ASSUME PreviewInv, NEW v \in Views, V!ScrollPreview(v) PROVE PreviewInv'
<1>1. PICK to \in 0 .. LastOffset : view' = [view EXCEPT ![v] = [@ EXCEPT !.scroll = to]]
  BY DEF V!ScrollPreview
<1>8. /\ view[v] # V!NoView /\ reading' = reading + 1 /\ answers' = 0
      /\ UNCHANGED <<previewed, doc, config, drawn, cap, trail, editorFirst>>
  BY DEF V!ScrollPreview, V!Acts
<1>2. PICK q : q = [view[v] EXCEPT !.scroll = to]
  OBVIOUS
<1>3. view[v] \in ViewType
  BY <1>8, ViewIs DEF PreviewInv, ViewsTrue
<1>4. q \in ViewType /\ SameText(view[v], q) /\ q # V!NoView
  <2>0. to \in Offsets
    BY PreviewsSound DEF Offsets
  <2>1. q \in ViewType /\ SameText(view[v], q)
    BY <1>2, <1>3, <2>0 DEF ViewType, SameText
  <2> QED BY <2>1, ViewIs
<1>5. \A w \in Views : view'[w] = IF w = v THEN q ELSE view[w]
  BY <1>1, <1>2 DEF PreviewInv, ViewsTrue
<1>6. ViewsKept
  <2>1. view' \in [Views -> ViewType \cup {V!NoView}] /\ drawn' \subseteq Views
    BY <1>1, <1>8, <1>2, <1>4 DEF PreviewInv, ViewsTrue
  <2> QED BY <1>8, <1>4, <1>5, <2>1 DEF ViewsKept, ViewKept, SameText
<1>7. ViewsMove
  <2>1. view'["own"] # V!NoView => view["own"] # V!NoView /\ view'["own"].path = view["own"].path
    BY <1>8, <1>4, <1>5, PreviewsSound DEF SameText
  <2>3. cap' \in Caps
    BY <1>8 DEF PreviewInv, ConfigTrue
  <2> QED BY <1>8, <2>1, <2>3 DEF ViewsMove
<1> QED BY <1>6, <1>7, ViewsMoveKeep

LEMMA SwitchKeeps == ASSUME PreviewInv, V!Switch PROVE PreviewInv'
<1>1. /\ reading' = reading + 1 /\ answers' = 0
      /\ UNCHANGED <<previewed, config, cap, trail, editorFirst>>
  BY DEF V!Switch, V!Acts
<1>2. CASE \E v \in Views : drawn' = (drawn \ {v}) \cup ({v} \ drawn) /\ UNCHANGED <<doc, view>>
  <2>1. ViewsKept
    BY <1>2 DEF PreviewInv, ViewsTrue, ViewsKept, ViewKept, SameText
  <2>2. ViewsMove
    BY <1>1, <1>2 DEF ViewsMove, PreviewInv, ConfigTrue
  <2> QED BY <2>1, <2>2, ViewsMoveKeep
<1>3. ASSUME NEW f \in MarkdownFiles, doc[f] # V!NoDoc,
             doc' = [doc EXCEPT ![f].drawn = ~@], UNCHANGED <<drawn, view>>
      PROVE  PreviewInv'
  <2>1. doc[f] \in DocType /\ doc[f].id <= reading /\ reading \in Nat /\ doc[f].text # V!Gone
    BY <1>3, DocIs DEF PreviewInv, FilesTrue
  <2>2. PICK d : d = [doc[f] EXCEPT !.drawn = ~@]
    OBVIOUS
  <2>7. doc' = [doc EXCEPT ![f] = d]
    BY <1>3, <2>2
  <2>8. PICK b \in BOOLEAN : b = ~doc[f].drawn
    OBVIOUS
  <2>3. d = [id |-> doc[f].id, version |-> doc[f].version, text |-> doc[f].text, top |-> doc[f].top,
             ask |-> doc[f].ask, drawn |-> b]
    BY <2>1, <2>2, <2>8 DEF DocType
  <2>4. /\ d \in DocType /\ d.id = doc[f].id /\ d.text = doc[f].text /\ d.version = doc[f].version
        /\ d.ask = doc[f].ask
    BY <2>1, <2>3 DEF DocType
  <2>5. OnlyDoc(f, d)
    BY <1>1, <2>7 DEF OnlyDoc
  <2>6. Numbered(f, d)
    BY <1>1, <2>1, <2>4 DEF Numbered, DocType
  <2> QED BY <1>1, <1>3, <2>4, <2>5, <2>6, DocKeeps
<1>4. CASE /\ "mirror" \in Views /\ drawn' = drawn \ {"mirror"}
           /\ view' = [view EXCEPT !["mirror"] = V!NoView] /\ UNCHANGED doc
  <2>1. \A w \in Views : view'[w] = IF w = "mirror" THEN V!NoView ELSE view[w]
    BY <1>4 DEF PreviewInv, ViewsTrue
  <2>2. ViewsKept
    <3>1. view' \in [Views -> ViewType \cup {V!NoView}] /\ drawn' \subseteq Views
      BY <1>4 DEF PreviewInv, ViewsTrue
    <3> QED BY <2>1, <3>1 DEF ViewsKept, ViewKept, SameText
  <2>3. ViewsMove
    BY <1>1, <1>4, <2>1, PreviewsSound DEF ViewsMove, PreviewInv, ConfigTrue
  <2> QED BY <2>2, <2>3, ViewsMoveKeep
<1> QED BY <1>2, <1>3, <1>4 DEF V!Switch

(***************************************************************************)
(* Another place shown, and a file renamed                                 *)
(***************************************************************************)
(* The panel goes to another place, its view with it. *)
OwnGoes(q) ==
    /\ UNCHANGED <<previewed, doc, drawn, cap, editorFirst>>
    /\ reading' = reading + 1 /\ answers' = 0
    /\ config' \in ConfigType /\ trail' \in TrailType /\ Recorded(config', trail')
    /\ view' = [view EXCEPT !["own"] = q]
    /\ q \in ViewType /\ q.path = config'.path /\ ShownIn(q, previewed, doc, reading) /\ InTime(q)

LEMMA OwnGoesKeeps == ASSUME PreviewInv, NEW q, OwnGoes(q) PROVE PreviewInv'
<1>1. /\ reading \in Nat /\ reading' \in Nat /\ reading <= reading' /\ previewed' = previewed /\ doc' = doc
      /\ previewed \in DisksType /\ doc \in DocsType
  BY DEF PreviewInv, FilesTrue, OwnGoes, DisksType, DocsType
<1>2. FilesTrue'
  BY <1>1, MoreRead DEF PreviewInv
<1>3. OldNews
  BY <1>1, NoNews DEF PreviewInv
<1>4. \A w \in Views : view'[w] = IF w = "own" THEN q ELSE view[w]
  BY DEF PreviewInv, ViewsTrue, OwnGoes
<1>5. ShownIn(q, previewed', doc', reading')
  <2>1. q \in ViewType /\ ShownIn(q, previewed, doc, reading)
    BY DEF OwnGoes
  <2> QED BY <1>1, <1>3, <2>1, NewsTrue DEF OldNews
<1>6. ViewsTrue'
  <2>1. view' \in [Views -> ViewType \cup {V!NoView}] /\ drawn' \subseteq Views
    BY DEF PreviewInv, ViewsTrue, OwnGoes
  <2>2. ASSUME NEW w \in Views PROVE ViewKept(w)
    <3>1. CASE w = "own"
      BY <1>4, <1>5, <3>1 DEF ViewKept, OwnGoes
    <3>2. CASE w # "own"
      BY <1>4, <3>2 DEF ViewKept, SameText
    <3> QED BY <3>1, <3>2
  <2>3. ViewsKept
    BY <2>1, <2>2 DEF ViewsKept
  <2> QED BY <1>2, <1>3, <2>3, ViewsKeep
<1>7. ConfigTrue'
  BY DEF PreviewInv, ConfigTrue, OwnGoes
<1>8. Own'
  <2>1. answers' \in {0, 1} /\ ~(answers' = 1) /\ UNCHANGED <<doc, editorFirst>>
    BY DEF OwnGoes
  <2>2. view'["own"].path = config'.path
    BY <1>4, PreviewsSound DEF OwnGoes
  <2> QED BY <2>1, <2>2 DEF PreviewInv, Own
<1> QED BY <1>2, <1>6, <1>7, <1>8 DEF PreviewInv

(* A jump or a restore is asked of a view. *)
Asked(p, q) == q \in ViewType /\ SameText(p, q)
LEMMA JumpIs == ASSUME NEW p \in ViewType, NEW jump \in Jumps PROVE Asked(p, [p EXCEPT !.jump = jump])
BY DEF ViewType, SameText, Asked
LEMMA RestoreIs == ASSUME NEW p \in ViewType, NEW restore \in Int PROVE Asked(p, [p EXCEPT !.restore = restore])
BY DEF ViewType, SameText, Asked

LEMMA OpenKeeps ==
    ASSUME PreviewInv, NEW path \in MarkdownFiles, NEW jump \in DOMAIN Tops, V!Open(path, jump)
    PROVE  PreviewInv'
<1>1. PICK p : p = view["own"]
  OBVIOUS
<1>2. PICK q : q = IF p.path = path THEN [p EXCEPT !.jump = jump] ELSE V!NewView(path, jump)
  OBVIOUS
<1>3. PICK scroll : scroll = p.scroll
  OBVIOUS
<1>4. /\ p # V!NoView /\ reading' = reading + 1 /\ answers' = 0
      /\ config' = V!Opened(config, path, scroll, cap)
      /\ trail' = OnTrail(trail, scroll, path)
      /\ view' = [view EXCEPT !["own"] = q]
      /\ UNCHANGED <<previewed, doc, drawn, cap, editorFirst>>
  BY <1>1, <1>2, <1>3 DEF V!Open, V!Acts, OnTrail
<1>5. p \in ViewType /\ ShownIn(p, previewed, doc, reading) /\ InTime(p) /\ scroll \in Int
  BY <1>1, <1>3, <1>4, ViewIs, ViewFields, PreviewsSound DEF PreviewInv, ViewsTrue
<1>6. /\ config' \in ConfigType /\ config'.path = path /\ trail' \in TrailType
      /\ Recorded(config', trail')
  <2>1. config \in ConfigType /\ trail \in TrailType /\ Recorded(config, trail) /\ cap \in Caps
    BY DEF PreviewInv, ConfigTrue
  <2> QED BY <1>4, <1>5, <2>1, OpenedIs
<1>7. q \in ViewType /\ q.path = path /\ ShownIn(q, previewed, doc, reading) /\ InTime(q)
  <2>1. jump \in Jumps
    BY DEF Jumps
  <2>2. CASE p.path = path
    <3>1. Asked(p, q)
      BY <1>2, <1>5, <2>1, <2>2, JumpIs
    <3> QED BY <1>5, <2>2, <3>1, SameTextTrue DEF Asked, SameText
  <2>3. CASE p.path # path
    <3>1. doc \in [MarkdownFiles -> DocType \cup {V!NoDoc}] /\ reading \in Nat
      BY DEF PreviewInv, FilesTrue
    <3>2. q = V!NewView(path, jump)
      BY <1>2, <2>3
    <3> QED BY <2>1, <3>1, <3>2, NewViewIs
  <2> QED BY <2>2, <2>3
<1>8. OwnGoes(q)
  BY <1>4, <1>6, <1>7 DEF OwnGoes
<1> QED BY <1>8, OwnGoesKeeps

LEMMA StepKeeps ==
    ASSUME PreviewInv, NEW by \in Int, by # 0, V!Step(by)
    PROVE  PreviewInv'
<1>1. PICK p : p = view["own"]
  OBVIOUS
<1>2. PICK c : c = V!Started(V!Capped(config, cap))
  OBVIOUS
<1>3. PICK to : to = c.at + by
  OBVIOUS
<1>4. PICK there : there = IF p.path = c.history[to].path THEN p ELSE V!NewView(c.history[to].path, V!None)
  OBVIOUS
<1>5. PICK q : q = [there EXCEPT !.restore = c.history[to].scroll]
  OBVIOUS
<1>6. /\ p # V!NoView /\ reading' = reading + 1 /\ answers' = 0 /\ to \in DOMAIN c.history
      /\ config' = GoneTo(c, to, p.scroll)
      /\ trail' = TrailTo(trail, by, p.scroll)
      /\ view' = [view EXCEPT !["own"] = q]
      /\ UNCHANGED <<previewed, doc, drawn, cap, editorFirst>>
  BY <1>1, <1>2, <1>3, <1>4, <1>5 DEF V!Step, V!Acts, GoneTo, TrailTo
<1>7. p \in ViewType /\ ShownIn(p, previewed, doc, reading) /\ InTime(p) /\ p.scroll \in Int
  BY <1>1, <1>6, ViewIs, ViewFields, PreviewsSound DEF PreviewInv, ViewsTrue
<1>8. PICK n \in Caps : c \in ConfigType /\ RunOf(c, trail) /\ Len(c.history) <= n
  <2>1. config \in ConfigType /\ trail \in TrailType /\ Recorded(config, trail) /\ cap \in Caps
    BY DEF PreviewInv, ConfigTrue
  <2>2. PICK o \in ConfigType : o = V!Capped(config, cap) /\ Recorded(o, trail)
    BY <2>1, CappedRecorded
  <2>3. c = V!Started(o)
    BY <1>2, <2>2
  <2> QED BY <2>1, <2>2, <2>3, StartedIs
<1>9. PICK x \in PlaceType : x = c.history[to]
  BY <1>6, <1>8 DEF ConfigType
<1>10. /\ config' \in ConfigType /\ config'.path = x.path /\ trail' \in TrailType
       /\ Recorded(config', trail')
  <2>1. trail \in TrailType /\ c.at + by \in 1 .. Len(c.history)
    BY <1>3, <1>6, <1>8 DEF PreviewInv, ConfigTrue, ConfigType
  <2>2. /\ GoneTo(c, c.at + by, p.scroll) \in ConfigType /\ TrailTo(trail, by, p.scroll) \in TrailType
        /\ Recorded(GoneTo(c, c.at + by, p.scroll), TrailTo(trail, by, p.scroll))
    BY <1>7, <1>8, <2>1, SteppedIs
  <2>3. config'.path = x.path
    BY <1>6, <1>9 DEF GoneTo
  <2> QED BY <1>3, <1>6, <2>2, <2>3
<1>11. there \in ViewType /\ there.path = x.path /\ ShownIn(there, previewed, doc, reading) /\ InTime(there)
  <2>1. V!None \in Jumps /\ x.path \in MarkdownFiles
    BY DEF Jumps, PlaceType
  <2>2. CASE p.path = x.path
    BY <1>4, <1>7, <1>9, <2>2
  <2>3. CASE p.path # x.path
    <3>1. doc \in [MarkdownFiles -> DocType \cup {V!NoDoc}] /\ reading \in Nat
      BY DEF PreviewInv, FilesTrue
    <3>2. there = V!NewView(x.path, V!None)
      BY <1>4, <1>9, <2>3
    <3> QED BY <2>1, <3>1, <3>2, NewViewIs
  <2> QED BY <2>2, <2>3
<1>12. q \in ViewType /\ q.path = x.path /\ ShownIn(q, previewed, doc, reading) /\ InTime(q)
  <2>1. PICK restore \in Int : restore = c.history[to].scroll
    BY <1>9 DEF PlaceType
  <2>2. q = [there EXCEPT !.restore = restore]
    BY <1>5, <2>1
  <2>3. Asked(there, q)
    BY <1>11, <2>2, RestoreIs
  <2> QED BY <1>11, <2>3, SameTextTrue DEF Asked, SameText
<1>13. OwnGoes(q)
  BY <1>6, <1>10, <1>12 DEF OwnGoes
<1> QED BY <1>13, OwnGoesKeeps

(* A file renamed. *)
RenamedView(p, f, g, q) ==
    /\ q \in ViewType /\ q.path = V!To(f, g, p.path) /\ q.shown = p.shown /\ q.text = p.text
    /\ q.from = p.from /\ q.pending = p.pending /\ q.behind = p.behind /\ SameScroll(p, q)
LEMMA MovedView ==
    ASSUME NEW p \in ViewType, NEW f \in MarkdownFiles, NEW g \in MarkdownFiles
    PROVE  RenamedView(p, f, g, V!Moved(f, g, p))
<1>1. PICK now \in MarkdownFiles : now = V!To(f, g, p.path)
  BY DEF V!To, ViewType
<1>2. PICK q : q = V!Moved(f, g, p)
  OBVIOUS
<1>3. q = [p EXCEPT !.path = now]
  BY <1>1, <1>2 DEF V!Moved
<1> QED BY <1>1, <1>2, <1>3 DEF ViewType, RenamedView, SameScroll

FileMoves(f, g) ==
    /\ f # g /\ previewed[f].text # V!Gone /\ doc[g] = V!NoDoc /\ reading' = reading + 1
    /\ \A h \in MarkdownFiles : previewed'[h] = IF h = f THEN [text |-> V!Gone, stamp |-> V!None]
                                                ELSE IF h = g THEN previewed[f] ELSE previewed[h]
    /\ \A h \in MarkdownFiles : doc'[h] = IF h = f THEN V!NoDoc
                                          ELSE IF h = g THEN doc[f] ELSE doc[h]
    /\ previewed' \in DisksType /\ doc' \in DocsType

LEMMA FileMovesTrue ==
    ASSUME FilesTrue, NEW f \in MarkdownFiles, NEW g \in MarkdownFiles, FileMoves(f, g)
    PROVE  FilesTrue'
<1>1. reading \in Nat /\ reading' \in Nat /\ reading <= reading'
  BY DEF FilesTrue, FileMoves
<1>2. \A h \in MarkdownFiles : previewed[h].stamp \in Int /\ previewed[h].stamp <= reading'
  BY <1>1 DEF FilesTrue
<1>3. \A h \in MarkdownFiles : /\ previewed'[h].text = V!Gone <=> previewed'[h].stamp = V!None
                               /\ previewed'[h].stamp <= reading'
  BY <1>1, <1>2 DEF FilesTrue, FileMoves, V!None
<1>4. ASSUME NEW h \in MarkdownFiles, NEW k \in MarkdownFiles, h # k, previewed'[h].stamp = previewed'[k].stamp
      PROVE  previewed'[h].stamp = V!None
  <2> DEFINE was(x) == IF x = g THEN f ELSE x
  <2>1. CASE h = f \/ k = f
    BY <1>4, <2>1 DEF FileMoves
  <2>2. CASE h # f /\ k # f
    <3>1. was(h) # was(k) /\ previewed'[h] = previewed[was(h)] /\ previewed'[k] = previewed[was(k)]
      BY <1>4, <2>2 DEF FileMoves
    <3>2. was(h) \in MarkdownFiles /\ was(k) \in MarkdownFiles
      OBVIOUS
    <3> QED BY <1>4, <3>1, <3>2 DEF FilesTrue
  <2> QED BY <2>1, <2>2
<1>5. \A h \in MarkdownFiles : doc[h] # V!NoDoc => doc[h].id \in Nat /\ doc[h].id <= reading'
  BY <1>1, DocIs DEF FilesTrue, DocType
<1>6. \A h \in MarkdownFiles : doc'[h] # V!NoDoc => doc'[h].id <= reading' /\ doc'[h].text # V!Gone
  BY <1>5 DEF FilesTrue, FileMoves
<1>7. ASSUME NEW h \in MarkdownFiles, NEW k \in MarkdownFiles, h # k, doc'[h].id = doc'[k].id
      PROVE  doc'[h] = V!NoDoc /\ doc'[k] = V!NoDoc
  <2> DEFINE was(x) == IF x = g THEN f ELSE x
  <2>0. doc'[h] \in DocType \cup {V!NoDoc} /\ doc'[k] \in DocType \cup {V!NoDoc}
    BY DEF FileMoves, DocsType
  <2>1. CASE h = f \/ k = f
    <3>1. V!NoDoc.id = V!None
      BY DEF V!NoDoc
    <3> QED BY <1>7, <2>0, <2>1, <3>1, DocIs DEF FileMoves
  <2>2. CASE h # f /\ k # f
    <3>1. was(h) # was(k) /\ doc'[h] = doc[was(h)] /\ doc'[k] = doc[was(k)]
      BY <1>7, <2>2 DEF FileMoves
    <3>2. was(h) \in MarkdownFiles /\ was(k) \in MarkdownFiles
      OBVIOUS
    <3> QED BY <1>7, <3>1, <3>2 DEF FilesTrue
  <2> QED BY <2>1, <2>2
<1> QED BY <1>1, <1>3, <1>4, <1>6, <1>7 DEF FilesTrue, FileMoves, DisksType, DocsType

LEMMA ShownMoved ==
    ASSUME FilesTrue, NEW f \in MarkdownFiles, NEW g \in MarkdownFiles, FileMoves(f, g),
           NEW p \in ViewType, NEW q, RenamedView(p, f, g, q),
           ShownIn(p, previewed, doc, reading), InTime(p)
    PROVE  ShownIn(q, previewed', doc', reading') /\ InTime(q)
<1>1. reading \in Nat /\ reading' = reading + 1 /\ f # g
  BY DEF FilesTrue, FileMoves
<1>2. p.from \in Int /\ p.shown \in ShownType
  BY ViewFields
<1>3. q.from <= reading' /\ (q.shown.of = "disk" => q.shown.stamp <= reading')
  <2>1. p.from <= reading /\ (p.shown.of = "disk" => p.shown.stamp <= reading /\ p.shown.stamp \in Int)
    BY <1>2, ShownIs DEF ShownIn
  <2>2. q.from = p.from /\ q.shown = p.shown
    BY DEF RenamedView
  <2> QED BY <1>1, <1>2, <2>1, <2>2
<1> DEFINE was(x) == IF x = g THEN f ELSE x
<1>4. \A h \in MarkdownFiles : h # f => was(h) \in MarkdownFiles /\ (p.path = was(h) => V!To(f, g, p.path) = h)
  BY <1>1 DEF V!To
<1>5. ASSUME NEW h \in MarkdownFiles, previewed'[h].text # V!Gone, q.shown = V!OfDisk(previewed'[h].stamp)
      PROVE  q.path = h /\ q.text = previewed'[h].text
  <2>1. h # f
    BY <1>5 DEF FileMoves
  <2>2. previewed'[h] = previewed[was(h)]
    BY <1>1, <2>1 DEF FileMoves
  <2>3. p.path = was(h) /\ p.text = previewed[was(h)].text
    BY <1>4, <1>5, <2>1, <2>2 DEF ShownIn, RenamedView
  <2> QED BY <1>4, <2>1, <2>2, <2>3 DEF RenamedView
<1>6. ASSUME NEW h \in MarkdownFiles, doc'[h] # V!NoDoc, q.from = doc'[h].id
      PROVE  /\ q.path = h
             /\ q.shown.of = "document" =>
                  /\ q.shown.version <= doc'[h].version
                  /\ q.shown.version = doc'[h].version => q.text = doc'[h].text
  <2>1. h # f
    BY <1>6 DEF FileMoves
  <2>2. doc'[h] = doc[was(h)]
    BY <1>1, <2>1 DEF FileMoves
  <2>3. /\ p.path = was(h)
        /\ p.shown.of = "document" =>
             /\ p.shown.version <= doc[was(h)].version
             /\ p.shown.version = doc[was(h)].version => p.text = doc[was(h)].text
    BY <1>4, <1>6, <2>1, <2>2 DEF ShownIn, RenamedView
  <2> QED BY <1>4, <2>1, <2>2, <2>3 DEF RenamedView
<1>7. ShownIn(q, previewed', doc', reading')
  BY <1>3, <1>5, <1>6 DEF ShownIn
<1>8. InTime(q)
  BY DEF InTime, RenamedView
<1> QED BY <1>7, <1>8

LEMMA RenamesKeeps ==
    ASSUME PreviewInv, NEW f \in MarkdownFiles, NEW g \in MarkdownFiles, V!Renames(f, g)
    PROVE  PreviewInv'
<1>1. /\ previewed[f].text # V!Gone /\ previewed[g].text = V!Gone /\ doc[g] = V!NoDoc
      /\ reading' = reading + 1
      /\ previewed' = [previewed EXCEPT ![g] = previewed[f], ![f] = [text |-> V!Gone, stamp |-> V!None]]
      /\ doc' = [doc EXCEPT ![g] = doc[f], ![f] = V!NoDoc]
      /\ config' = RenamedIn(config, f, g)
      /\ view' = [v \in Views |-> IF view[v] = V!NoView THEN V!NoView ELSE V!Moved(f, g, view[v])]
      /\ trail' = RenamedTrail(trail, f, g)
      /\ answers' = IF config.path = g THEN 0 ELSE answers
      /\ UNCHANGED <<drawn, cap, editorFirst>>
  BY DEF V!Renames, V!Acts, RenamedIn, RenamedTrail
<1>2. f # g
  BY <1>1
<1>3. FileMoves(f, g)
  <2>1. PICK x : x = [text |-> V!Gone, stamp |-> V!None]
    OBVIOUS
  <2>2. x \in [text : Nat, stamp : Int]
    BY <2>1 DEF V!Gone, V!None
  <2>3. previewed' = [previewed EXCEPT ![g] = previewed[f], ![f] = x]
    BY <1>1, <2>1
  <2>4. previewed' \in DisksType /\ \A h \in MarkdownFiles : previewed'[h] = IF h = f THEN x
                                                ELSE IF h = g THEN previewed[f] ELSE previewed[h]
    BY <1>2, <2>2, <2>3 DEF PreviewInv, FilesTrue, DisksType
  <2>5. doc' \in DocsType /\ \A h \in MarkdownFiles : doc'[h] = IF h = f THEN V!NoDoc
                                          ELSE IF h = g THEN doc[f] ELSE doc[h]
    BY <1>1, <1>2 DEF PreviewInv, FilesTrue, DocsType
  <2> QED BY <1>1, <1>2, <2>1, <2>4, <2>5 DEF FileMoves
<1>4. FilesTrue'
  BY <1>3, FileMovesTrue DEF PreviewInv
<1>5. ASSUME NEW w \in Views, view[w] # V!NoView
      PROVE  /\ RenamedView(view[w], f, g, view'[w])
             /\ ShownIn(view'[w], previewed', doc', reading') /\ InTime(view'[w])
  <2>1. view[w] \in ViewType /\ InTime(view[w]) /\ ShownIn(view[w], previewed, doc, reading)
    BY <1>5, ViewIs DEF PreviewInv, ViewsTrue
  <2>2. view'[w] = V!Moved(f, g, view[w])
    BY <1>1, <1>5
  <2>3. RenamedView(view[w], f, g, view'[w])
    BY <2>1, <2>2, MovedView
  <2> QED BY <1>3, <2>1, <2>3, ShownMoved DEF PreviewInv
<1>6. ASSUME NEW w \in Views, view[w] = V!NoView PROVE view'[w] = V!NoView
  BY <1>1, <1>6
<1>7. ViewsTrue'
  <2>1. drawn' \subseteq Views
    BY <1>1 DEF PreviewInv, ViewsTrue
  <2>2. view' \in [Views -> ViewType \cup {V!NoView}]
    <3>1. view' = [v \in Views |-> view'[v]]
      BY <1>1
    <3>2. \A w \in Views : view'[w] \in ViewType \cup {V!NoView}
      BY <1>5, <1>6 DEF RenamedView
    <3> QED BY <3>1, <3>2
  <2> QED BY <1>5, <1>6, <2>1, <2>2 DEF ViewsTrue
<1>8. /\ config' \in ConfigType /\ trail' \in TrailType /\ Recorded(config', trail')
      /\ config'.path = V!To(f, g, config.path)
  BY <1>1, RenamedRecorded DEF PreviewInv, ConfigTrue
<1>9. ConfigTrue'
  BY <1>1, <1>8 DEF PreviewInv, ConfigTrue
<1>10. Own'
  <2>1. "own" \in Views /\ config.path \in MarkdownFiles
    BY PreviewsSound DEF PreviewInv, ConfigTrue, ConfigType
  <2>2. view'["own"] # V!NoView => view'["own"].path = config'.path
    BY <1>5, <1>6, <1>8, <2>1 DEF PreviewInv, Own, RenamedView
  <2>3. editorFirst' # TRUE => \A h \in MarkdownFiles : doc'[h] # V!NoDoc => doc'[h].ask = V!None
    <3> SUFFICES ASSUME editorFirst # TRUE, NEW h \in MarkdownFiles, doc'[h] # V!NoDoc
                 PROVE  doc'[h].ask = V!None
      BY <1>1
    <3>1. doc'[h] = doc[f] \/ doc'[h] = doc[h]
      BY <1>3 DEF FileMoves
    <3> QED BY <3>1 DEF PreviewInv, Own
  <2>4. CASE config.path = g
    <3>1. answers' \in {0, 1} /\ ~(answers' = 1)
      BY <1>1, <2>4
    <3> QED BY <2>2, <2>3, <3>1 DEF Own
  <2>5. CASE config.path # g
    <3>1. answers' = answers
      BY <1>1, <2>5
    <3>2. doc'[config'.path] = doc[config.path]
      BY <1>2, <1>3, <1>8, <2>1, <2>5 DEF FileMoves, V!To
    <3>3. ASSUME view["own"] # V!NoView, Landed(view["own"], doc[config.path])
          PROVE  view'["own"] # V!NoView /\ Landed(view'["own"], doc'[config'.path])
      <4>1. RenamedView(view["own"], f, g, view'["own"])
        BY <1>5, <2>1, <3>3
      <4>2. view'["own"] # V!NoView
        BY <4>1, ViewIs DEF RenamedView
      <4> QED BY <3>2, <3>3, <4>1, <4>2 DEF RenamedView, SameScroll, Landed
    <3>4. answers' \in {0, 1} /\ (answers' = 1 => view'["own"] # V!NoView /\ Landed(view'["own"], doc'[config'.path]))
      BY <3>1, <3>3 DEF PreviewInv, Own
    <3> QED BY <2>2, <2>3, <3>4 DEF Own
  <2> QED BY <2>4, <2>5
<1> QED BY <1>4, <1>7, <1>9, <1>10 DEF PreviewInv

(***************************************************************************)
(* From the first state on                                                 *)
(***************************************************************************)
LEMMA NumbersFiles ==
    /\ V!Cardinality(MarkdownFiles) \in Nat
    /\ \E n \in [MarkdownFiles -> 1 .. V!Cardinality(MarkdownFiles)] : V!IsInjective(n)
<1>1. V!Cardinality(MarkdownFiles) = Cardinality(MarkdownFiles)
  BY DEF V!Cardinality, Cardinality
<1>2. Cardinality(MarkdownFiles) \in Nat /\ ExistsBijection(1 .. Cardinality(MarkdownFiles), MarkdownFiles)
  BY PreviewsSound, FS_CardinalityType
<1>3. ExistsBijection(MarkdownFiles, 1 .. Cardinality(MarkdownFiles))
  BY <1>2, Fun_ExistsBijSymmetric
<1>4. PICK n : n \in Bijection(MarkdownFiles, 1 .. Cardinality(MarkdownFiles))
  BY <1>3, Fun_ExistsBij
<1>5. n \in [MarkdownFiles -> 1 .. Cardinality(MarkdownFiles)] /\ V!IsInjective(n)
  BY <1>4 DEF Bijection, Injection, V!IsInjective, IsInjective
<1> QED BY <1>1, <1>2, <1>5

LEMMA MostIs == V!Max(Caps) \in Caps /\ \A n \in Caps : n <= V!Max(Caps)
<1>1. \E most \in Caps : \A n \in Caps : most >= n
  BY PreviewsSound
<1> QED BY <1>1, PreviewsSound DEF V!Max

LEMMA InitPreview == V!Init => PreviewInv
<1> SUFFICES ASSUME V!Init PROVE PreviewInv
  OBVIOUS
<1>1. PICK number : /\ number \in [MarkdownFiles -> 1 .. V!Cardinality(MarkdownFiles)] /\ V!IsInjective(number)
                    /\ previewed = [f \in MarkdownFiles |-> [text |-> number[f], stamp |-> number[f]]]
  BY NumbersFiles DEF V!Init
<1>2. PICK f \in MarkdownFiles :
           /\ doc \in {[g \in MarkdownFiles |-> V!NoDoc],
                      [g \in MarkdownFiles |-> IF g = f THEN V!NewDoc(g, 0) ELSE V!NoDoc]}
           /\ config = [path |-> f, history |-> <<>>, at |-> 1]
           /\ trail = [places |-> <<V!Place(f, 0)>>, at |-> 1]
  BY DEF V!Init
<1>3. /\ view = [v \in Views |-> V!NoView] /\ drawn = {"own"} /\ cap = V!Max(Caps) /\ answers = 0
      /\ reading = V!Cardinality(MarkdownFiles)
  BY DEF V!Init
<1>4. reading \in Nat
  BY <1>3, NumbersFiles
<1>5. \A g \in MarkdownFiles : number[g] \in 1 .. reading /\ number[g] \in Nat /\ number[g] # 0
  BY <1>1, <1>3, <1>4
<1>6. ASSUME NEW g \in MarkdownFiles, NEW h \in MarkdownFiles, number[g] = number[h] PROVE g = h
  BY <1>1, <1>6 DEF V!IsInjective
<1>7. ASSUME NEW g \in MarkdownFiles
      PROVE  previewed[g] = [text |-> number[g], stamp |-> number[g]] /\ previewed[g] \in [text : Nat, stamp : Int]
  BY <1>1, <1>5
<1>8. ASSUME NEW g \in MarkdownFiles PROVE previewed[g].text = number[g] /\ previewed[g].stamp = number[g]
  <2>1. PICK x : x = number[g]
    OBVIOUS
  <2>2. previewed[g] = [text |-> x, stamp |-> x]
    BY <1>7, <2>1
  <2>3. previewed[g].text = x /\ previewed[g].stamp = x
    BY <2>2
  <2> QED BY <2>1, <2>3
<1>9. PICK d : d = V!NewDoc(f, 0)
  OBVIOUS
<1>10. d \in DocType /\ d.id = 0 /\ d.text = number[f] /\ d.ask = V!None
  <2>1. d = [id |-> 0, version |-> 0, text |-> number[f], top |-> 0, ask |-> V!None, drawn |-> TRUE]
    BY <1>8, <1>9 DEF V!NewDoc
  <2>2. V!None \in Int
    BY DEF V!None
  <2> QED BY <1>5, <2>1, <2>2 DEF DocType
<1>11. \A g \in MarkdownFiles : doc[g] = V!NoDoc \/ (g = f /\ doc[g] = d)
  BY <1>2, <1>9
<1>12. FilesTrue
  <2>1. previewed \in [MarkdownFiles -> [text : Nat, stamp : Int]]
    BY <1>1, <1>7
  <2>2. doc \in [MarkdownFiles -> DocType \cup {V!NoDoc}]
    <3>1. doc = [g \in MarkdownFiles |-> doc[g]]
      BY <1>2
    <3> QED BY <1>10, <1>11, <3>1
  <2>3. \A g \in MarkdownFiles : /\ previewed[g].text = V!Gone <=> previewed[g].stamp = V!None
                                 /\ previewed[g].stamp <= reading
    BY <1>4, <1>5, <1>8 DEF V!Gone, V!None
  <2>4. \A g, h \in MarkdownFiles :
          g # h /\ previewed[g].stamp = previewed[h].stamp => previewed[g].stamp = V!None
    BY <1>6, <1>8
  <2>5. \A g \in MarkdownFiles : doc[g] # V!NoDoc => doc[g].id <= reading /\ doc[g].text # V!Gone
    BY <1>4, <1>5, <1>10, <1>11 DEF V!Gone
  <2>6. \A g, h \in MarkdownFiles : g # h /\ doc[g].id = doc[h].id => doc[g] = V!NoDoc /\ doc[h] = V!NoDoc
    <3>1. V!NoDoc.id # 0
      BY DEF V!NoDoc, V!None
    <3> QED BY <1>10, <1>11, <3>1
  <2> QED BY <1>4, <2>1, <2>2, <2>3, <2>4, <2>5, <2>6 DEF FilesTrue
<1>13. ConfigTrue
  <2>1. PICK x \in PlaceType : x = V!Place(f, 0) /\ x.path = f
    <3>1. V!Place(f, 0) \in PlaceType /\ V!Place(f, 0).path = f
      BY DEF V!Place, PlaceType
    <3> QED BY <3>1
  <2>2. trail = [places |-> <<x>>, at |-> 1] /\ <<x>> \in Seq(PlaceType) /\ Len(<<x>>) = 1 /\ <<x>>[1] = x
    BY <1>2, <2>1
  <2>3. config \in ConfigType /\ trail \in TrailType
    BY <1>2, <2>2 DEF ConfigType, TrailType
  <2>4. Recorded(config, trail)
    BY <1>2, <2>1, <2>2 DEF Recorded
  <2> QED BY <1>3, <2>3, <2>4, MostIs DEF ConfigTrue
<1>14. ViewsTrue
  BY <1>3, PreviewsSound DEF ViewsTrue
<1>15. Own
  <2>1. view["own"] = V!NoView /\ answers \in {0, 1} /\ ~(answers = 1)
    BY <1>3, PreviewsSound
  <2>2. \A g \in MarkdownFiles : doc[g] # V!NoDoc => doc[g].ask = V!None
    BY <1>10, <1>11
  <2> QED BY <2>1, <2>2 DEF Own
<1> QED BY <1>12, <1>13, <1>14, <1>15 DEF PreviewInv

LEMMA NextPreview == ASSUME PreviewInv, V!Next PROVE PreviewInv'
<1>1. CASE V!Frame
  BY <1>1, DrawsKeeps DEF V!Frame
<1>2. CASE \E f \in MarkdownFiles : \/ V!Type(f) \/ V!Save(f) \/ V!Reload(f) \/ V!OpenEditor(f)
                                    \/ V!CloseEditor(f) \/ V!Outside(f) \/ V!ScrollEditor(f)
  BY <1>2, TypeKeeps, SaveKeeps, ReloadKeeps, OpenEditorKeeps, CloseEditorKeeps, OutsideKeeps, ScrollEditorKeeps
<1>3. CASE \E f \in MarkdownFiles : \/ \E g \in MarkdownFiles : V!Renames(f, g)
                                    \/ \E jump \in DOMAIN Tops : V!Open(f, jump)
  BY <1>3, RenamesKeeps, OpenKeeps
<1>4. CASE \E v \in Views : V!Refresh(v) \/ V!ScrollPreview(v)
  BY <1>4, RefreshKeeps, ScrollPreviewKeeps
<1>5. CASE V!Step(-1) \/ V!Step(1)
  BY <1>5, StepKeeps
<1> QED BY <1>1, <1>2, <1>3, <1>4, <1>5, TimePassesKeeps, SwitchKeeps, SetCapKeeps DEF V!Next

LEMMA PreviewProperties ==
    PreviewInv => V!ShowsTheFile /\ V!NeverLate /\ V!NeverChase /\ V!HistoryIsTheTrail
<1> SUFFICES ASSUME PreviewInv PROVE V!ShowsTheFile /\ V!NeverLate /\ V!NeverChase /\ V!HistoryIsTheTrail
  OBVIOUS
<1>1. ASSUME NEW v \in Views, view[v] # V!NoView
      PROVE  /\ view[v] \in ViewType /\ view[v].path \in MarkdownFiles
             /\ ShownIn(view[v], previewed, doc, reading) /\ InTime(view[v])
  <2>1. view[v] \in ViewType
    BY <1>1, ViewIs DEF PreviewInv, ViewsTrue
  <2> QED BY <1>1, <2>1, ViewFields DEF PreviewInv, ViewsTrue
<1>2. V!ShowsTheFile
  <2> SUFFICES ASSUME NEW v \in Views, view[v] # V!NoView
               PROVE  /\ doc[view[v].path] # V!NoDoc /\ view[v].shown = V!OfDoc(doc[view[v].path].version)
                             /\ view[v].from = doc[view[v].path].id => view[v].text = doc[view[v].path].text
                      /\ doc[view[v].path] = V!NoDoc /\ view[v].shown = V!OfDisk(previewed[view[v].path].stamp)
                             /\ previewed[view[v].path].text # V!Gone => view[v].text = previewed[view[v].path].text
    BY DEF V!ShowsTheFile
  <2>1. PICK f \in MarkdownFiles : f = view[v].path
    BY <1>1
  <2>2. ASSUME doc[f] # V!NoDoc, view[v].shown = V!OfDoc(doc[f].version), view[v].from = doc[f].id
        PROVE  view[v].text = doc[f].text
    <3>1. doc[f].version \in Nat
      BY <2>2, DocIs DEF PreviewInv, FilesTrue, DocType
    <3>2. view[v].shown.of = "document" /\ view[v].shown.version = doc[f].version
      BY <2>2, <3>1, ShownIs
    <3> QED BY <1>1, <2>2, <3>2 DEF ShownIn
  <2>3. ASSUME view[v].shown = V!OfDisk(previewed[f].stamp), previewed[f].text # V!Gone
        PROVE  view[v].text = previewed[f].text
    BY <1>1, <2>3 DEF ShownIn
  <2> QED BY <2>1, <2>2, <2>3
<1>3. V!NeverLate
  BY <1>1, PreviewsSound DEF V!NeverLate, InTime
<1>4. V!NeverChase
  BY DEF V!NeverChase, PreviewInv, Own
<1>5. V!HistoryIsTheTrail
  <2>1. config \in ConfigType /\ trail \in TrailType /\ Recorded(config, trail)
    BY DEF PreviewInv, ConfigTrue
  <2>2. PICK c \in ConfigType : c = V!Started(config)
    BY <2>1, StartedIs
  <2>3. PICK n \in Caps : c.path = config.path /\ RunOf(c, trail) /\ Len(c.history) <= n
    BY <2>1, <2>2, StartedIs
  <2>4. Len(c.history) <= V!Max(Caps)
    <3>1. PICK most : most = V!Max(Caps)
      OBVIOUS
    <3>2. most \in Caps /\ n <= most
      BY <3>1, MostIs
    <3>3. n \in Nat /\ most \in Nat
      BY <3>2, PreviewsSound
    <3>4. c.history \in Seq(PlaceType)
      BY DEF ConfigType
    <3>5. Len(c.history) \in Nat
      BY <3>4
    <3>6. Len(c.history) <= most
      BY <2>3, <3>2, <3>3, <3>5
    <3> QED BY <3>1, <3>6
  <2>5. DOMAIN c.history = 1 .. Len(c.history) /\ trail.at \in Nat /\ c.at \in Nat
    BY <2>1 DEF ConfigType, TrailType
  <2>6. trail.at - c.at >= 0
    BY <2>3, <2>5 DEF RunOf
  <2> QED BY <2>2, <2>3, <2>4, <2>5, <2>6 DEF V!HistoryIsTheTrail, RunOf
<1> QED BY <1>2, <1>3, <1>4, <1>5
=============================================================================
