------------------------------ MODULE FileOps ------------------------------
(***************************************************************************)
(* The file tree's operations on a project's folder: create, rename, move, *)
(* copy, trash, and the history that undoes and redoes them, on a disk and *)
(* a trash other programs change too.                                      *)
(*                                                                         *)
(* A path is the sequence of its names, the root <<>>; what is there is an *)
(* item, with an identity of its own and whether it is a folder.           *)
(***************************************************************************)
EXTENDS Integers, Sequences, FiniteSets, SequencesExt

CONSTANTS
    Names,
    MaxDepth,     \* bound: names in a path
    Limit,        \* operations kept in a history
    MaxItems,     \* bound: items made or trashed
    MaxOutside,   \* bound: changes made by other programs
    MaxOps        \* bound: operations recorded

VARIABLES
    tree,         \* path :> item
    bin,          \* the trash: token :> [path, items: subtree, relative path :> item]
    undo, redo,   \* what can be undone and redone, oldest first
    items,        \* the items nobody but the user of another program has destroyed
    mixed,        \* something the history has no record of changed the disk
    fresh, outside, ops  \* counters for the bounds

vars == <<tree, bin, undo, redo, items, mixed, fresh, outside, ops>>

Paths == UNION {[1 .. n -> Names] : n \in 1 .. MaxDepth}
Root == <<>>
Parent(p) == Front(p)
Under(t, p) == {q \in DOMAIN t : IsPrefix(p, q)}
Rest(p, q) == SubSeq(q, Len(p) + 1, Len(q))
Exists(p) == p \in DOMAIN tree
IsDir(p) == p = Root \/ (Exists(p) /\ tree[p].dir)

Subtree(t, p) == [r \in {Rest(p, q) : q \in Under(t, p)} |-> t[p \o r]]
Without(t, p) == [q \in DOMAIN t \ Under(t, p) |-> t[q]]
Placed(t, p, sub) == [q \in {p \o r : r \in DOMAIN sub} |-> sub[Rest(p, q)]] @@ t
Moved(t, from, to) == Placed(Without(t, from), to, Subtree(t, from))
Ids(t) == {t[p].id : p \in DOMAIN t}
Fits(from, p) == \A q \in Under(tree, from) : Len(p) + Len(q) - Len(from) <= MaxDepth

Init ==
    /\ tree = (<<"a">> :> [id |-> 1, dir |-> FALSE]) @@ (<<"d">> :> [id |-> 2, dir |-> TRUE])
    /\ bin = <<>> /\ undo = <<>> /\ redo = <<>>
    /\ items = {1, 2} /\ mixed = FALSE
    /\ fresh = 3 /\ outside = 0 /\ ops = 0

---------------------------------------------------------------------------
(* file_history.rs; was and is, the tree before and after, are kept for the *)
(* properties only.                                                         *)

Move(from, to, was, is) == [op |-> "move", from |-> from, to |-> to, was |-> was, is |-> is]
Trashed(path, token, was, is) == [op |-> "trash", path |-> path, token |-> token, was |-> was, is |-> is]

Trim(s) == SubSeq(s, 1 + (IF Len(s) > Limit THEN Len(s) - Limit ELSE 0), Len(s))

(* Mutant: what was undone can still be redone after another operation. *)
RecordKeepsRedo(op) == undo' = Trim(Append(undo, op)) /\ redo' = redo
Record(op) == undo' = Trim(Append(undo, op)) /\ redo' = <<>>

Undone == undo' = Front(undo) /\ redo' = Append(redo, Last(undo))
\* again: the operation as it was applied, none if it cannot be undone again.
Redone(again) == redo' = Front(redo) /\ undo' = Trim(undo \o again)

---------------------------------------------------------------------------
(* fs.rs *)

\* Nothing is replaced.
RenameNoClobber(from, to) == Exists(from) /\ ~Exists(to) /\ IsDir(Parent(to))

\* The trash takes the item, and where it can be restored says how to find it.
ToTrash(p, token) ==
    /\ tree' = Without(tree, p)
    /\ bin' = (token :> [path |-> p, items |-> Subtree(tree, p)]) @@ bin
    /\ fresh' = fresh + 1

FromTrash(token) ==
    /\ tree' = Placed(tree, bin[token].path, bin[token].items)
    /\ bin' = [t \in DOMAIN bin \ {token} |-> bin[t]]

---------------------------------------------------------------------------
(* app.rs: what the tree asks for *)

Relocate(from, to) ==
    /\ ops < MaxOps /\ ops' = ops + 1
    /\ RenameNoClobber(from, to) /\ Fits(from, to)
    /\ tree' = Moved(tree, from, to)
    /\ Record(Move(from, to, tree, tree'))
    /\ UNCHANGED <<bin, items, mixed, fresh, outside>>

Rename(from) == \E name \in Names :
    LET to == Append(Parent(from), name) IN to # from /\ Relocate(from, to)

\* A drop onto a folder: never into itself, and nothing to do in the one it is in.
PlanTransfer(from, into) == Exists(from) /\ IsDir(into) /\ ~IsPrefix(from, into)
Transfer(from, into) ==
    /\ PlanTransfer(from, into) /\ Parent(from) # into
    /\ Relocate(from, Append(into, Last(from)))

\* A copy takes a free name and cannot be undone.
Copy(from, into) == \E name \in Names :
    LET to == Append(into, name)
        sub == Subtree(tree, from)
        copies == [r \in DOMAIN sub |-> [sub[r] EXCEPT !.id = @ + 10 * fresh]]
    IN  /\ PlanTransfer(from, into) /\ ~Exists(to) /\ Fits(from, to)
        /\ fresh <= MaxItems /\ fresh' = fresh + 1
        /\ tree' = Placed(tree, to, copies)
        /\ items' = items \cup Ids(copies) /\ mixed' = TRUE
        /\ UNCHANGED <<bin, undo, redo, outside, ops>>

Appears(p, dir) ==
    /\ ~Exists(p) /\ IsDir(Parent(p))
    /\ fresh <= MaxItems /\ fresh' = fresh + 1
    /\ tree' = (p :> [id |-> fresh, dir |-> dir]) @@ tree
    /\ items' = items \cup {fresh} /\ mixed' = TRUE
    /\ UNCHANGED <<bin, undo, redo, ops>>
Create(p) == \E dir \in BOOLEAN : Appears(p, dir) /\ UNCHANGED outside

Trash(p) ==
    /\ Exists(p) /\ fresh <= MaxItems
    /\ \E restorable \in BOOLEAN :
         /\ ToTrash(p, fresh)
         /\ IF restorable
            THEN /\ ops < MaxOps /\ ops' = ops + 1
                 /\ Record(Trashed(p, fresh, tree, tree')) /\ UNCHANGED mixed
            ELSE mixed' = TRUE /\ UNCHANGED <<undo, redo, ops>>
    /\ UNCHANGED <<items, outside>>

---------------------------------------------------------------------------
(* file_ops.rs: an undo or redo the disk no longer fits is refused, and       *)
(* changes nothing                                                            *)

\* What is at from can go to to.
CheckMove(from, to) == Exists(from) /\ ~Exists(to) /\ IsDir(Parent(to))
\* It is still in the trash, nothing has its place, and its folder is there.
CheckRestore(op) == op.token \in DOMAIN bin /\ ~Exists(op.path) /\ IsDir(Parent(op.path))

Undo ==
    /\ undo # <<>>
    /\ LET op == Last(undo) IN
       \/ /\ op.op = "move" /\ CheckMove(op.to, op.from)
          /\ tree' = Moved(tree, op.to, op.from) /\ UNCHANGED bin
       \/ /\ op.op = "trash" /\ CheckRestore(op)
          /\ FromTrash(op.token)
    /\ Undone
    /\ UNCHANGED <<items, mixed, fresh, outside, ops>>

Redo ==
    /\ redo # <<>>
    /\ LET op == Last(redo) IN
       \/ /\ op.op = "move" /\ CheckMove(op.from, op.to)
          /\ tree' = Moved(tree, op.from, op.to)
          /\ Redone(<<op>>) /\ UNCHANGED <<bin, mixed, fresh>>
       \/ /\ op.op = "trash" /\ Exists(op.path) /\ fresh <= MaxItems
          /\ ToTrash(op.path, fresh)
          /\ \/ Redone(<<[op EXCEPT !.token = fresh]>>) /\ UNCHANGED mixed
             \/ Redone(<<>>) /\ mixed' = TRUE
    /\ UNCHANGED <<items, outside, ops>>

---------------------------------------------------------------------------
(* Other programs *)

Elsewhere == outside < MaxOutside /\ outside' = outside + 1
OutsideCreate(p) == Elsewhere /\ \E dir \in BOOLEAN : Appears(p, dir)
OutsideDelete(p) ==
    /\ Elsewhere /\ Exists(p)
    /\ tree' = Without(tree, p) /\ items' = items \ Ids(Subtree(tree, p)) /\ mixed' = TRUE
    /\ UNCHANGED <<bin, undo, redo, fresh, ops>>
\* The trash is emptied of one item.
Purge == Elsewhere /\ \E token \in DOMAIN bin :
    /\ bin' = [t \in DOMAIN bin \ {token} |-> bin[t]]
    /\ items' = items \ Ids(bin[token].items) /\ mixed' = TRUE
    /\ UNCHANGED <<tree, undo, redo, fresh, ops>>

Next ==
    \/ \E p \in DOMAIN tree :
         \/ Rename(p) \/ Trash(p) \/ OutsideDelete(p)
         \/ \E into \in {Root} \cup DOMAIN tree : Transfer(p, into) \/ Copy(p, into)
    \/ \E p \in Paths : Create(p) \/ OutsideCreate(p)
    \/ Undo \/ Redo \/ Purge

Spec == Init /\ [][Next]_vars

---------------------------------------------------------------------------
(* Properties *)

\* Nothing is lost and nothing is replaced: whatever was moved, trashed, undone and
\* redone, on a disk other programs change too, every item nobody else destroyed is at
\* one place, on the disk or in the trash (fs.rs rename_no_clobber, restore_from_trash).
NothingLost ==
    LET places == {<<0, p, tree[p].id>> : p \in DOMAIN tree} \cup
                  UNION {{<<t, r, bin[t].items[r].id>> : r \in DOMAIN bin[t].items} : t \in DOMAIN bin}
    IN  /\ {x[3] : x \in places} = items
        /\ Cardinality(places) = Cardinality(items)

\* As long as only recorded operations touch the disk, each undo finds the disk as its
\* operation left it, is carried out, and puts it back exactly; so does each redo
\* (file_history.rs, file_ops.rs), however many were undone, redone or trimmed.
UndoReplays ==
    ~mixed =>
        /\ undo # <<>> =>
             LET op == Last(undo) IN
             /\ op.is = tree
             /\ IF op.op = "move"
                THEN CheckMove(op.to, op.from) /\ Moved(tree, op.to, op.from) = op.was
                ELSE CheckRestore(op) /\ Placed(tree, bin[op.token].path, bin[op.token].items) = op.was
        /\ redo # <<>> =>
             LET op == Last(redo) IN
             /\ op.was = tree
             /\ IF op.op = "move" THEN CheckMove(op.from, op.to) ELSE Exists(op.path)
        /\ \A i \in 1 .. Len(undo) - 1 : undo[i].is = undo[i + 1].was
=============================================================================
