------------------------------ MODULE Replace ------------------------------
(***************************************************************************)
(* Replacing Rems by Markdown in the plugin: the ops                       *)
(* replace_children_with_markdown and replace_selection_with_markdown, as  *)
(* the sequence of calls to RemNote that they are, any of which may fail   *)
(* and after any of which the plugin may be reloaded, whereupon the op is  *)
(* delivered again.  ops/handlers/markdownOps.ts.                          *)
(*                                                                         *)
(* RemNote is external: a call that fails has no effect, except that a     *)
(* move may have moved some of its Rems, and an import may have made some; *)
(* reads do not fail.  An import may also make less than the Markdown has  *)
(* and say nothing.  Only roots are modelled, not what is below them.      *)
(* Staged and bundled imports are left out.                                *)
(***************************************************************************)
EXTENDS Naturals, Sequences, SequencesExt

CONSTANTS
    Kinds,      \* a subset of {"children", "selection"}
    Faults,     \* calls that may fail, "quiet" for imports that do not tell:
                \* a subset of {"create", "quiet", "move", "remove"}
    OldCount,   \* how many Rems are to be replaced,
    NewCount,   \* how many roots the Markdown has,
    Ahead,      \* how many other Rems are before the selection,
    Behind,     \* and after it
    MaxAttempts \* bound

VARIABLES
    kids,    \* Rem -> its children, for the parent and the backups
    kind,
    markdown,\* whether there is any; replacing by nothing is deleting
    at,      \* the next step of the handler, or its verdict
    attempt, \* how often it has been executed
    earlier, \* what those executions had created that have succeeded before
    old,     \* what it replaces
    home,    \* the parent it found
    pos,     \* where in it
    created, \* the new roots, as far as the import has made them
    then     \* where to go on after rolling back

replaceVars == <<kids, kind, markdown, at, attempt, earlier, old, home, pos, created, then>>
job == <<kind, markdown, attempt, earlier>>
found == <<old, home, pos>>

Parent == <<"parent", 0>>
Backup(a) == <<"backup", a>>
Backups == {Backup(a) : a \in 1..MaxAttempts}
Targets == [i \in 1..OldCount |-> <<"old", i>>]
New(a) == [i \in 1..NewCount |-> <<"new", a, i>>]
Before == [i \in 1..Ahead |-> <<"ahead", i>>]
After == [i \in 1..Behind |-> <<"behind", i>>]

(* Markdown has at least one root. *)
Counts ==
    /\ OldCount \in Nat /\ NewCount \in Nat \ {0}
    /\ Ahead \in Nat /\ Behind \in Nat
    /\ MaxAttempts \in Nat \ {0}

Init ==
    /\ kind \in Kinds
    /\ markdown \in BOOLEAN
    /\ kids = [c \in {Parent} \cup Backups |->
                 IF c # Parent THEN <<>>
                 ELSE IF kind = "children" THEN Targets ELSE Before \o Targets \o After]
    /\ at = "read" /\ attempt = 1 /\ earlier = {} /\ then = "none"
    /\ old = <<>> /\ home = Parent /\ pos = 0 /\ created = <<>>

-----------------------------------------------------------------------------
(* RemNote *)

Without(s, X) ==
    LET rest[n \in 0..Len(s)] ==
          IF n = 0 THEN <<>>
          ELSE IF s[n] \in X THEN rest[n - 1] ELSE Append(rest[n - 1], s[n])
    IN rest[Len(s)]

Only(s, X) == Without(s, ToSet(s) \ X)

Exists(r) == \E c \in DOMAIN kids : r \in ToSet(kids[c])

Moved(rems, c, p) ==
    LET rest == [d \in DOMAIN kids |-> Without(kids[d], ToSet(rems))]
    IN [rest EXCEPT ![c] = SubSeq(@, 1, p) \o rems \o SubSeq(@, p + 1, Len(@))]

(* With what is below them. *)
Removed(X) ==
    [c \in DOMAIN kids |-> IF c \in X THEN <<>> ELSE Without(kids[c], X)]

MoveRems(rems, c, p, done, failed) ==
    \/ kids' = Moved(rems, c, p) /\ at' = done
    \/ /\ "move" \in Faults
       /\ \E n \in 0..Len(rems) : kids' = Moved(SubSeq(rems, 1, n), c, p)
       /\ at' = failed

RemoveRem(r, done, failed) ==
    \/ kids' = Removed({r}) /\ at' = done
    \/ "remove" \in Faults /\ UNCHANGED kids /\ at' = failed

-----------------------------------------------------------------------------
(* The handlers *)

(* partitionBackupArtifactChildren *)
Content == Without(kids[Parent], Backups)

(* Slip: only the children the op was made for, not what an execution that was
   cut off has left. *)
ReadTargets ==
    /\ kind = "children"
    /\ old' = Only(Content, ToSet(Targets))
    /\ home' = Parent /\ pos' = 0
    /\ at' = "create"

ReadChildren ==
    /\ kind = "children"
    /\ old' = Content /\ home' = Parent /\ pos' = 0
    /\ at' = "create"

(* The selected Rems must exist, below one parent and side by side; otherwise,
   and when the user has selected something else, nothing is done. *)
ReadSelection ==
    /\ kind = "selection"
    /\ \/ \E c \in DOMAIN kids : \E p \in 0..(Len(kids[c]) - Len(Targets)) :
            /\ Targets # <<>>
            /\ SubSeq(kids[c], p + 1, p + Len(Targets)) = Targets
            /\ old' = Targets /\ home' = c /\ pos' = p
            /\ at' = "create"
       \/ at' = "fatal" /\ UNCHANGED found

Read ==
    /\ at = "read"
    /\ ReadChildren \/ ReadSelection
    /\ UNCHANGED <<job, kids, created, then>>

(* What comes after an import that has made the roots X.  The selection's is
   checked first, if there is any; the children's has been put in place by the
   import, unless it is one by headings, which leaves them at the end. *)
Imported(X) ==
    IF kind = "selection" THEN IF X = {} THEN {"fatal"} ELSE {"assert"}
    ELSE {"assert"} \cup IF X = {} THEN {} ELSE {"place"}

Asserted == IF kind = "children" THEN "backup" ELSE "place"
Placed == IF kind = "children" THEN "assert" ELSE "backup"

NoMarkdown ==
    /\ at = "create" /\ ~markdown
    /\ at' = "backup"
    /\ UNCHANGED <<job, kids, found, created, then>>

(* The import by RemNote may return fewer Rems than there are roots, or none;
   that by headings passes over calls that fail, and over headings that have
   become nothing.  A heading that fails, or the import as a whole, is fatal. *)
CreateTree ==
    /\ at = "create" /\ markdown
    /\ \E X \in SUBSET ToSet(New(attempt)) :
         /\ kids' = [kids EXCEPT ![home] = @ \o Only(New(attempt), X)]
         /\ \/ /\ X = ToSet(New(attempt)) \/ "quiet" \in Faults
               /\ created' = Only(New(attempt), X)
               /\ at' \in Imported(X)
            \/ "create" \in Faults /\ at' = "fatal" /\ UNCHANGED created
    /\ UNCHANGED <<job, found, then>>

Place ==
    /\ at = "place"
    /\ MoveRems(created, home, pos, Placed, "undo")
    /\ then' = "fatal"
    /\ UNCHANGED <<job, found, created>>

CheckAssertions ==
    /\ at = "assert"
    /\ at' \in {Asserted, "undo"}
    /\ then' = "fatal"
    /\ UNCHANGED <<job, kids, found, created>>

(* rollbackCreated: of each, as far as it succeeds. *)
RollbackCreated ==
    /\ at = "undo"
    /\ \E X \in SUBSET ToSet(created) :
         /\ "remove" \in Faults \/ X = ToSet(created)
         /\ kids' = Removed(X)
    /\ at' = then
    /\ UNCHANGED <<job, found, created, then>>

NothingToReplace ==
    /\ at = "backup" /\ kind = "children" /\ old = <<>>
    /\ at' = "ok"
    /\ UNCHANGED <<job, kids, found, created, then>>

CreateBackup ==
    /\ at = "backup" /\ old # <<>>
    /\ \/ /\ kids' = [kids EXCEPT ![home] = Append(@, Backup(attempt))]
          /\ at' = "stow" /\ UNCHANGED then
       \/ /\ "create" \in Faults
          /\ at' = "undo" /\ then' = "fatal" /\ UNCHANGED kids
    /\ UNCHANGED <<job, found, created>>

Stow ==
    /\ at = "stow"
    /\ MoveRems(old, Backup(attempt), 0, "drop", "undo")
    /\ then' = "restore"
    /\ UNCHANGED <<job, found, created>>

InBackup == Only(old, ToSet(kids[Backup(attempt)]))

Restore ==
    /\ at = "restore"
    /\ MoveRems(InBackup, home, pos, "tidy", "tidy")
    /\ UNCHANGED <<job, found, created, then>>

(* Slip: the backup is removed whether or not its content has been put back. *)
TidyAnyway ==
    /\ at \in {"tidy", "tidyIfEmpty"}
    /\ RemoveRem(Backup(attempt), "fatal", "fatal")
    /\ UNCHANGED <<job, found, created, then>>

Tidy ==
    /\ at \in {"tidy", "tidyIfEmpty"}
    /\ IF InBackup # <<>> /\ (kind = "children" \/ at = "tidyIfEmpty")
       THEN at' = "fatal" /\ UNCHANGED kids
       ELSE RemoveRem(Backup(attempt), "fatal", "fatal")
    /\ UNCHANGED <<job, found, created, then>>

(* A backup of children that is to be visible, or that is large, stays. *)
KeepBackup ==
    /\ at = "drop" /\ kind = "children"
    /\ at' = "ok"
    /\ UNCHANGED <<job, kids, found, created, then>>

DropBackup ==
    /\ at = "drop"
    /\ RemoveRem(Backup(attempt), "ok", "undo")
    /\ then' = "putBack"
    /\ UNCHANGED <<job, found, created>>

PutBack ==
    /\ at = "putBack"
    /\ MoveRems(old, home, pos, "tidyIfEmpty", "fatal")
    /\ UNCHANGED <<job, found, created, then>>

(* The plugin is reloaded, and the op delivered again. *)
Reload ==
    /\ at # "read" /\ attempt < MaxAttempts
    /\ attempt' = attempt + 1
    /\ earlier' = IF at = "ok" THEN earlier \cup {created} ELSE earlier
    /\ at' = "read" /\ then' = "none"
    /\ old' = <<>> /\ home' = Parent /\ pos' = 0 /\ created' = <<>>
    /\ UNCHANGED <<kids, kind, markdown>>

Next ==
    \/ Read \/ NoMarkdown \/ CreateTree \/ Place \/ CheckAssertions \/ RollbackCreated
    \/ NothingToReplace \/ CreateBackup \/ Stow \/ Restore \/ Tidy
    \/ KeepBackup \/ DropBackup \/ PutBack \/ Reload

Spec == Init /\ [][Next]_replaceVars

-----------------------------------------------------------------------------
(* Properties *)

Kept(rems) == \A r \in ToSet(rems) : Exists(r)

(* docs/ssot/agent-remnote/tools-write.md:191: old content is not deleted
   before the new content is in place; whichever calls fail and wherever the
   plugin is reloaded, what was there is still there, in its place or in a
   backup, until an execution has succeeded, and what that has created after
   it. *)
NothingLost ==
    markdown =>
        \/ Kept(Targets)
        \/ \E s \in earlier \cup (IF at = "ok" THEN {created} ELSE {}) : Kept(s)

(* It is so for children, whose backup is only removed when it is empty or
   when everything has succeeded. *)
ChildrenNotLost == kind = "children" => NothingLost

(* A success means that what was to be replaced has been, exactly and in its
   place, by what the import has made; for children even when earlier executions
   were cut off anywhere. *)
SuccessReplaces ==
    at = "ok" /\ markdown =>
        IF kind = "children" THEN Content = created
        ELSE attempt = 1 => kids[Parent] = Before \o created \o After
=============================================================================
