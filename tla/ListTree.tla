------------------------------ MODULE ListTree ------------------------------
(***************************************************************************)
(* Listing a directory: remote_list_tree, page by page                     *)
(* (remote_fs/service.py 185-271), and list_log_files, which gives the     *)
(* newest entries alone (log_search/service.py 45-103).  A call reads the  *)
(* names, then looks at one entry after another; entries are created,      *)
(* written to and deleted, links lose their targets, and the directory     *)
(* itself comes and goes or is put out of reach, between any two of these  *)
(* accesses and between pages.                                             *)
(***************************************************************************)
EXTENDS Integers, FiniteSets, SequencesExt

CONSTANTS
  Names,         \* the names in the directory, numbered as they sort
  Hidden,        \* those that begin with a dot
  Ignored,       \* those of LIST_TREE_IGNORED_DIRECTORY_NAMES
  Links,         \* those that may be links to something that is not there
  PageSize,      \* MAX_TREE_ENTRIES, or MAX_LISTED_ENTRIES of list_log_files
  MaxTime,       \* bound: the latest modification time
  MaxChanges     \* bound: changes during one listing

Ops == {"list_tree", "list_log_files"}
Kinds == {"directory", "file"}

(* What the path of the directory may be, but for "outside" the roots: a   *)
(* directory that may not be read, one that may be read and not searched,  *)
(* or one below a directory that may not be searched.                      *)
Places == {"directory", "unreadable", "unsearchable", "barred", "file", "absent"}

ASSUME ListAssumption ==
  /\ IsFiniteSet(Names) /\ Names \subseteq Nat /\ Links \subseteq Names
  /\ PageSize \in Nat \ {0}
  /\ {MaxTime, MaxChanges} \subseteq Nat

VARIABLES
  place,    \* what the path of the directory is
  dir,      \* its entries: a record for each name
  op,       \* the tool
  offset,   \* its argument (list_log_files has none)
  step,     \* what it does next
  todo,     \* the names it has read and not looked at yet
  nodes,    \* fs_nodes: the entries as it found them
  answer,   \* error_type, "ok", or the exception raised
  result,   \* next_offset and truncated of the answer
  got,      \* the names the agent has got since it began, in order
  stable,   \* history: the visible entries nobody changed since then
  quiet,    \* history: nobody changed anything since then
  deletions, \* history: how many entries were lost since then
  met,      \* history: what the call may have met with
  changes   \* history: how often somebody did

server == <<place, dir>>
agent  == <<op, got, stable, quiet, deletions, changes>>
vars   == <<server, agent, met, offset, step, todo, nodes, answer, result>>

Absent == [present |-> FALSE, kind |-> "file", mtime |-> 0]
(* A link to nothing, and one to what may not be looked at.                *)
Dangling == [present |-> TRUE, kind |-> "dangling", mtime |-> 0]
Barred   == [present |-> TRUE, kind |-> "barred", mtime |-> 0]
Losses(n) == {Absent} \cup (IF n \in Links THEN {Dangling, Barred} ELSE {})
Entry == {Absent, Dangling, Barred} \cup [present : {TRUE}, kind : Kinds, mtime : 0..MaxTime]
Node == [name : Names, kind : Kinds, mtime : 0..MaxTime]
NodeOf(n) == [name |-> n, kind |-> dir[n].kind, mtime |-> dir[n].mtime]

(* list_tree leaves out dotfiles and directories like vendor.              *)
Skipped(o, n, kind) ==
  o = "list_tree" /\ (n \in Hidden \/ (kind = "directory" /\ n \in Ignored))
Listed(n) == dir[n].present /\ dir[n].kind \in Kinds
Visible(o) == {n \in Names : Listed(n) /\ ~Skipped(o, n, dir[n].kind)}

(* Directories first in list_tree; then the newest, then by name.          *)
Before(o, a, b) ==
  LET same == o = "list_log_files" \/ a.kind = b.kind IN
    \/ ~same /\ a.kind = "directory"
    \/ same /\ a.mtime > b.mtime
    \/ same /\ a.mtime = b.mtime /\ a.name < b.name

(* What makes a listing fail: the directory has gone, or may not be read;  *)
(* it or an entry is out of reach; an entry is not there.                  *)
Causes == {"gone", "unreadable", "barred", "lost"}
Met(p, d) ==
  {c \in Causes :
     \/ c = "gone" /\ p \in {"absent", "file"}
     \/ c = "unreadable" /\ p = "unreadable"
     \/ c = "barred" /\ (p \in {"unsearchable", "barred"} \/ \E n \in Names : d[n] = Barred)
     \/ c = "lost" /\ \E n \in Names : d[n] = Dangling}

NoResult == [next |-> 0, truncated |-> FALSE]

Init ==
  /\ place \in Places \cup {"outside"}
  /\ dir \in [Names -> {e \in Entry : e.mtime < MaxTime}]
  /\ \A n \in Names : dir[n] \in {Dangling, Barred} => n \in Links
  /\ op \in Ops
  /\ offset = 0
  /\ step = "answered"
  /\ todo = {}
  /\ nodes = {}
  /\ answer = "none"
  /\ result = NoResult
  /\ got = <<>>
  /\ stable = {}
  /\ quiet = TRUE
  /\ deletions = 0
  /\ met = {}
  /\ changes = 0

-----------------------------------------------------------------------------
Answer(a) == step' = "answered" /\ answer' = a

BeginCall ==
  /\ step' = "resolve"
  /\ todo' = {}
  /\ nodes' = {}
  /\ answer' = "none"
  /\ result' = NoResult
  /\ met' = Met(place, dir)

(* The agent lists a directory, and goes on to the next page as long as    *)
(* the hint of the answer tells it to.                                     *)
NewListing(o, first) ==
  /\ step = "answered" /\ ~result.truncated
  /\ first = 0 \/ o = "list_tree"
  /\ op' = o
  /\ offset' = first
  /\ got' = <<>>
  /\ stable' = IF first = 0 /\ place = "directory" THEN Visible(o) ELSE {}
  /\ quiet' = (first = 0 /\ place = "directory")
  /\ deletions' = 0
  /\ changes' = 0
  /\ BeginCall
  /\ UNCHANGED server

NextPage ==
  /\ step = "answered" /\ result.truncated
  /\ offset' = result.next
  /\ BeginCall
  /\ UNCHANGED <<server, agent>>

(* The check of the offset, the guard of the roots (path_outside_base in   *)
(* list_log_files), resolved.exists() and resolved.is_dir(), which raise   *)
(* for a path that they may not look at.                                   *)
Resolve ==
  /\ step = "resolve"
  /\ IF offset < 0 THEN Answer("invalid_argument")
     ELSE IF place = "outside" THEN Answer("path_not_allowed")
     ELSE IF place = "barred" THEN Answer("PermissionError")
     ELSE IF place = "absent" THEN Answer("path_not_found")
     ELSE IF place = "file" THEN Answer("not_a_directory")
     ELSE step' = "iterdir" /\ UNCHANGED answer
  /\ UNCHANGED <<server, agent, met, offset, todo, nodes, result>>

(* current.iterdir(): list_tree takes a directory that it may not read for *)
(* an empty one.                                                           *)
IterDir ==
  /\ step = "iterdir"
  /\ \/ /\ place \in {"directory", "unsearchable"}
        /\ todo' = {n \in Names : dir[n].present}
        /\ step' = "visit" /\ UNCHANGED answer
     \/ /\ place \in {"unreadable", "barred"} /\ op = "list_tree"
        /\ todo' = {}
        /\ step' = "visit" /\ UNCHANGED answer
     \/ /\ place \in {"unreadable", "barred"} /\ op = "list_log_files"
        /\ Answer("PermissionError") /\ UNCHANGED todo
     \/ /\ place \in {"absent", "file"}
        /\ Answer("OSError") /\ UNCHANGED todo
  /\ UNCHANGED <<server, agent, met, offset, nodes, result>>

(* What the look at an entry finds, or how it fails.                       *)
Look(n) ==
  IF place \in {"unsearchable", "barred"} THEN "PermissionError"
  ELSE IF place \in {"absent", "file"} THEN "OSError"
  ELSE IF dir[n] = Barred THEN "PermissionError"
  ELSE IF Listed(n) THEN "there" ELSE "OSError"

(* Mutant: the entry is asked for its time outside the try, as in          *)
(* list_log_files.                                                         *)
PassedOverUnguarded(n) ==
  \/ op = "list_tree" /\ n \in Hidden
  \/ Look(n) = "there" /\ Skipped(op, n, dir[n].kind)

(* list_tree passes over a dotfile without a look, an ignored directory,   *)
(* and what has no stat().                                                 *)
PassedOver(n) ==
  \/ op = "list_tree" /\ n \in Hidden
  \/ Look(n) = "there" /\ Skipped(op, n, dir[n].kind)
  \/ Look(n) = "OSError" /\ op = "list_tree"

(* is_dir() and stat() of one entry, in list_tree in the order of names.   *)
(* list_tree's is_dir() is outside its try, and list_log_files has none.   *)
Visit ==
  /\ step = "visit"
  /\ \E n \in todo :
       /\ op = "list_tree" => \A m \in todo : n <= m
       /\ todo' = todo \ {n}
       /\ \/ /\ PassedOver(n)
             /\ UNCHANGED <<nodes, step, answer>>
          \/ /\ ~PassedOver(n) /\ Look(n) = "there"
             /\ nodes' = nodes \cup {NodeOf(n)}
             /\ UNCHANGED <<step, answer>>
          \/ /\ ~PassedOver(n) /\ Look(n) # "there"
             /\ Answer(Look(n)) /\ UNCHANGED nodes
  /\ UNCHANGED <<server, agent, met, offset, result>>

(* Mutant: sorted with the oldest first.                                   *)
SortedOldestFirst ==
  SortSeq(SetToSeq(nodes), LAMBDA a, b : IF a.mtime = b.mtime THEN a.name < b.name
                                         ELSE a.mtime < b.mtime)

(* fs_nodes.sort(...): an entry stands behind those that go before it.     *)
Rank(x) == Cardinality({y \in nodes : Before(op, y, x)}) + 1
Sorted == [i \in 1..Cardinality(nodes) |-> CHOOSE x \in nodes : Rank(x) = i]

(* Mutant: the next page begins one entry too far.                         *)
PageSkipsOne(sorted) ==
  LET end == IF offset + PageSize < Len(sorted) THEN offset + PageSize ELSE Len(sorted)
      page == SubSeq(sorted, offset + 1, end)
      next == offset + Len(page) + 1
  IN /\ got' = got \o [i \in DOMAIN page |-> page[i].name]
     /\ result' = [next |-> next, truncated |-> op = "list_tree" /\ next < Len(sorted)]

(* Mutant: -1 for the offset of the page after the last.                   *)
PageMinusOne(sorted) ==
  LET end == IF offset + PageSize < Len(sorted) THEN offset + PageSize ELSE Len(sorted)
      page == SubSeq(sorted, offset + 1, end)
      next == IF end = Len(sorted) THEN -1 ELSE end
  IN /\ got' = got \o [i \in DOMAIN page |-> page[i].name]
     /\ result' = [next |-> next, truncated |-> op = "list_tree" /\ next # -1]

(* fs_nodes[offset:offset + MAX_TREE_ENTRIES] and the fields about it.     *)
Page(sorted) ==
  LET end == IF offset + PageSize < Len(sorted) THEN offset + PageSize ELSE Len(sorted)
      page == SubSeq(sorted, offset + 1, end)
      next == offset + Len(page)
  IN /\ got' = got \o [i \in DOMAIN page |-> page[i].name]
     /\ result' = [next |-> next, truncated |-> op = "list_tree" /\ next < Len(sorted)]

Finish ==
  /\ step = "visit" /\ todo = {}
  /\ Page(Sorted)
  /\ Answer("ok")
  /\ nodes' = {}
  /\ UNCHANGED <<server, op, stable, quiet, deletions, changes, met, offset, todo>>

-----------------------------------------------------------------------------
(* Somebody changes the entry n, or the directory itself.  A write gives a *)
(* later mtime; tools that set it back (cp -p over a file) are left out.   *)
Change(n, entry) ==
  /\ changes < MaxChanges
  /\ changes' = changes + 1
  /\ dir' = [dir EXCEPT ![n] = entry]
  /\ stable' = stable \ {n}
  /\ quiet' = FALSE
  /\ met' = met \cup Met(place, dir') \cup (IF entry = Absent THEN {"lost"} ELSE {})
  /\ UNCHANGED <<place, op, got, offset, step, todo, nodes, answer, result>>

(* A new entry, or what a link points to.                                  *)
Create ==
  /\ \E n \in Names, k \in Kinds, t \in 0..MaxTime :
       /\ ~Listed(n)
       /\ Change(n, [present |-> TRUE, kind |-> k, mtime |-> t])
  /\ UNCHANGED deletions

Touch ==
  /\ \E n \in Names, t \in 0..MaxTime :
       /\ Listed(n) /\ t > dir[n].mtime
       /\ Change(n, [dir[n] EXCEPT !.mtime = t])
  /\ UNCHANGED deletions

(* An entry is deleted, or a link loses its target.                        *)
Delete ==
  \E n \in Names :
    /\ \E e \in Losses(n) \ {dir[n]} : Change(n, e)
    /\ deletions' = IF Listed(n) THEN deletions + 1 ELSE deletions

Move ==
  /\ place \in Places
  /\ changes < MaxChanges
  /\ changes' = changes + 1
  /\ place' \in Places \ {place}
  /\ stable' = {}
  /\ quiet' = FALSE
  /\ met' = met \cup Met(place', dir)
  /\ UNCHANGED <<dir, op, got, deletions, offset, step, todo, nodes, answer, result>>

Next ==
  \/ \E o \in Ops, first \in {-1, 0} : NewListing(o, first)
  \/ NextPage \/ Resolve \/ IterDir \/ Visit \/ Finish
  \/ Create \/ Touch \/ Delete \/ Move

Spec == Init /\ [][Next]_vars

-----------------------------------------------------------------------------
TypeOK ==
  /\ place \in Places \cup {"outside"}
  /\ dir \in [Names -> Entry]
  /\ op \in Ops
  /\ offset \in Int
  /\ step \in {"answered", "resolve", "iterdir", "visit"}
  /\ todo \subseteq Names
  /\ nodes \subseteq Node
  /\ answer \in {"none", "ok", "invalid_argument", "path_not_allowed", "path_not_found",
                 "not_a_directory", "PermissionError", "OSError"}
  /\ result \in [next : Nat, truncated : BOOLEAN]
  /\ got \in Seq(Names)
  /\ stable \subseteq Names
  /\ quiet \in BOOLEAN
  /\ met \subseteq Causes
  /\ deletions \in 0..changes
  /\ changes \in 0..MaxChanges

(* The entries that nobody touched and that the agent has passed by: of two*)
(* such entries it has got the one that sorts last and not the other, or it*)
(* has been told that there is no more (strings.py 123).                   *)
Missed ==
  {a \in stable \ ToSet(got) :
     \/ op = "list_tree" /\ ~result.truncated
     \/ \E b \in stable \cap ToSet(got) : Before(op, NodeOf(a), NodeOf(b))}

(* Entries that appear or move to the front between two pages cost the     *)
(* agent nothing.  A deletion moves what follows it forward, and the code  *)
(* does nothing about it: each one may cost one entry, which falls between *)
(* the pages, and no more than that one.                                   *)
SkipsAreDeletions ==
  answer = "ok" /\ step = "answered" => Cardinality(Missed) <= deletions

(* Of a directory that nobody changes the pages are its visible entries,   *)
(* each once, in the order that the hint describes.                        *)
QuietListingIsSorted ==
  quiet => /\ \A i, j \in DOMAIN got : i < j => Before(op, NodeOf(got[i]), NodeOf(got[j]))
           /\ ToSet(got) \subseteq Visible(op)

(* The pages together are the listing.                                     *)
PagesAreTheListing == SkipsAreDeletions /\ QuietListingIsSorted

(* Why a listing ends in an exception.  list_tree leaves out an entry that *)
(* is not there, and fails only if the directory itself has gone, or if it *)
(* or an entry was out of reach; list_log_files fails for each of these,   *)
(* for an entry that is not there, and for a directory it may not read.    *)
FailureHasCause ==
  /\ answer = "OSError" => "gone" \in met \/ (op = "list_log_files" /\ "lost" \in met)
  /\ answer = "PermissionError" =>
       "barred" \in met \/ (op = "list_log_files" /\ "unreadable" \in met)

=============================================================================
