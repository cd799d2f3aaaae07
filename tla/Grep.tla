-------------------------------- MODULE Grep --------------------------------
(***************************************************************************)
(* remote_grep: one result for each file that matches, found by a walk of  *)
(* the roots or of one directory (remote_fs/service.py 277-425).  Files are*)
(* created, appended to and removed, files and directories closed to the   *)
(* server and opened again while the walk goes on; a file is read line by  *)
(* line, each line with an await of its own.                               *)
(***************************************************************************)
EXTENDS Integers, TextLines, SequencesExt

CONSTANTS
  Dirs,          \* the directories below the roots, and the roots
  Files,         \* the paths that may be files
  Parent,        \* the directory of each of them
  Hidden,        \* those whose name begins with a dot
  Ignored,       \* directories of LIST_TREE_IGNORED_DIRECTORY_NAMES or _SUFFIXES
  Globbed,       \* the files that a path_glob selects
  Roots,         \* the configured roots, in their order
  Requests,      \* what the agent may ask
  MaxMatches,    \* MAX_SEARCH_MATCHES
  BinaryCheckBytes,
  InitialTexts,  \* what a file may hold when it appears
  Written,       \* what a writer appends at once, a line or a part of one
  Lockable,      \* the files and directories whose mode may keep the server out
  MaxChanges,    \* bound: changes to the files
  None

(* What is wrong with the directory of a request, if it is none of ours.   *)
(* The last is no answer: exists() raises it below a directory that may not*)
(* be searched.                                                            *)
BadDirectories == {"path_not_allowed", "path_not_found", "not_a_directory", "PermissionError"}
Request ==
  [query : {"text", "", "bad_regex"}, glob : BOOLEAN,
   directory : Dirs \cup {"all"} \cup BadDirectories]

ASSUME GrepAssumption ==
  /\ {MaxMatches, BinaryCheckBytes} \subseteq Nat \ {0}
  /\ MaxChanges \in Nat
  /\ Parent \in [Dirs \cup Files -> Dirs \cup {None}]
  /\ IsFiniteSet(Dirs)
  /\ Roots \in Seq(Dirs) /\ Roots # <<>>  \* config.py 431
  /\ Requests \subseteq Request
  /\ InitialTexts \cup Written \subseteq Texts
  /\ Lockable \subseteq Dirs \cup Files
  /\ None \notin Dirs \cup Files

VARIABLES
  present,     \* the files there are
  text,        \* what each holds, or held when it was removed
  locked,      \* what the server may not read
  request,
  search_dirs, \* the directories to search after this one
  top,         \* the one being searched
  pending,     \* the directories os.walk has still to list, the next first
  names,       \* filenames of the directory it listed last, not looked at yet
  file,        \* the file being looked at
  at,          \* how much of it has been read
  line_no, first_match_line, match_count,
  halves,      \* history: lines of file that were read in two parts
  search_hits,
  truncated,
  step,        \* what the search does next
  answer,      \* error_type or "ok"
  before,      \* history: what the files held when the search began
  same,        \* history: the files that have been there since then
  shut,        \* history: what was locked at some moment since then
  changes      \* history: how often the files changed since then

server  == <<present, text, locked, same, shut, changes>>
walk    == <<search_dirs, top, pending, names>>
reading == <<file, at, line_no, first_match_line, match_count, halves>>
vars    == <<server, before, request, walk, reading, search_hits, truncated, step, answer>>

Init ==
  /\ present \in SUBSET Files
  /\ text \in [Files -> InitialTexts \cup {<<>>}]
  /\ \A f \in Files : f \notin present <=> text[f] = <<>>
  /\ locked \in SUBSET Lockable
  /\ request \in Requests
  /\ search_dirs = <<>> /\ pending = <<>>
  /\ top = None
  /\ names = {}
  /\ file = None
  /\ at = 0 /\ line_no = 0 /\ first_match_line = 0 /\ match_count = 0 /\ halves = 0
  /\ search_hits = <<>>
  /\ truncated = FALSE
  /\ step = "answered"
  /\ answer = "none"
  /\ before = text
  /\ same = {} /\ shut = {}
  /\ changes = 0

-----------------------------------------------------------------------------
(* The checks come in this order, before anything is read.                 *)
ErrorOf(r) ==
  IF r.query = "" /\ ~r.glob THEN "invalid_argument"
  ELSE IF r.directory \in BadDirectories THEN r.directory
  ELSE IF r.query = "bad_regex" THEN "invalid_regex"
  ELSE "none"

SearchDirs(r) == IF r.directory = "all" THEN Roots ELSE <<r.directory>>

Begin(r) ==
  LET dirs == SearchDirs(r) IN
  /\ step = "answered"
  /\ request' = r
  /\ answer' = ErrorOf(r)
  /\ search_hits' = <<>> /\ truncated' = FALSE
  /\ file' = None /\ names' = {}
  /\ at' = 0 /\ line_no' = 0 /\ first_match_line' = 0 /\ match_count' = 0 /\ halves' = 0
  /\ before' = text /\ same' = present /\ shut' = locked
  /\ IF ErrorOf(r) = "none"
       THEN step' = "walk" /\ top' = Head(dirs) /\ pending' = <<Head(dirs)>>
            /\ search_dirs' = Tail(dirs)
       ELSE step' = "answered" /\ top' = None /\ pending' = <<>> /\ search_dirs' = <<>>
  /\ UNCHANGED <<present, text, locked, changes>>

Finish == step' = "answered" /\ answer' = "ok"

(* _apply_directory_filters on what os.walk finds in d.                    *)
SubDirs(d) ==
  {c \in Dirs : Parent[c] = d /\ c \notin Ignored /\ ~(d = top /\ c \in Hidden)}

(* os.walk lists the next directory; its order is the file system's.  One  *)
(* that it may not read is passed over: no onerror is given.               *)
ListDirectory ==
  /\ step = "walk" /\ names = {} /\ pending # <<>>
  /\ LET d == Head(pending) IN
       \/ /\ d \notin locked
          /\ \E order \in SetToSeqs(SubDirs(d)) : pending' = order \o Tail(pending)
          /\ names' = {f \in present : Parent[f] = d}
       \/ /\ d \in locked
          /\ pending' = Tail(pending)
          /\ UNCHANGED names
  /\ UNCHANGED <<server, before, request, search_dirs, top, reading, search_hits,
                 truncated, step, answer>>

(* Mutant: the search stops without a word when it has enough.             *)
NextSearchDirSilently ==
  /\ step = "walk" /\ names = {} /\ pending = <<>>
  /\ UNCHANGED truncated
  /\ IF search_dirs = <<>> \/ Len(search_hits) >= MaxMatches
       THEN Finish /\ UNCHANGED walk
       ELSE /\ top' = Head(search_dirs) /\ pending' = <<Head(search_dirs)>>
            /\ search_dirs' = Tail(search_dirs)
            /\ UNCHANGED <<names, step, answer>>
  /\ UNCHANGED <<server, before, request, reading, search_hits>>

(* One directory is done; the next is searched unless the hits are enough. *)
NextSearchDir ==
  /\ step = "walk" /\ names = {} /\ pending = <<>>
  /\ truncated' = (Len(search_hits) >= MaxMatches)
  /\ IF truncated' \/ search_dirs = <<>>
       THEN Finish /\ UNCHANGED walk
       ELSE /\ top' = Head(search_dirs) /\ pending' = <<Head(search_dirs)>>
            /\ search_dirs' = Tail(search_dirs)
            /\ UNCHANGED <<names, step, answer>>
  /\ UNCHANGED <<server, before, request, reading, search_hits>>

(* The file f is left out of the search from top.                          *)
Skipped(f) == (Parent[f] = top /\ f \in Hidden) \/ (request.glob /\ f \notin Globbed)

(* The number of the directory searched in the list of them.               *)
Turn == Len(SearchDirs(request)) - Len(search_dirs)

(* A result; root and halves are history.                                  *)
AddHit(f, line, count) ==
  search_hits' =
    Append(search_hits,
           [path |-> f, line |-> line, match_count |-> count, root |-> Turn, halves |-> halves])

Enough ==
  /\ step = "walk" /\ names # {} /\ Len(search_hits) >= MaxMatches
  /\ truncated' = TRUE
  /\ Finish
  /\ UNCHANGED <<server, before, request, walk, reading, search_hits>>

(* One of the names: what filters it out, or a search by name alone.       *)
Consider(f) ==
  /\ step = "walk" /\ f \in names /\ Len(search_hits) < MaxMatches
  /\ names' = names \ {f}
  /\ \/ Skipped(f) /\ UNCHANGED <<search_hits, file, step>>
     \/ /\ ~Skipped(f) /\ request.query = ""
        /\ AddHit(f, 0, 0)
        /\ UNCHANGED <<file, step>>
     \/ /\ ~Skipped(f) /\ request.query # ""
        /\ file' = f /\ step' = "binary"
        /\ UNCHANGED search_hits
  /\ UNCHANGED <<server, before, request, search_dirs, top, pending, at, line_no,
                 first_match_line, match_count, halves, truncated, answer>>

HasNul(t) == \E i \in DOMAIN t : i <= BinaryCheckBytes /\ t[i] = "nul"

Readable(f) == f \in present /\ f \notin locked

(* _is_binary: a file that has gone or may not be read is not.             *)
BinaryCheck ==
  /\ step = "binary"
  /\ step' = IF Readable(file) /\ HasNul(text[file]) THEN "walk" ELSE "open"
  /\ UNCHANGED <<server, before, request, walk, reading, search_hits, truncated, answer>>

(* Mutant: the line numbers go on from the file before.                    *)
OpenFileCountsOn ==
  /\ step = "open"
  /\ step' = IF Readable(file) THEN "read" ELSE "walk"
  /\ at' = 0 /\ first_match_line' = 0 /\ match_count' = 0 /\ halves' = 0
  /\ UNCHANGED <<server, before, request, walk, file, line_no, search_hits, truncated, answer>>

(* aiofiles.open: a file that has gone or may not be read raises OSError,  *)
(* and the walk goes on without a word.                                    *)
OpenFile ==
  /\ step = "open"
  /\ step' = IF Readable(file) THEN "read" ELSE "walk"
  /\ at' = 0 /\ line_no' = 0 /\ first_match_line' = 0 /\ match_count' = 0 /\ halves' = 0
  /\ UNCHANGED <<server, before, request, walk, file, search_hits, truncated, answer>>

(* The end of the line that begins after i, or of what there is of it.     *)
LineEnd(t, i) ==
  LET ends == {k \in i + 1..Len(t) : t[k] \in IterBreaks \/ k = Len(t)}
  IN CHOOSE e \in ends : \A k \in ends : e <= k

(* What the last reading of t ended with at i was a part of a line.        *)
InHalves(t, i) == i > 0 /\ t[i] \notin IterBreaks

(* Mutant: the line of the last match instead of the first.                *)
ReadLineLast ==
  LET t == text[file]
      hit == Hit(SubSeq(t, at + 1, LineEnd(t, at)))
  IN /\ step = "read" /\ at < Len(t)
     /\ at' = LineEnd(t, at)
     /\ line_no' = line_no + 1
     /\ match_count' = IF hit THEN match_count + 1 ELSE match_count
     /\ first_match_line' = IF hit THEN line_no' ELSE first_match_line
     /\ halves' = IF InHalves(t, at) THEN halves + 1 ELSE halves
     /\ UNCHANGED <<server, before, request, walk, file, search_hits, truncated, step, answer>>

(* Mutant: the result is added within the loop, for each line that matches.*)
ReadLineEach ==
  LET t == text[file]
      hit == Hit(SubSeq(t, at + 1, LineEnd(t, at)))
  IN /\ step = "read" /\ at < Len(t)
     /\ at' = LineEnd(t, at)
     /\ line_no' = line_no + 1
     /\ match_count' = IF hit THEN match_count + 1 ELSE match_count
     /\ halves' = IF InHalves(t, at) THEN halves + 1 ELSE halves
     /\ IF hit THEN AddHit(file, line_no', match_count') ELSE UNCHANGED search_hits
     /\ UNCHANGED <<server, before, request, walk, file, first_match_line, truncated, step, answer>>

(* async for line in f, and its body.  At the end of a file that is being  *)
(* written that may be a part of a line, and its rest is a line of its own.*)
ReadLine ==
  LET t == text[file]
      hit == Hit(SubSeq(t, at + 1, LineEnd(t, at)))
  IN /\ step = "read" /\ at < Len(t)
     /\ at' = LineEnd(t, at)
     /\ line_no' = line_no + 1
     /\ match_count' = IF hit THEN match_count + 1 ELSE match_count
     /\ first_match_line' =
          IF hit /\ first_match_line = 0 THEN line_no' ELSE first_match_line
     /\ halves' = IF InHalves(t, at) THEN halves + 1 ELSE halves
     /\ UNCHANGED <<server, before, request, walk, file, search_hits, truncated, step, answer>>

EndOfFile ==
  /\ step = "read" /\ at = Len(text[file])
  /\ IF first_match_line # 0 THEN AddHit(file, first_match_line, match_count)
                             ELSE UNCHANGED search_hits
  /\ step' = "walk"
  /\ UNCHANGED <<server, before, request, walk, reading, truncated, answer>>

-----------------------------------------------------------------------------
(* The programs on the server.  A file that is removed while it is read is *)
(* still there for the reader.                                             *)
Changed ==
  /\ step # "answered" /\ changes < MaxChanges
  /\ changes' = changes + 1
  /\ UNCHANGED <<before, request, walk, reading, search_hits, truncated, step, answer>>

AppendTo(f, w) ==
  /\ f \in present
  /\ text' = [text EXCEPT ![f] = @ \o w]
  /\ UNCHANGED <<present, locked, same, shut>>
  /\ Changed

Unlink(f) ==
  /\ f \in present
  /\ present' = present \ {f}
  /\ same' = same \ {f}
  /\ UNCHANGED <<text, locked, shut>>
  /\ Changed

Create(f, t) ==
  /\ f \notin present /\ ~(step = "read" /\ f = file)
  /\ present' = present \cup {f}
  /\ text' = [text EXCEPT ![f] = t]
  /\ UNCHANGED <<locked, same, shut>>
  /\ Changed

Chmod(x) ==
  /\ locked' = IF x \in locked THEN locked \ {x} ELSE locked \cup {x}
  /\ shut' = shut \cup locked'
  /\ UNCHANGED <<present, text, same>>
  /\ Changed

Next ==
  \/ \E r \in Requests : Begin(r)
  \/ ListDirectory \/ NextSearchDir \/ Enough
  \/ \E f \in Files : Consider(f)
  \/ BinaryCheck \/ OpenFile \/ ReadLine \/ EndOfFile
  \/ \E f \in Files : Unlink(f) \/ \E w \in Written : AppendTo(f, w)
  \/ \E f \in Files, t \in InitialTexts : Create(f, t)
  \/ \E x \in Lockable : Chmod(x)

Spec == Init /\ [][Next]_vars

-----------------------------------------------------------------------------
TypeOK ==
  /\ present \subseteq Files /\ same \subseteq present
  /\ text \in [Files -> Texts] /\ before \in [Files -> Texts]
  /\ locked \subseteq Lockable /\ shut \subseteq Lockable
  /\ request \in Requests
  /\ search_dirs \in Seq(Dirs) /\ pending \in Seq(Dirs)
  /\ top \in Dirs \cup {None}
  /\ names \subseteq Files
  /\ file \in Files \cup {None}
  /\ step \in {"answered", "walk", "binary", "open", "read"}
  /\ step \in {"binary", "open", "read"} => file \in Files
  /\ step = "read" => at \in 0..Len(text[file])
  /\ {line_no, first_match_line, match_count, halves} \subseteq 0..at
  /\ search_hits \in
       Seq([path : Files, line : Nat, match_count : Nat, root : 1..Len(SearchDirs(request)),
            halves : Nat])
  /\ truncated \in BOOLEAN
  /\ answer \in BadDirectories \cup {"none", "ok", "invalid_argument", "invalid_regex"}
  /\ changes \in 0..MaxChanges

(* What the walk from t comes to from d on: the least set with d and, of   *)
(* each directory, those in it that are neither ignored nor dotfiles of t. *)
Follows(t, S) ==
  \A c \in Dirs :
    Parent[c] \in S /\ c \notin Ignored /\ ~(Parent[c] = t /\ c \in Hidden) => c \in S
Walked(t, d) == {x \in Dirs : \A S \in SUBSET Dirs : d \in S /\ Follows(t, S) => x \in S}
Reached ==
  [d \in Dirs |-> {f \in Files : Parent[f] \in Walked(d, d) /\ ~(Parent[f] = d /\ f \in Hidden)}]

Searched == UNION {Reached[d] : d \in ToSet(SearchDirs(request))}
Wanted == {f \in Searched : request.glob => f \in Globbed}
Matches(t) == request.query = "" \/ (~HasNul(t) /\ \E k \in DOMAIN t : t[k] = "q")
HitFiles == {search_hits[i].path : i \in DOMAIN search_hits}

(* The files that a walk comes to through d, and those that the server may *)
(* read: neither was the file itself locked, if it is to be read, nor was  *)
(* a directory on the way to it.                                           *)
Through == [d \in Dirs |-> {f \in Files : Parent[f] \in Walked(None, d)}]
Open(f) == (request.query # "" => f \notin shut) /\ \A d \in Dirs \cap shut : f \notin Through[d]

(* The files that matched when the search began and still do, were not     *)
(* removed and could be read all the time.                                 *)
Due == {f \in same \cap Wanted : Open(f) /\ Matches(before[f]) /\ Matches(text[f])}

(* An answer that does not say it is truncated has every file that was due,*)
(* whatever else came, went and grew meanwhile; one that says so has as    *)
(* many files as the limit allows, and no answer has more.  A file or a    *)
(* directory that may not be read is left out without a word, also of an   *)
(* answer that does not say it is truncated (service.py 363 and 422).      *)
GrepIsComplete ==
  step = "answered" /\ answer = "ok" =>
    /\ ~truncated => Due \subseteq HitFiles
    /\ truncated => Len(search_hits) = MaxMatches
    /\ Len(search_hits) <= MaxMatches

(* A result stays near the truth of a file that grows: its line is that of *)
(* the first match, or comes after it by at most the lines that were read  *)
(* in two parts because a writer had not ended them.                       *)
FirstMatchIsNear(h) ==
  LET lines == LinesOf(text[h.path], IterBreaks) IN
    \E l \in DOMAIN lines :
      /\ Hit(lines[l]) /\ \A k \in 1..l - 1 : ~Hit(lines[k])
      /\ l <= h.line /\ h.line <= l + h.halves

(* HINT_SEARCH_COMPLETE (strings.py 193) sends the agent from a result to  *)
(* remote_read_file, which numbers lines by splitlines: the line that has  *)
(* the number there is a match, also when the file has grown, unless a     *)
(* break that only splitlines knows stands somewhere before the match or a *)
(* line was read in two parts.                                             *)
ReadFileShows(h) ==
  LET t == text[h.path]
      lines == LinesOf(t, SplitBreaks)
      shifted == \E b \in DOMAIN t : t[b] = "ff" /\ \A k \in 1..b : t[k] # "q"
  IN ~shifted /\ h.halves = 0 => h.line \in DOMAIN lines /\ Hit(lines[h.line])

(* GREP_DESCRIPTION (strings.py 43): "the first matching line, total match *)
(* count in that file".  The count is that of the file as it was before it *)
(* grew, or of a part of what came since, and one more for each line read  *)
(* in two parts that both match.                                           *)
CountIsRight(h) ==
  LET matching(lines) == {k \in DOMAIN lines : Hit(lines[k])}
      count(t) == Cardinality(matching(LinesOf(t, IterBreaks)))
  IN h.match_count \in count(before[h.path])..count(text[h.path]) + h.halves

(* No file is named that the search leaves out; and of a file that has been*)
(* there since the search began line and count are right.                  *)
HitsAreRight ==
  \A i \in DOMAIN search_hits :
    LET h == search_hits[i] IN
      /\ h.path \in Wanted
      /\ h.path \in same /\ request.query # "" =>
           FirstMatchIsNear(h) /\ ReadFileShows(h) /\ CountIsRight(h)

(* A file has one result for each root that the walk comes to it from,     *)
(* whatever comes and goes and however many of its lines match.            *)
(* strings.py 42 promises "one result per matched file", which is so when  *)
(* no root lies inside another; the settings allow one to (config.py       *)
(* 241-277), and then a file has a result for each root above it, and each *)
(* of them counts towards the limit.                                       *)
OneResultPerRoot ==
  \A i, j \in DOMAIN search_hits :
    LET h == search_hits[i] IN
      /\ h.path \in Reached[SearchDirs(request)[h.root]]
      /\ h.path = search_hits[j].path /\ h.root = search_hits[j].root => i = j

=============================================================================
