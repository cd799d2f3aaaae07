----------------------------- MODULE RemoteFile -----------------------------
(***************************************************************************)
(* Reading and searching one text file: remote_read_file and               *)
(* remote_search_file (remote_fs/service.py) and search_log                *)
(* (log_search/service.py), on a file that is written, rotated, removed,   *)
(* replaced by a directory or put out of reach between any two accesses of *)
(* a call.  A call is a series of accesses by path (exists, is_dir, stat,  *)
(* the look for a null byte, open) and one read of what was opened; what   *)
(* follows the read is computed from it alone.  The error types have the   *)
(* names they have in remote_fs; search_log calls three of them otherwise. *)
(***************************************************************************)
EXTENDS Integers, TextLines, SequencesExt

CONSTANTS
  MaxReadLines,      \* MAX_READ_LINES
  DefaultReadLines,  \* DEFAULT_READ_LINES
  MaxMatches,        \* MAX_REVERSE_MATCHES, or MAX_RESULTS of search_log
  ContextLines,      \* lines of context before and after a match
  MaxFileSize,       \* MAX_FILE_SIZE_BYTES, in characters
  BinaryCheckBytes,  \* BINARY_CHECK_BYTES, in characters
  InitialTexts,      \* what the file may hold at first
  RotatedTexts,      \* what the file that follows it may hold at first
  Calls,             \* the arguments the agent may call with
  WrittenChars,      \* what the writer may append
  MaxWrites,         \* bound: the characters written
  MaxFiles,          \* bound: the files that have the path, one after another
  MaxChmods          \* bound: changes of the permissions

Ops == {"read", "search_file", "search_log"}
CallType ==
  [op : Ops,
   allowed : BOOLEAN,  \* the path is under a root, or under log_base_dir
   start : Int, max : Int, tail : Int,
   query : {"text", "", "bad_regex"}, fromEnd : BOOLEAN]

ASSUME FileAssumption ==
  /\ {MaxReadLines, DefaultReadLines, MaxMatches} \subseteq Nat \ {0}
  /\ DefaultReadLines <= MaxReadLines
  /\ {ContextLines, MaxFileSize, BinaryCheckBytes, MaxWrites, MaxFiles, MaxChmods} \subseteq Nat
  /\ InitialTexts \cup RotatedTexts \subseteq Texts
  /\ WrittenChars \subseteq Chars
  /\ Calls \subseteq CallType /\ Calls # {}

Absent == 0
Directory == -1

(* The server may read what has the path; it may not; it may not even see  *)
(* what is there, as a directory above may not be searched.                *)
Accesses == {"granted", "no_read", "no_search"}

VARIABLES
  texts,     \* the files that have had the path, the latest last
  current,   \* which of them has the path, or Absent, or Directory
  access,    \* what the permissions allow of the path
  call,      \* the arguments of the call
  step,      \* the access it makes next
  handle,    \* the file it has opened
  lines,     \* all_lines
  answer,    \* error_type, "ok", or the exception raised
  result,    \* the answer's fields when it is "ok"
  got,       \* what the agent has read since it began with line 1
  steady,    \* history: the path has been one file since then
  seen,      \* history: what was true of the path during the call
  writes,    \* history: characters written
  chmods     \* history: changes of the permissions

files == <<texts, current, access>>
agent == <<call, got, steady>>
vars  == <<files, agent, step, handle, lines, answer, result, seen, writes, chmods>>

IsFile(c) == c > 0
HasNul(t) == \E i \in DOMAIN t : i <= BinaryCheckBytes /\ t[i] = "nul"

(* What an answer may claim of the path.                                   *)
FactNames == {"absent", "directory", "large", "binary", "readable", "unreadable"}
Facts(ts, c, a) ==
  {f \in FactNames :
     \/ f = "absent" /\ c = Absent
     \/ f = "directory" /\ c = Directory
     \/ f = "large" /\ IsFile(c) /\ Len(ts[c]) > MaxFileSize
     \/ f = "binary" /\ IsFile(c) /\ HasNul(ts[c])
     \/ f = "readable" /\ a = "granted"
     \/ f = "unreadable" /\ a # "granted"}

NoResult == [start |-> 0, end |-> 0, truncated |-> FALSE, hits |-> <<>>]

Init ==
  /\ texts \in {<<t>> : t \in InitialTexts}
  /\ current = 1
  /\ access \in Accesses
  /\ call = CHOOSE c \in Calls : TRUE
  /\ step = "answered"
  /\ handle = Absent
  /\ lines = <<>>
  /\ answer = "none"
  /\ result = NoResult
  /\ got = <<>>
  /\ steady = FALSE
  /\ seen = {}
  /\ writes = 0
  /\ chmods = 0

-----------------------------------------------------------------------------
Answer(a) == step' = "answered" /\ answer' = a

BeginCall ==
  /\ step' = "exists"
  /\ handle' = Absent
  /\ lines' = <<>>
  /\ answer' = "none"
  /\ result' = NoResult
  /\ seen' = Facts(texts, current, access)

(* A new question of the agent, or the page after the one it has got.      *)
NewCall(c) ==
  /\ step = "answered"
  /\ call' = c
  /\ got' = <<>>
  /\ steady' = TRUE
  /\ BeginCall
  /\ UNCHANGED <<files, writes, chmods>>

NextPage ==
  /\ step = "answered" /\ answer = "ok"
  /\ call.op = "read" /\ call.tail = 0 /\ result.truncated
  /\ call' = [call EXCEPT !.start = result.end + 1]
  /\ BeginCall
  /\ UNCHANGED <<files, got, steady, writes, chmods>>

Unread == UNCHANGED <<files, agent, handle, lines, result, seen, writes, chmods>>

(* An empty query, a path outside the roots, resolved.exists(), which      *)
(* raises for a path that it may not look at.                              *)
Exists ==
  /\ step = "exists"
  /\ IF call.op # "read" /\ call.query = "" THEN Answer("invalid_argument")
     ELSE IF ~call.allowed THEN Answer("path_not_allowed")
     ELSE IF access = "no_search" THEN Answer("PermissionError")
     ELSE IF current = Absent THEN Answer("path_not_found")
     ELSE step' = "is_dir" /\ UNCHANGED answer
  /\ Unread

IsDir ==
  /\ step = "is_dir"
  /\ IF access = "no_search" THEN Answer("PermissionError")
     ELSE IF current = Directory THEN Answer("not_a_file")
     ELSE step' = "stat" /\ UNCHANGED answer
  /\ Unread

(* resolved.stat() raises for a path that has gone since, or that it may   *)
(* not look at; search_log does not look for null bytes.                   *)
Stat ==
  /\ step = "stat"
  /\ \/ access = "no_search" /\ Answer("PermissionError")
     \/ access # "no_search" /\ current = Absent /\ Answer("FileNotFoundError")
     \/ /\ access # "no_search"
        /\ IsFile(current) /\ Len(texts[current]) > MaxFileSize
        /\ Answer("file_too_large")
     \/ /\ access # "no_search" /\ current # Absent
        /\ IsFile(current) => Len(texts[current]) <= MaxFileSize
        /\ step' = IF call.op = "search_log" THEN "open" ELSE "binary"
        /\ UNCHANGED answer
  /\ Unread

InvalidRange == call.op = "read" /\ (call.tail < 0 \/ (call.tail = 0 /\ call.start < 1))

(* Mutant: what cannot be opened counts as binary.                         *)
BinaryCheckUnreadable ==
  /\ step = "binary"
  /\ IF ~IsFile(current) \/ access # "granted" THEN Answer("binary_file_not_supported")
     ELSE IF InvalidRange THEN Answer("invalid_argument")
     ELSE step' = "open" /\ UNCHANGED answer
  /\ Unread

(* _is_binary, which is FALSE of what it cannot open, then the check of    *)
(* read_file's arguments, or of search_file's expression.                  *)
IsBinary ==
  access = "granted" /\ IsFile(current) /\ HasNul(texts[IF IsFile(current) THEN current ELSE 1])
BinaryCheck ==
  /\ step = "binary"
  /\ IF IsBinary THEN Answer("binary_file_not_supported")
     ELSE IF InvalidRange THEN Answer("invalid_argument")
     ELSE IF call.op # "read" /\ call.query = "bad_regex" THEN Answer("invalid_regex")
     ELSE step' = "open" /\ UNCHANGED answer
  /\ Unread

(* aiofiles.open(): its exceptions leave the tool.  A path that may not be *)
(* read is no matter what it is.                                           *)
Open ==
  /\ step = "open"
  /\ \/ /\ access # "granted" /\ (access = "no_read" => current # Absent)
        /\ Answer("PermissionError") /\ UNCHANGED handle
     \/ /\ access # "no_search" /\ current = Absent
        /\ Answer("FileNotFoundError") /\ UNCHANGED handle
     \/ /\ access = "granted" /\ current = Directory
        /\ Answer("IsADirectoryError") /\ UNCHANGED handle
     \/ /\ access = "granted" /\ IsFile(current)
        /\ handle' = current /\ step' = "read" /\ UNCHANGED answer
  /\ UNCHANGED <<files, agent, lines, result, seen, writes, chmods>>

-----------------------------------------------------------------------------
(* s[a:b] for 0 <= a                                                       *)
Slice(s, a, b) == SubSeq(s, a + 1, IF b < Len(s) THEN b ELSE Len(s))
Least(a, b) == IF a < b THEN a ELSE b
Most(a, b) == IF a > b THEN a ELSE b

(* Mutant: the end of the range is not held to the end of the file.        *)
SelectedPastEnd(total) ==
  LET from == IF call.tail > 0 THEN Most(total - call.tail, 0) ELSE call.start - 1
  IN [from |-> from,
      to   |-> from + IF call.max > 0 THEN call.max ELSE DefaultReadLines]

(* The range of lines that read_file selects, from 0, and its end.         *)
Selected(total) ==
  LET max == IF call.max > 0 THEN Least(call.max, MaxReadLines) ELSE DefaultReadLines
      from == IF call.tail > 0 THEN Most(total - Least(call.tail, MaxReadLines), 0)
              ELSE call.start - 1
  IN [from |-> from,
      to   |-> IF call.tail > 0 THEN total ELSE Least(from + max, total)]

(* Mutant: a page that leaves one line is taken for the last.              *)
ReadFileButLast(all) ==
  LET s == Selected(Len(all)) IN
  /\ call.op = "read" /\ all # <<>> /\ s.from < Len(all)
  /\ Answer("ok")
  /\ result' = [NoResult EXCEPT !.start = s.from + 1, !.end = s.to,
                                !.truncated = s.to + 1 < Len(all)]
  /\ got' = got \o Slice(all, s.from, s.to)

ReadFile(all) ==
  LET s == Selected(Len(all)) IN
  /\ call.op = "read"
  /\ \/ /\ all = <<>>
        /\ Answer("ok")
        /\ UNCHANGED <<result, got>>
     \/ /\ all # <<>> /\ s.from >= Len(all)
        /\ Answer("line_out_of_range")
        /\ UNCHANGED <<result, got>>
     \/ /\ all # <<>> /\ s.from < Len(all)
        /\ Answer("ok")
        /\ result' = [NoResult EXCEPT !.start = s.from + 1, !.end = s.to,
                                      !.truncated = s.to < Len(all)]
        /\ got' = got \o Slice(all, s.from, s.to)

(* Mutant: the lines after the match begin with the match.                 *)
ContextWithMatch(all, k) ==
  [line   |-> k,
   before |-> Slice(all, Most(0, k - 1 - ContextLines), k - 1),
   after  |-> Slice(all, k - 1, k + ContextLines)]

Context(all, k) ==
  [line   |-> k,
   before |-> Slice(all, Most(0, k - 1 - ContextLines), k - 1),
   after  |-> Slice(all, k, k + ContextLines)]

(* The loop of search_file ends when the hits are enough before it looks   *)
(* at a line, that of search_log after a hit.                              *)
Scan(all, acc, k) ==
  LET enough == Len(acc.hits) >= MaxMatches
      full   == [acc EXCEPT !.truncated = TRUE]
      next   == [acc EXCEPT !.hits = Append(@, Context(all, k))]
  IN IF call.op = "search_file"
       THEN IF enough THEN full ELSE IF Hit(all[k]) THEN next ELSE acc
       ELSE IF ~Hit(all[k]) THEN acc ELSE IF enough THEN full ELSE next

(* What the loop over the lines in that order has after n of them.         *)
Loop(all, order) ==
  LET after[n \in 0..Len(order)] ==
        IF n = 0 THEN NoResult ELSE Scan(all, after[n - 1], order[n])
  IN after

(* Mutant: every search scans from the first line.                         *)
SearchFileForward(all) ==
  /\ call.op # "read"
  /\ Answer("ok")
  /\ result' = Loop(all, [k \in DOMAIN all |-> k])[Len(all)]
  /\ UNCHANGED got

(* search_log scans from the end and then sorts by line number.            *)
SearchFile(all) ==
  LET indexes == [k \in DOMAIN all |-> k]
      order   == IF call.op = "search_log" \/ call.fromEnd THEN Reverse(indexes) ELSE indexes
      found   == Loop(all, order)[Len(order)]
  IN /\ call.op # "read"
     /\ Answer("ok")
     /\ result' = [found EXCEPT !.hits = IF call.op = "search_log" THEN Reverse(@) ELSE @]
     /\ UNCHANGED got

(* await f.read(), and all that is computed from it without another await. *)
Read ==
  /\ step = "read"
  /\ lines' = LinesOf(texts[handle], SplitBreaks)
  /\ ReadFile(lines') \/ SearchFile(lines')
  /\ UNCHANGED <<files, call, steady, handle, seen, writes, chmods>>

-----------------------------------------------------------------------------
(* The programs on the server, at any moment.                              *)
Changed ==
  /\ steady' = (steady /\ UNCHANGED current)
  /\ seen' = seen \cup Facts(texts', current', access')
  /\ UNCHANGED <<call, got, step, handle, lines, answer, result>>

(* The writer appends to the file it has open, which need not have the     *)
(* path any more.                                                          *)
Write ==
  /\ writes < MaxWrites
  /\ \E i \in DOMAIN texts, c \in WrittenChars : texts' = [texts EXCEPT ![i] = Append(@, c)]
  /\ writes' = writes + 1
  /\ UNCHANGED <<current, access, chmods>>
  /\ Changed

(* What takes the path has the permissions of what had it, until Chmod.    *)
Rotate ==
  /\ Len(texts) < MaxFiles
  /\ \E t \in RotatedTexts : texts' = Append(texts, t)
  /\ current' = Len(texts')
  /\ UNCHANGED <<access, writes, chmods>>
  /\ Changed

Unlink ==
  /\ current # Absent
  /\ current' = Absent
  /\ UNCHANGED <<texts, access, writes, chmods>>
  /\ Changed

MakeDirectory ==
  /\ current = Absent
  /\ current' = Directory
  /\ UNCHANGED <<texts, access, writes, chmods>>
  /\ Changed

Chmod ==
  /\ chmods < MaxChmods
  /\ access' \in Accesses \ {access}
  /\ chmods' = chmods + 1
  /\ UNCHANGED <<texts, current, writes>>
  /\ Changed

Next ==
  \/ \E c \in Calls : NewCall(c)
  \/ NextPage
  \/ Exists \/ IsDir \/ Stat \/ BinaryCheck \/ Open \/ Read
  \/ Write \/ Rotate \/ Unlink \/ MakeDirectory \/ Chmod

Spec == Init /\ [][Next]_vars

-----------------------------------------------------------------------------
Lines == Seq(Chars)
ResultOK(r) ==
  /\ {r.start, r.end} \subseteq 0..Len(lines)
  /\ r.truncated \in BOOLEAN
  /\ \A i \in DOMAIN r.hits : r.hits[i].line \in DOMAIN lines

TypeOK ==
  /\ texts \in Seq(Texts)
  /\ current \in {Absent, Directory} \cup DOMAIN texts
  /\ access \in Accesses
  /\ call \in CallType
  /\ step \in {"answered", "exists", "is_dir", "stat", "binary", "open", "read"}
  /\ handle \in {Absent} \cup DOMAIN texts
  /\ lines \in Seq(Lines)
  /\ answer \in {"none", "ok", "path_not_found", "not_a_file", "file_too_large",
                 "binary_file_not_supported", "invalid_argument", "invalid_regex",
                 "path_not_allowed", "line_out_of_range",
                 "FileNotFoundError", "IsADirectoryError", "PermissionError"}
  /\ ResultOK(result)
  /\ got \in Seq(Lines)
  /\ steady \in BOOLEAN
  /\ seen \subseteq FactNames
  /\ {writes, chmods} \subseteq Nat

Answered(op) == step = "answered" /\ answer = "ok" /\ call.op = op

(* An agent that asks for page after page, each from the line after the    *)
(* last it got, as HINT_READ_FILE_TRUNCATED tells it, gets each line of    *)
(* the file once and whole, although the file grows in between, and has    *)
(* all of what was last read when it is told there is no more.             *)
PagesAreTheFile ==
  Answered("read") /\ call.tail = 0 /\ got # <<>> /\ steady =>
    LET first == call.start - (Len(got) - (result.end + 1 - result.start)) IN
      /\ got = SubSeq(lines, first, result.end)
      /\ ~result.truncated => result.end = Len(lines)

(* A search finds every matching line of what it read, unless it says that *)
(* it is truncated; then it has the newest ones (from_end, search_log) or  *)
(* the first.  search_log says so only if there are more.                  *)
SearchIsComplete ==
  \A op \in {"search_file", "search_log"} : Answered(op) =>
    LET matches == {k \in DOMAIN lines : Hit(lines[k])}
        found == {result.hits[i].line : i \in DOMAIN result.hits}
        newest == op = "search_log" \/ call.fromEnd
    IN /\ found \subseteq matches /\ Cardinality(found) = Len(result.hits)
       /\ ~result.truncated => found = matches
       /\ \A f \in found, k \in matches \ found : IF newest THEN k < f ELSE k > f
       /\ result.truncated => Len(result.hits) = MaxMatches
       /\ op = "search_log" /\ result.truncated => matches # found

(* Around each match are the lines that stand around it in the file, as    *)
(* many as there are, up to the limit.                                     *)
ContextSurrounds ==
  \A i \in DOMAIN result.hits :
    LET h == result.hits[i] IN
      /\ Len(h.before) = Least(ContextLines, h.line - 1)
      /\ Len(h.after) = Least(ContextLines, Len(lines) - h.line)
      /\ h.before \o <<lines[h.line]>> \o h.after =
           SubSeq(lines, h.line - Len(h.before), h.line + Len(h.after))

(* The answer of a search: its matches, and what stands around each.       *)
SearchIsRight == SearchIsComplete /\ ContextSurrounds

(* What an answer says of the path was so at some moment of the call; so   *)
(* was what the exception says that a call ends in, and what shows the     *)
(* contents comes from a path that might be read.  That a file may not be  *)
(* read is no error_type, although the comment of service.py 438 and 531   *)
(* calls the file verified as readable: _is_binary lets it pass.           *)
AnswerWasTrue ==
  step = "answered" =>
    /\ answer \in {"path_not_found", "FileNotFoundError"} => "absent" \in seen
    /\ answer \in {"not_a_file", "IsADirectoryError"} => "directory" \in seen
    /\ answer = "file_too_large" => "large" \in seen
    /\ answer = "binary_file_not_supported" => "binary" \in seen
    /\ answer = "PermissionError" => "unreadable" \in seen
    /\ answer \in {"ok", "line_out_of_range"} => "readable" \in seen

=============================================================================
