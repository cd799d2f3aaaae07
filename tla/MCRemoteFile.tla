---------------------------- MODULE MCRemoteFile ----------------------------
(* RemoteFile with limits of two lines and two matches, on short texts.    *)
EXTENDS RemoteFile

ReadFrom(start, max) ==
  [op |-> "read", allowed |-> TRUE, start |-> start, max |-> max, tail |-> 0,
   query |-> "text", fromEnd |-> FALSE]
Search(op, query, fromEnd) ==
  [op |-> op, allowed |-> TRUE, start |-> 1, max |-> 0, tail |-> 0,
   query |-> query, fromEnd |-> fromEnd]

(* The first page, of one line, of the default and of more than the limit; *)
(* a tail; arguments out of range; a path outside the roots.               *)
MCReads ==
  {ReadFrom(1, 1), ReadFrom(1, 0), ReadFrom(2, 9), ReadFrom(0, 1),
   [ReadFrom(0, 1) EXCEPT !.tail = 1], [ReadFrom(1, 1) EXCEPT !.tail = -1],
   [ReadFrom(1, 1) EXCEPT !.tail = 9], [ReadFrom(1, 1) EXCEPT !.allowed = FALSE]}
MCSearches ==
  {Search("search_file", "text", FALSE), Search("search_file", "text", TRUE),
   Search("search_file", "bad_regex", FALSE), Search("search_file", "", TRUE),
   Search("search_log", "text", FALSE)}

MCCalls == MCReads \cup MCSearches

(* Texts of no, one and two lines, ended and not, one with a blank line,   *)
(* some with more matches than the limit, other breaks and a null byte.    *)
MCTexts ==
  {<<>>, <<"q">>, <<"nl", "q">>, <<"q", "nl", "q", "nl">>,
   <<"q", "nl", "q", "nl", "o", "nl", "q">>, <<"q", "ff", "o", "nl", "q", "nl", "q">>,
   <<"nul", "o">>}
MCRotated == {<<"nul", "o">>}

=============================================================================
