------------------------------- MODULE MCGrep -------------------------------
(* Grep on a tree of three roots: "app" with the file "log", inside it     *)
(* "src" with the files "py" and ".env", and "vendor" with the file "dep", *)
(* a directory that the walk of "app" ignores.  The dotfile is left out of *)
(* a search of "src" and not out of one of "app".                          *)
EXTENDS Grep

CONSTANTS app, src, vendor, log, env, py, dep

MCDirs == {app, src, vendor}
MCFiles == {log, env, py, dep}
MCParent ==
  [x \in MCDirs \cup MCFiles |->
     CASE x \in {src, vendor, log} -> app
       [] x \in {py, env} -> src
       [] x = dep -> vendor
       [] OTHER -> None]
MCHidden == {env}
MCIgnored == {vendor}
MCGlobbed == {log, py}
MCLockable == {src, py}

Nested == <<app, src, vendor>>

Ask(query, glob, directory) == [query |-> query, glob |-> glob, directory |-> directory]
MCRequests ==
  {Ask("text", FALSE, "all"), Ask("", TRUE, "all"), Ask("text", TRUE, src),
   Ask("bad_regex", FALSE, "all"), Ask("", TRUE, "PermissionError")}

(* No match and a form feed; matches before and behind one; binary.  The   *)
(* last line of the first two has not been ended yet.                      *)
MCTexts == {<<"o", "ff", "o">>, <<"o", "nl", "q", "ff", "q", "nl", "q">>, <<"nul", "q", "nl">>}

(* The rest of a line, with a match, or another part of it; or what makes  *)
(* the file binary.                                                        *)
MCWritten == {<<"q", "nl">>, <<"o">>, <<"nul">>}

=============================================================================
