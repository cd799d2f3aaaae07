------------------------------- MODULE Config -------------------------------
(***************************************************************************)
(* What config.py makes of config.yaml: the settings of the enabled        *)
(* plugins, or the exception it raises.  A value of the file is one of the *)
(* classes that its readers tell apart; a section is a value for each of   *)
(* its keys, or something that is not a mapping.  Reading and validation   *)
(* are pure; the root directories of remote_fs, which reading looks up,    *)
(* are an argument.                                                        *)
(***************************************************************************)
EXTENDS Naturals, Sequences, SequencesExt

Plugins == {"database", "dingtalk", "jira", "log_search", "remote_fs"}

\* A key that is not there, one without a value, text of spaces, any other
\* text or a scalar that str() turns into one, the path of a link that leads
\* back to itself, text with a null character, the two database types, true,
\* a positive integer, one that is not, .inf, [] or a list of blanks, a list,
\* a list with an entry that is no root, a mapping.
Values == {"absent", "null", "blank", "text", "loop", "nul", "sqlserver", "mysql",
           "true", "number", "zero", "infinity", "emptyList", "list", "badList",
           "mapping"}

\* The directories of remote_fs.roots are there, are not (or are no
\* directories), or one lies where the process may not look.
RootStates == {"there", "missing", "barred"}

\* A section that is absent, null, another false value, another value, a mapping.
SectionKinds == {"absent", "null", "false", "scalar", "mapping"}

----------------------------------------------------------------------------
\* The readers: a value of the settings, or the way the reader raises.
Raised == {"message", "traceback"}   \* a RuntimeError, or any other exception

\* The reader that raises ends the reading: the first of a sequence that does.
Raising(steps) == {i \in DOMAIN steps : steps[i] \in Raised}
FirstRaised(steps) ==
  steps[CHOOSE i \in Raising(steps) : \A j \in Raising(steps) : i <= j]

\* The number 0 is the text "0".
ReadText(v) ==
  CASE v \in {"absent", "null", "blank"} -> "missing"
    [] v = "zero"                        -> "text"
    [] OTHER                             -> v

\* int() of a float that is infinite is an OverflowError, which is not caught.
ReadInt(v) ==
  CASE v \in {"absent", "number", "true"} -> "positive"
    [] v = "zero"                         -> "zero"
    [] v = "infinity"                     -> "traceback"
    [] OTHER                              -> "message"

ReadStringList(v) ==
  CASE v \in {"absent", "emptyList"} -> "missing"
    [] v \in {"list", "badList"}     -> "given"
    [] OTHER                         -> "message"

\* Path.exists answers False when nothing is there, and raises a
\* PermissionError when a directory above may not be searched.
ReadRoots(v, roots) ==
  CASE v \in {"absent", "emptyList"}     -> "missing"
    [] v = "list" /\ roots = "there"     -> "given"
    [] v = "list" /\ roots = "barred"    -> "traceback"
    [] OTHER                             -> "message"

ReadFlag(v) == IF v \in {"absent", "true"} THEN "given" ELSE "message"
ReadAttachments(v) == IF v \in {"absent", "mapping"} THEN "given" ELSE "message"

\* The driver has a default, for SQL Server only.
DefaultDriver(type) == IF type = "sqlserver" THEN "text" ELSE "blank"
ReadDriver(v, type) ==
  ReadText(IF v = "absent" THEN DefaultDriver(type) ELSE v)

----------------------------------------------------------------------------
\* The keys of each section and their readers, in the order they are read.
DingtalkKeys  == << <<"webhook_url", "text">> >>
JiraKeys      == << <<"base_url", "text">>, <<"api_token", "text">>,
                    <<"project_key", "text">>,
                    <<"latest_assigned_statuses", "strings">>,
                    <<"start_target_status", "text">>,
                    <<"resolve_target_status", "text">>,
                    <<"attachments", "attachments">>,
                    <<"max_images", "int">>, <<"max_bytes_per_image", "int">> >>
LogSearchKeys == << <<"log_base_dir", "text">> >>
RemoteFsKeys  == << <<"roots", "roots">> >>
DatabaseKeys  == << <<"type", "text">>, <<"port", "int">>,
                    <<"trust_server_certificate", "flag">>,
                    <<"connect_timeout_seconds", "int">>, <<"host", "text">>,
                    <<"user", "text">>, <<"password", "text">>,
                    <<"driver", "driver">> >>

Keys == [dingtalk |-> DingtalkKeys, jira |-> JiraKeys,
         log_search |-> LogSearchKeys, remote_fs |-> RemoteFsKeys,
         database |-> DatabaseKeys]
KeyNames(p) == {k[1] : k \in ToSet(Keys[p])}

ReadKey(key, values, roots) ==
  LET v == values[key[1]] IN
  CASE key[2] = "text"        -> ReadText(v)
    [] key[2] = "int"         -> ReadInt(v)
    [] key[2] = "strings"     -> ReadStringList(v)
    [] key[2] = "roots"       -> ReadRoots(v, roots)
    [] key[2] = "flag"        -> ReadFlag(v)
    [] key[2] = "attachments" -> ReadAttachments(v)
    [] key[2] = "driver"      -> ReadDriver(v, values["type"])

\* A result: the way it was raised, "none" for None, or "settings".
Result(how, values) == [how |-> how, values |-> values]
Nothing(p) == [k \in KeyNames(p) |-> "missing"]

\* "if not yaml_db: return None": these sections may be empty, the other
\* two are taken as {} when absent and must be mappings otherwise.
MayBeEmpty == {"log_search", "remote_fs", "database"}
IsFalse(p, section) ==
  \/ section.kind \in {"absent", "null", "false"}
  \/ section.kind = "mapping" /\ \A k \in KeyNames(p) : section.values[k] = "absent"

ReadMapping(p, values, roots) ==
  LET read == [i \in DOMAIN Keys[p] |-> ReadKey(Keys[p][i], values, roots)]
  IN IF Raising(read) # {} THEN Result(FirstRaised(read), Nothing(p))
     ELSE Result("settings", [k \in KeyNames(p) |->
            read[CHOOSE i \in DOMAIN Keys[p] : Keys[p][i][1] = k]])

(* Mutant: the sections of disabled plugins are read too.                  *)
ReadPluginAlways(p, section, enabled, roots) ==
  CASE p \in MayBeEmpty /\ IsFalse(p, section) -> Result("none", Nothing(p))
    [] section.kind = "mapping" -> ReadMapping(p, section.values, roots)
    [] OTHER -> Result("message", Nothing(p))
ReadPlugin(p, section, enabled, roots) ==
  CASE ~enabled -> Result("none", Nothing(p))
    [] enabled /\ p \in MayBeEmpty /\ IsFalse(p, section) ->
         Result("none", Nothing(p))
    [] enabled /\ p \notin MayBeEmpty /\ section.kind = "absent" ->
         ReadMapping(p, [k \in KeyNames(p) |-> "absent"], roots)
    [] enabled /\ section.kind = "mapping" ->
         ReadMapping(p, section.values, roots)
    [] OTHER -> Result("message", Nothing(p))

----------------------------------------------------------------------------
\* validate_settings: what it finds wrong with the settings of a plugin.
Unsupported(p, values) == p = "database" /\ values["type"] \notin {"sqlserver", "mysql"}
Exempt(p, values) ==
  CASE p = "jira" /\ values["base_url"] = "missing" -> {"api_token"}
    [] p = "database" /\ values["type"] # "sqlserver" -> {"driver"}
    [] OTHER -> {}
(* Mutant: the database type is not validated.                             *)
ComplaintsTypeFree(p, result) ==
  IF result.how = "none" THEN {"section"}
  ELSE {k \in KeyNames(p) \ Exempt(p, result.values) :
          result.values[k] \in {"missing", "zero"}}
(* Mutant: the target statuses of jira are not required.                   *)
ComplaintsTargetFree(p, result) ==
  IF result.how = "none" THEN {"section"}
  ELSE {k \in KeyNames(p) \ Exempt(p, result.values) :
          /\ result.values[k] \in {"missing", "zero"}
          /\ k \notin {"start_target_status", "resolve_target_status"}}
       \cup (IF Unsupported(p, result.values) THEN {"type"} ELSE {})
Complaints(p, result) ==
  IF result.how = "none" THEN {"section"}
  ELSE {k \in KeyNames(p) \ Exempt(p, result.values) :
          result.values[k] \in {"missing", "zero"}}
       \cup (IF Unsupported(p, result.values) THEN {"type"} ELSE {})

Validate(enabled, results) ==
  [p \in Plugins |-> IF p \in ToSet(enabled) THEN Complaints(p, results[p]) ELSE {}]

----------------------------------------------------------------------------
\* The file: how reading it ends, and what is in it.  An OSError, a YAMLError
\* and a document that is no mapping are told; the UnicodeDecodeError of text
\* that is not UTF-8 and what PyYAML raises for a scalar that it recognises
\* and cannot construct (the ValueError of 2024-02-30) are not caught.
Uncaught == {"undecodable", "unconstructible"}
ReadFile(file) ==
  CASE file.kind = "unreadable" -> "message"
    [] file.kind \in Uncaught   -> "traceback"
    [] OTHER                    -> "settings"

\* logging.level, "text" standing for one of LOG_LEVELS: absent or blank it
\* is info; a null is the text "None", which is none of them.
ReadLevel(section) ==
  IF section.kind = "absent" \/ section.level \in {"absent", "blank", "text"}
  THEN "known" ELSE "unknown"
(* Mutant: the level is not compared with LOG_LEVELS.                      *)
ReadLoggingUnchecked(section) ==
  IF section.kind \in {"absent", "mapping"} THEN "settings" ELSE "message"
ReadLogging(section) ==
  IF section.kind \in {"absent", "mapping"} /\ ReadLevel(section) = "known"
  THEN "settings" ELSE "message"

\* A file that is missing is read as {}.
ReadEnabled(file) ==
  IF /\ file.kind = "read" /\ file.plugins = "list"
     /\ ToSet(file.enabled) \subseteq Plugins
  THEN "settings" ELSE "message"

ReadPlugins(file, roots) ==
  [p \in Plugins |->
     ReadPlugin(p, file.sections[p], p \in ToSet(file.enabled), roots)]

\* The order in which get_settings reads.
Readings(file, results) ==
  <<ReadFile(file), ReadEnabled(file), ReadLogging(file.logging),
    results["dingtalk"].how, results["jira"].how, results["log_search"].how,
    results["database"].how, results["remote_fs"].how>>

NoComplaints == [p \in Plugins |-> {}]

\* get_settings: the settings of each plugin and what is wrong with them, or
\* the first of the readers that raises.
GetSettings(file, roots) ==
  LET results == ReadPlugins(file, roots)
      steps   == Readings(file, results)
      raised  == Raising(steps) # {}
      wrong   == Validate(file.enabled, results)
  IN [how     |-> CASE raised                           -> FirstRaised(steps)
                    [] ~raised /\ wrong # NoComplaints -> "invalid"
                    [] OTHER                            -> "settings",
      wrong   |-> IF raised THEN NoComplaints ELSE wrong,
      plugins |-> results,
      level   |-> ReadLevel(file.logging)]

=============================================================================
