------------------------------ MODULE Startup ------------------------------
(***************************************************************************)
(* `make check` (check.py, scripts/check.py) and the start of the server   *)
(* (server.py 87-190), two processes that read the same config.yaml while  *)
(* the operator edits it, creates or removes the directories it names, and *)
(* the services it names come and go.                                      *)
(***************************************************************************)
EXTENDS Config

CONSTANTS
  Files,      \* the config.yaml files the operator may write
  Rewritten,  \* those it may be changed to while a process runs
  MaxEdits    \* bound: changes of the file or of the directories

ASSUME FilesAssumption ==
  /\ Rewritten \subseteq Files /\ MaxEdits \in Nat
  /\ \A f \in Files : f.enabled \in Seq(STRING)
  /\ \A f \in Files, p \in Plugins :
       f.sections[p].kind = "mapping" =>
         \A k \in KeyNames(p) : f.sections[p].values[k] \in Values

VARIABLES
  file,       \* config.yaml
  roots,      \* the directories of remote_fs.roots
  edits,      \* bound: changes so far
  check,      \* the process of `make check`
  server,     \* the process of the server
  passed      \* history: what the last check that passed had read

world == <<file, roots, edits>>
vars  == <<file, roots, edits, check, server, passed>>

\* What a process reads of the world, and the settings it makes of it and keeps.
Load == [file |-> file, roots |-> roots]
NoLoad == [file |-> CHOOSE f \in Files : TRUE, roots |-> "missing"]
NoSettings == [how |-> "none", plugins |-> <<>>, wrong |-> <<>>, level |-> "known"]
Enabled(process) == ToSet(process.load.file.enabled)

----------------------------------------------------------------------------
\* One line of the report for a module: its level.
Line(module, level) == [module |-> module, level |-> level]

\* _group_config_error: the lines of validate_settings name their plugin,
\* any other message is an error of "config".
(* Mutant: a message without the lines of validate_settings is dropped.    *)
GroupConfigErrorOnly(settings) ==
  {Line(p, "error") : p \in {q \in Plugins : settings.wrong[q] # {}}}
GroupConfigError(settings) ==
  IF settings.how = "invalid"
  THEN {Line(p, "error") : p \in {q \in Plugins : settings.wrong[q] # {}}}
  ELSE {Line("config", "error")}

HasErrors(report) == \E l \in report : l.level = "error"

\* The services a check can reach: it answers, it fails with an exception of
\* its client, or with another (no driver library, a timeout of the body).
Probed == {"jira", "database"}
Probes(p) == IF p \in Probed THEN {"ok", "error", "traceback"} ELSE {"ok"}

CheckInit == [at |-> "idle", load |-> NoLoad, settings |-> NoSettings,
              todo |-> <<>>, report |-> {}]

\* run_checks: the settings, or a report of why there are none.
CheckLoad ==
  /\ check.at = "idle"
  /\ LET settings == GetSettings(file, roots) IN
     check' = [at     |-> CASE settings.how = "settings"  -> "probing"
                            [] settings.how = "traceback" -> "crashed"
                            [] OTHER                      -> "printing",
               load   |-> Load,
               settings |-> settings,
               todo   |-> IF settings.how = "settings" THEN file.enabled ELSE <<>>,
               report |-> IF settings.how \in {"message", "invalid"}
                          THEN GroupConfigError(settings) ELSE {}]
  /\ UNCHANGED <<world, server, passed>>

\* _run_plugin_check for the next enabled plugin.
(* Mutant: an exception that nobody expected is printed as a level.        *)
CheckPluginLevels ==
  /\ check.at = "probing" /\ check.todo # <<>>
  /\ \E probe \in Probes(Head(check.todo)) :
       check' = [check EXCEPT !.todo = Tail(@), !.report = @ \cup {Line(Head(check.todo), probe)}]
  /\ UNCHANGED <<world, server, passed>>
(* Mutant: the check ends at the first plugin that fails.                  *)
CheckPluginStops ==
  /\ check.at = "probing" /\ check.todo # <<>>
  /\ \E probe \in Probes(Head(check.todo)) :
       check' = IF probe = "traceback"
                THEN [check EXCEPT !.at = "crashed", !.todo = <<>>, !.report = {}]
                ELSE [check EXCEPT !.todo = IF probe = "error" THEN <<>> ELSE Tail(@),
                                   !.report = @ \cup {Line(Head(check.todo), probe)}]
  /\ UNCHANGED <<world, server, passed>>
CheckPlugin ==
  /\ check.at = "probing" /\ check.todo # <<>>
  /\ LET p == Head(check.todo)
         settings == check.settings.plugins[p] IN
     \E probe \in Probes(p) :
       check' = IF (settings.how = "none" /\ p # "database") \/ probe = "traceback"
                THEN [check EXCEPT !.at = "crashed", !.todo = <<>>, !.report = {}]
                ELSE [check EXCEPT !.todo = Tail(@), !.report = @ \cup
                       {Line(p, IF settings.how = "none" THEN "error" ELSE probe)}]
  /\ UNCHANGED <<world, server, passed>>

CheckProbed ==
  /\ check.at = "probing" /\ check.todo = <<>>
  /\ check' = [check EXCEPT !.at = "printing"]
  /\ UNCHANGED <<world, server, passed>>

\* print_check_report and the exit status: "all checks passed", or not.
CheckPrint ==
  /\ check.at = "printing"
  /\ passed' = IF HasErrors(check.report) THEN passed ELSE {check.load}
  /\ check' = CheckInit
  /\ UNCHANGED <<world, server>>

CheckAgain ==
  /\ check.at = "crashed"
  /\ check' = CheckInit
  /\ UNCHANGED <<world, server, passed>>

----------------------------------------------------------------------------
Transports == {"stdio", "streamable-http"}
Address(transport, host, port) == [transport |-> transport, host |-> host, port |-> port]
Unbound == Address("stdio", "none", "none")   \* default_server_settings

\* The command line: "none" is an option that is not given.
Arguments == [transport : Transports \cup {"none"},
              host : {"none", "given"}, port : {"none", "given"}]

\* _apply_cli_overrides: an option replaces what the transport brought along,
\* and over stdio there is no address.
Chosen(transport) ==
  CASE transport = "none"  -> Unbound
    [] transport = "stdio" -> Unbound
    [] OTHER               -> Address(transport, "default", "default")
Override(address, args) ==
  [address EXCEPT !.host = IF args.host = "none" THEN @ ELSE args.host,
                  !.port = IF args.port = "none" THEN @ ELSE args.port]
ClearStdio(address) == IF address.transport = "stdio" THEN Unbound ELSE address
ApplyCliOverrides(args) == ClearStdio(Override(Chosen(args.transport), args))

ServerInit == [at |-> "down", load |-> NoLoad, settings |-> NoSettings,
               address |-> Unbound, todo |-> <<>>, tools |-> {}]

Fail(how) == [server EXCEPT !.at = how]

\* main: get_settings, the overrides, which validate once more, and
\* logger.configure, whose ValueError for an unknown level is not caught.
ServerLoad(args) ==
  /\ server.at = "down"
  /\ LET settings == GetSettings(file, roots) IN
     server' = [at |-> CASE settings.how = "traceback"            -> "traceback"
                         [] settings.how \in {"message", "invalid"} -> "message"
                         [] settings.how = "settings" ->
                              IF settings.level = "known" THEN "registering" ELSE "traceback",
                load |-> Load, settings |-> settings, address |-> ApplyCliOverrides(args), tools |-> {},
                todo |-> IF settings.how = "settings" THEN file.enabled ELSE <<>>]
  /\ UNCHANGED <<world, check, passed>>

\* What the constructor behind a plugin's tools raises: without its settings
\* a RuntimeError from dingtalk, jira and database, an AttributeError from
\* the other two; without an address or a token a RuntimeError from
\* JiraClient; for a database of another type a ValueError; for a log
\* directory that Path.resolve refuses a RuntimeError or a ValueError.
Raises(p, result) ==
  CASE result.how = "none" /\ p \in {"dingtalk", "jira", "database"} -> "message"
    [] result.how = "none" /\ p \in {"log_search", "remote_fs"} -> "traceback"
    [] result.how = "settings" /\ p = "jira"
       /\ "missing" \in {result.values["base_url"], result.values["api_token"]} -> "message"
    [] result.how = "settings" /\ Unsupported(p, result.values) -> "traceback"
    [] result.how = "settings" /\ p = "log_search"
       /\ result.values["log_base_dir"] = "loop" -> "message"
    [] result.how = "settings" /\ p = "log_search"
       /\ result.values["log_base_dir"] = "nul" -> "traceback"
    [] OTHER -> "settings"

\* create_mcp: register the tools of the next enabled plugin.
ServerRegister ==
  /\ server.at = "registering" /\ server.todo # <<>>
  /\ LET p == Head(server.todo)
         how == Raises(p, server.settings.plugins[p]) IN
     server' = IF how \in Raised THEN Fail(how)
               ELSE [server EXCEPT !.todo = Tail(@), !.tools = @ \cup {p}]
  /\ UNCHANGED <<world, check, passed>>

ServerRun ==
  /\ server.at = "registering" /\ server.todo = <<>>
  /\ server' = [server EXCEPT !.at = "running"]
  /\ UNCHANGED <<world, check, passed>>

\* The server is stopped, or has failed, and may be started again.
ServerAgain ==
  /\ server.at \in {"running", "message", "traceback"}
  /\ server' = ServerInit
  /\ UNCHANGED <<world, check, passed>>

----------------------------------------------------------------------------
EditFile ==
  /\ edits < MaxEdits /\ file' \in Rewritten \ {file} /\ edits' = edits + 1
  /\ UNCHANGED <<roots, check, server, passed>>

ChangeDirectories ==
  /\ edits < MaxEdits /\ roots' \in RootStates \ {roots} /\ edits' = edits + 1
  /\ UNCHANGED <<file, check, server, passed>>

Init ==
  /\ file \in Files /\ roots \in RootStates /\ edits = 0
  /\ check = CheckInit /\ server = ServerInit /\ passed = {}

Next ==
  \/ CheckLoad \/ CheckPlugin \/ CheckProbed \/ CheckPrint \/ CheckAgain
  \/ \E args \in Arguments : ServerLoad(args)
  \/ ServerRegister \/ ServerRun \/ ServerAgain
  \/ EditFile \/ ChangeDirectories

Spec == Init /\ [][Next]_vars

----------------------------------------------------------------------------
\* The variables stay in their ranges.
TypeOK ==
  /\ file \in Files /\ roots \in RootStates /\ edits \in 0..MaxEdits
  /\ check.at \in {"idle", "probing", "printing", "crashed"}
  /\ check.report \subseteq
       [module : Plugins \cup {"config"}, level : {"ok", "error"}]
  /\ server.at \in {"down", "registering", "running", "message", "traceback"}
  /\ server.tools \subseteq Plugins /\ server.address.transport \in Transports
  /\ passed \subseteq [file : Files, roots : RootStates]

\* The one thing that no validation looks at and a constructor needs:
\* log_search/service.py 28 resolves the log directory.
LogDirRefused(process, values) ==
  /\ process.settings.how = "settings" /\ "log_search" \in Enabled(process)
  /\ process.settings.plugins["log_search"].values["log_base_dir"] \in values

\* A configuration that `make check` has passed starts the server, with any
\* options: what check.py accepts and what the constructors of the tools
\* demand are in seven files, and nothing but validate_settings relates them.
\* The exception: a log directory that cannot be resolved.
PassedCheckStarts ==
  server.at \in {"message", "traceback"} =>
    server.load \notin passed \/ LogDirRefused(server, {"loop", "nul"})

\* Whatever is wrong with the configuration is found before the first tool is
\* registered: no constructor meets settings it cannot work with, but for a
\* log directory that cannot be resolved.
FailsBeforeRegistering ==
  server.at \in {"message", "traceback"} =>
    \/ server.todo = <<>> /\ server.tools = {}
    \/ LogDirRefused(server, {"loop", "nul"})

\* A running server offers exactly the enabled plugins, the directories it
\* was given existed, and what their tools send, open or compare is set.
Needs == [dingtalk |-> {"webhook_url"},
          jira |-> {"base_url", "api_token", "project_key", "start_target_status",
                    "resolve_target_status", "latest_assigned_statuses"},
          log_search |-> {"log_base_dir"}, remote_fs |-> {"roots"},
          database |-> {"type", "host", "user", "password"}]
RunningIsConfigured ==
  server.at = "running" =>
    /\ server.tools = Enabled(server)
    /\ "remote_fs" \in server.tools => server.load.roots = "there"
    /\ \A p \in server.tools : \A k \in Needs[p] :
         server.settings.plugins[p].values[k] \notin Raised \cup {"missing"}
    /\ ("database" \in server.tools
        /\ server.settings.plugins["database"].values["type"] = "sqlserver") =>
       server.settings.plugins["database"].values["driver"] # "missing"

\* README.md 51: what stands in the sections of disabled plugins, or whether
\* their directories exist, makes no difference to what a start does.
SameEnabled(f, g) ==
  /\ <<f.kind, f.plugins, f.enabled, f.logging>> = <<g.kind, g.plugins, g.enabled, g.logging>>
  /\ \A p \in ToSet(f.enabled) \cap Plugins : f.sections[p] = g.sections[p]
DisabledIsIgnored ==
  server.at \in {"registering", "message", "traceback"} /\ server.tools = {} =>
    \A g \in Files : SameEnabled(server.load.file, g) =>
      \A r \in (IF "remote_fs" \in ToSet(g.enabled) THEN {server.load.roots}
                ELSE RootStates) :
        GetSettings(g, r) = server.settings

\* The report blames no plugin that is disabled, names every enabled plugin
\* whose settings are incomplete, and has a result for every plugin once the
\* settings are read.
ReportIsRight ==
  check.at = "printing" =>
    LET settings == check.settings
        named    == {l.module : l \in check.report}
    IN /\ named \subseteq Enabled(check) \cup {"config"}
       /\ "config" \in named <=> settings.how = "message"
       /\ settings.how = "settings" => named = Enabled(check)
       /\ \A p \in Plugins : settings.wrong[p] # {} => Line(p, "error") \in check.report

\* main turns what is wrong with the configuration into a message.  The
\* exceptions: a file that is not UTF-8 or has a scalar PyYAML cannot
\* construct, a number that is not finite, roots the process may not look at,
\* and a log directory with a null character.
HasInfinity(f) ==
  \E p \in ToSet(f.enabled) \cap Plugins : \E k \in KeyNames(p) :
    f.sections[p].kind = "mapping" /\ f.sections[p].values[k] = "infinity"
RootsBarred(load) == load.roots = "barred" /\ "remote_fs" \in ToSet(load.file.enabled)
FailureIsMessage ==
  server.at = "traceback" =>
    \/ server.load.file.kind \in Uncaught
    \/ HasInfinity(server.load.file)
    \/ RootsBarred(server.load)
    \/ LogDirRefused(server, {"nul"})

=============================================================================
