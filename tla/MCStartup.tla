----------------------------- MODULE MCStartup -----------------------------
(***************************************************************************)
(* Files for TLC: for each plugin a good section, and one for every way a  *)
(* single key or the section itself can be wrong, with the plugin enabled  *)
(* beside another or disabled; files with two faults; and the faults of    *)
(* the file as a whole.                                                    *)
(***************************************************************************)
EXTENDS Startup

Section(kind, values) == [kind |-> kind, values |-> values]

GoodValues ==
  [dingtalk   |-> [webhook_url |-> "text"],
   jira       |-> [base_url |-> "text", api_token |-> "text", project_key |-> "text",
                   latest_assigned_statuses |-> "list", start_target_status |-> "text",
                   resolve_target_status |-> "text", attachments |-> "absent",
                   max_images |-> "absent", max_bytes_per_image |-> "number"],
   log_search |-> [log_base_dir |-> "text"],
   remote_fs  |-> [roots |-> "list"],
   database   |-> [type |-> "mysql", port |-> "absent", trust_server_certificate |-> "absent",
                   connect_timeout_seconds |-> "number", host |-> "text", user |-> "text",
                   password |-> "text", driver |-> "absent"]]
Good == [p \in Plugins |-> Section("mapping", GoodValues[p])]

\* The values of a key that are tried: one for each outcome of its reader.
Tried(reader) ==
  CASE reader = "text"        -> {"null", "text"}
    [] reader = "int"         -> {"zero", "null", "infinity"}
    [] reader = "strings"     -> {"null", "emptyList"}
    [] reader = "roots"       -> {"null", "badList", "emptyList"}
    [] reader = "flag"        -> {"text"}
    [] reader = "attachments" -> {"null"}
    [] reader = "driver"      -> {"null"}

Variants(p) ==
  {Section("mapping", [GoodValues[p] EXCEPT ![k[1]] = v]) :
     <<k, v>> \in {kv \in ToSet(Keys[p]) \X Values : kv[2] \in Tried(kv[1][2])}}
  \cup {Section(kind, [k \in KeyNames(p) |-> "absent"]) : kind \in SectionKinds}

SqlServer(driver) ==
  Section("mapping", [GoodValues["database"] EXCEPT !["type"] = "sqlserver", !["driver"] = driver])
NoJiraAddress ==
  Section("mapping", [GoodValues["jira"] EXCEPT !["base_url"] = "blank", !["api_token"] = "absent"])

NoLogging == [kind |-> "absent", level |-> "absent"]
File(enabled, sections) ==
  [kind |-> "read", plugins |-> "list", enabled |-> enabled,
   logging |-> NoLogging, sections |-> sections]
Default == File(<<"dingtalk", "remote_fs">>, Good)

Other(p) == IF p = "log_search" THEN "database" ELSE "log_search"
OneFault ==
  UNION {{File(enabled, [Good EXCEPT ![p] = s]) :
            enabled \in {<<p, Other(p)>>}, s \in Variants(p)} : p \in Plugins}
DisabledFault ==
  {File(<<Other(p)>>, [Good EXCEPT ![p] = Section(kind, GoodValues[p])]) :
     p \in Plugins, kind \in {"null", "scalar"}}
  \cup {File(<<"log_search">>, [Good EXCEPT !["jira"] =
          Section("mapping", [GoodValues["jira"] EXCEPT !["max_images"] = "infinity"])])}
TwoFaults ==
  {File(<<"jira", "database">>, [Good EXCEPT !["jira"] = NoJiraAddress, !["database"] = s]) :
     s \in {SqlServer("null"), SqlServer("absent"), Section("null", GoodValues["database"])}}
LogDirs ==
  {File(<<"dingtalk", "log_search">>,
        [Good EXCEPT !["log_search"] = Section("mapping", [log_base_dir |-> v])]) :
     v \in {"loop", "nul", "zero"}}
Whole ==
  {[Default EXCEPT !.kind = k] : k \in {"missing", "unreadable", "undecodable", "unconstructible"}}
  \cup {[Default EXCEPT !.plugins = "malformed"]}
  \cup {[Default EXCEPT !.logging = l] :
          l \in {[kind |-> "null", level |-> "absent"], [kind |-> "mapping", level |-> "text"],
                 [kind |-> "mapping", level |-> "null"]}}
  \cup {File(e, Good) : e \in {<<>>, <<"jira", "jira">>, <<"jira", "nosuch">>}}

MCRewritten == {Default, File(<<"jira", "database">>, Good), File(<<"jira", "database">>,
                  [Good EXCEPT !["jira"] = NoJiraAddress])}
MCFiles == MCRewritten \cup OneFault \cup DisabledFault \cup TwoFaults \cup LogDirs \cup Whole
=============================================================================
