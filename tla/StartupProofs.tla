--------------------------- MODULE StartupProofs ---------------------------
(***************************************************************************)
(* Proofs about Startup, for every set of files.  Validated says what      *)
(* settings are worth once get_settings has returned them: every reader of *)
(* an enabled plugin succeeded and nothing is left to complain about,      *)
(* hence no constructor raises (NothingRaises) and no value that a tool    *)
(* uses is missing (NothingNeededIsMissing); DisabledIsNotRead says what   *)
(* the settings do not depend on.  IInv carries that from the load of a    *)
(* process to its end, and TypeInv, which needs it, the types.             *)
(***************************************************************************)
EXTENDS Startup, WellFoundedInduction, TLAPS

-----------------------------------------------------------------------------
(* The first reader that raises is one that raises.                        *)
LEMMA FirstRaises ==
  ASSUME NEW steps, DOMAIN steps \subseteq Nat, Raising(steps) # {}
  PROVE  /\ FirstRaised(steps) \in Raised
         /\ \E i \in DOMAIN steps : steps[i] = FirstRaised(steps)
<1>1. Raising(steps) \subseteq Nat
  BY DEF Raising
<1>2. PICK i \in Raising(steps) :
        \A j \in Raising(steps) : ~ (<<j, i>> \in OpToRel(<, Nat))
  BY <1>1, NatLessThanWellFounded, WFMin
<1>3. ASSUME NEW j \in Raising(steps), j < i
      PROVE  FALSE
  <2>1. <<j, i>> \in Nat \X Nat /\ <<j, i>>[1] < <<j, i>>[2]
    BY <1>1, <1>3
  <2>2. <<j, i>> \in OpToRel(<, Nat)
    BY <2>1 DEF OpToRel
  <2> QED BY <1>2, <2>2
<1>4. (CHOOSE k \in Raising(steps) : \A j \in Raising(steps) : k <= j)
        \in Raising(steps)
  BY <1>1, <1>3
<1> QED BY <1>4 DEF FirstRaised, Raising

(* The settings of a plugin that is read are its values, None, or raised.  *)
LEMMA PluginOutcome ==
  ASSUME NEW p \in Plugins, NEW section, NEW enabled \in BOOLEAN, NEW e
  PROVE  ReadPlugin(p, section, enabled, e).how \in Raised \cup {"none", "settings"}
<1>1. ASSUME NEW values
      PROVE  ReadMapping(p, values, e).how \in Raised \cup {"settings"}
  <2> DEFINE read == [i \in DOMAIN Keys[p] |-> ReadKey(Keys[p][i], values, e)]
  <2>1. DOMAIN read \subseteq Nat
    BY DEF Plugins, Keys, DingtalkKeys, JiraKeys, LogSearchKeys, RemoteFsKeys,
           DatabaseKeys
  <2>2. CASE Raising(read) # {}
    <3>1. FirstRaised(read) \in Raised
      <4> HIDE DEF read
      <4> QED BY <2>1, <2>2, FirstRaises
    <3>2. ReadMapping(p, values, e) = Result(FirstRaised(read), Nothing(p))
      BY <2>2 DEF ReadMapping
    <3> QED BY <3>1, <3>2 DEF Result
  <2>3. CASE Raising(read) = {}
    BY <2>3 DEF ReadMapping, Result
  <2> QED BY <2>2, <2>3
<1>2. \/ ReadPlugin(p, section, enabled, e).how \in {"none", "message"}
      \/ \E values : ReadPlugin(p, section, enabled, e) = ReadMapping(p, values, e)
  BY DEF ReadPlugin, Result
<1> QED BY <1>1, <1>2 DEF Raised

-----------------------------------------------------------------------------
(* get_settings raises, returns settings, or finds them invalid.           *)
LEMMA Outcomes ==
  ASSUME NEW f, NEW e
  PROVE  LET s     == GetSettings(f, e)
             wrong == Validate(f.enabled, ReadPlugins(f, e))
         IN \/ s.how \in Raised
            \/ /\ Raising(Readings(f, ReadPlugins(f, e))) = {}
               /\ s.wrong = wrong
               /\ \/ s.how = "invalid" /\ wrong # NoComplaints
                  \/ s.how = "settings" /\ wrong = NoComplaints
<1>1. DOMAIN Readings(f, ReadPlugins(f, e)) \subseteq Nat
  BY DEF Readings
<1> QED BY <1>1, FirstRaises DEF GetSettings

(* What get_settings returns is validated.                                 *)
LEMMA Validated ==
  ASSUME NEW f, NEW e, GetSettings(f, e).how = "settings"
  PROVE  /\ GetSettings(f, e).level = "known"
         /\ ToSet(f.enabled) \subseteq Plugins
         /\ \A p \in ToSet(f.enabled) :
              /\ GetSettings(f, e).plugins[p].how = "settings"
              /\ Complaints(p, GetSettings(f, e).plugins[p]) = {}
<1> DEFINE results == ReadPlugins(f, e)
           steps == Readings(f, results)
<1>1. GetSettings(f, e).plugins = results /\ GetSettings(f, e).level = ReadLevel(f.logging)
  BY DEF GetSettings
<1>2. Raising(steps) = {} /\ Validate(f.enabled, results) = NoComplaints
  BY Outcomes DEF Raised
<1>3. \A i \in 1..8 : steps[i] \notin Raised
  <2>1. DOMAIN steps = 1..8
    BY DEF Readings
  <2> QED BY <1>2, <2>1 DEF Raising
<1>4. ReadEnabled(f) \notin Raised /\ ReadLogging(f.logging) \notin Raised
  <2>1. steps[2] = ReadEnabled(f) /\ steps[3] = ReadLogging(f.logging)
    BY DEF Readings
  <2> QED BY <1>3, <2>1
<1>5. \A p \in Plugins : results[p].how \notin Raised
  <2>1. /\ steps[4] = results["dingtalk"].how /\ steps[5] = results["jira"].how
        /\ steps[6] = results["log_search"].how /\ steps[7] = results["database"].how
        /\ steps[8] = results["remote_fs"].how
    BY DEF Readings
  <2> HIDE DEF steps, results
  <2> QED BY <1>3, <2>1 DEF Plugins
<1>6. ToSet(f.enabled) \subseteq Plugins
  BY <1>4 DEF ReadEnabled, Raised
<1>7. ReadLevel(f.logging) = "known"
  BY <1>4 DEF ReadLogging, Raised
<1>8. ASSUME NEW p \in ToSet(f.enabled)
      PROVE  results[p].how = "settings" /\ Complaints(p, results[p]) = {}
  <2>1. p \in Plugins
    BY <1>6
  <2>2. Complaints(p, results[p]) = {}
    BY <1>2, <2>1 DEF Validate, NoComplaints
  <2>3. results[p].how # "none"
    BY <2>2 DEF Complaints
  <2>4. results[p].how \in Raised \cup {"none", "settings"}
    BY <2>1, PluginOutcome DEF ReadPlugins
  <2> QED BY <1>5, <2>1, <2>2, <2>3, <2>4
<1> HIDE DEF results
<1> QED BY <1>1, <1>6, <1>7, <1>8

(* The constructors of the tools work with settings that are validated,    *)
(* but for a log directory that cannot be resolved.                        *)
LEMMA NothingRaises ==
  ASSUME NEW p \in Plugins, NEW result, result.how = "settings",
         Complaints(p, result) = {}
  PROVE  \/ Raises(p, result) = "settings"
         \/ /\ p = "log_search" /\ result.values["log_base_dir"] \in {"loop", "nul"}
            /\ Raises(p, result) = "traceback" => result.values["log_base_dir"] = "nul"
<1>1. ~Unsupported(p, result.values)
  BY DEF Complaints
<1>2. p = "jira" => /\ "base_url" \in KeyNames(p) /\ "api_token" \in KeyNames(p)
  <2>1. p = "jira" => Keys[p] = JiraKeys
    BY DEF Keys
  <2>2. JiraKeys[1] = <<"base_url", "text">> /\ JiraKeys[2] = <<"api_token", "text">>
    BY DEF JiraKeys
  <2>3. 1 \in DOMAIN JiraKeys /\ 2 \in DOMAIN JiraKeys
    BY DEF JiraKeys
  <2> QED BY <2>1, <2>2, <2>3 DEF KeyNames, ToSet
<1>3. ASSUME p = "jira"
      PROVE  result.values["base_url"] # "missing" /\ result.values["api_token"] # "missing"
  <2>1. result.values["base_url"] # "missing"
    BY <1>2, <1>3 DEF Complaints, Exempt
  <2>2. Exempt(p, result.values) = {}
    BY <1>3, <2>1 DEF Exempt
  <2> QED BY <1>2, <1>3, <2>1, <2>2 DEF Complaints
<1> QED BY <1>1, <1>3 DEF Raises

-----------------------------------------------------------------------------
(* The keys of a section, and what is read under them.                     *)
LEMMA KeyPlaces ==
  ASSUME NEW p \in Plugins, NEW k \in KeyNames(p)
  PROVE  \E i \in DOMAIN Keys[p] : Keys[p][i][1] = k
BY DEF KeyNames, ToSet

(* A plugin has settings when none of its readers raised.                  *)
LEMMA ValuesAreRead ==
  ASSUME NEW p \in Plugins, NEW values, NEW e, ReadMapping(p, values, e).how = "settings"
  PROVE  \A k \in KeyNames(p) :
           \E i \in DOMAIN Keys[p] :
             /\ Keys[p][i][1] = k
             /\ ReadMapping(p, values, e).values[k] = ReadKey(Keys[p][i], values, e)
             /\ ReadMapping(p, values, e).values[k] \notin Raised
<1> DEFINE read == [i \in DOMAIN Keys[p] |-> ReadKey(Keys[p][i], values, e)]
           place(k) == CHOOSE i \in DOMAIN Keys[p] : Keys[p][i][1] = k
<1>1. DOMAIN read \subseteq Nat
  BY DEF Plugins, Keys, DingtalkKeys, JiraKeys, LogSearchKeys, RemoteFsKeys, DatabaseKeys
<1>2. Raising(read) = {}
  <2> SUFFICES ASSUME Raising(read) # {} PROVE FALSE
    OBVIOUS
  <2>1. FirstRaised(read) \in Raised
    <3> HIDE DEF read
    <3> QED BY <1>1, FirstRaises
  <2>2. ReadMapping(p, values, e) = Result(FirstRaised(read), Nothing(p))
    BY DEF ReadMapping
  <2> QED BY <2>1, <2>2 DEF Result, Raised
<1>3. ReadMapping(p, values, e).values = [k \in KeyNames(p) |-> read[place(k)]]
  BY <1>2 DEF ReadMapping, Result
<1>4. ASSUME NEW k \in KeyNames(p)
      PROVE  /\ place(k) \in DOMAIN Keys[p] /\ Keys[p][place(k)][1] = k
             /\ ReadMapping(p, values, e).values[k] = ReadKey(Keys[p][place(k)], values, e)
             /\ ReadMapping(p, values, e).values[k] \notin Raised
  <2>1. place(k) \in DOMAIN Keys[p] /\ Keys[p][place(k)][1] = k
    BY KeyPlaces
  <2>2. ReadMapping(p, values, e).values[k] = read[place(k)]
    BY <1>3
  <2>3. read[place(k)] \notin Raised
    BY <1>2, <2>1 DEF Raising
  <2> QED BY <2>1, <2>2, <2>3
<1> QED BY <1>4

(* The settings of a plugin are read from a mapping.                       *)
LEMMA SettingsFromMapping ==
  ASSUME NEW p \in Plugins, NEW section, NEW enabled, NEW e,
         ReadPlugin(p, section, enabled, e).how = "settings"
  PROVE  \E values : /\ ReadPlugin(p, section, enabled, e) = ReadMapping(p, values, e)
                     /\ p = "remote_fs" => values = section.values
BY DEF ReadPlugin, Result, MayBeEmpty

(* Settings that nothing is wrong with have every value the tools use.     *)
LEMMA NothingNeededIsMissing ==
  ASSUME NEW p \in Plugins, NEW section, NEW enabled, NEW e,
         ReadPlugin(p, section, enabled, e).how = "settings",
         Complaints(p, ReadPlugin(p, section, enabled, e)) = {}
  PROVE  LET values == ReadPlugin(p, section, enabled, e).values
         IN /\ \A k \in Needs[p] : values[k] \notin Raised \cup {"missing"}
            /\ p = "database" /\ values["type"] = "sqlserver" => values["driver"] # "missing"
            /\ p = "remote_fs" => e = "there"
<1> DEFINE result == ReadPlugin(p, section, enabled, e)
<1>1. PICK values : /\ result = ReadMapping(p, values, e)
                    /\ p = "remote_fs" => values = section.values
  BY SettingsFromMapping
<1>2. \A k \in KeyNames(p) : result.values[k] \notin Raised
  <2>1. ReadMapping(p, values, e).how = "settings"
    BY <1>1
  <2> HIDE DEF result
  <2> QED BY <1>1, <2>1, ValuesAreRead
<1>3. \A k \in KeyNames(p) \ Exempt(p, result.values) : result.values[k] # "missing"
  <2> HIDE DEF result
  <2>1. result.how = "settings" /\ Complaints(p, result) = {}
    BY DEF result
  <2> QED BY <2>1 DEF Complaints
<1>4. Needs[p] \subseteq KeyNames(p)
  BY DEF Plugins, Needs, KeyNames, Keys, ToSet, DingtalkKeys, JiraKeys, LogSearchKeys,
         RemoteFsKeys, DatabaseKeys
<1>5. p = "database" => {"type", "driver"} \subseteq KeyNames(p)
  BY DEF KeyNames, Keys, ToSet, DatabaseKeys
<1>6. \A k \in Needs[p] : k \notin Exempt(p, result.values)
  <2> HIDE DEF result
  <2>1. p = "jira" => "base_url" \in KeyNames(p)
    BY <1>4 DEF Needs
  <2>2. p = "jira" => result.values["base_url"] # "missing"
    BY <1>3, <2>1 DEF Exempt
  <2>3. p = "database" => "driver" \notin Needs[p]
    BY DEF Needs
  <2> QED BY <2>2, <2>3 DEF Exempt
<1>7. p = "database" /\ result.values["type"] = "sqlserver" => result.values["driver"] # "missing"
  <2> HIDE DEF result
  <2> QED BY <1>3, <1>5 DEF Exempt
<1>8. ASSUME p = "remote_fs"
      PROVE  e = "there"
  <2>1. "roots" \in KeyNames(p)
    BY <1>4, <1>8 DEF Needs
  <2>2. result.values["roots"] \notin Raised \cup {"missing"}
    BY <1>2, <1>3, <1>6, <1>8, <2>1 DEF Needs
  <2>3. PICK i \in DOMAIN Keys[p] : result.values["roots"] = ReadKey(Keys[p][i], values, e)
    <3>1. ReadMapping(p, values, e).how = "settings"
      BY <1>1
    <3> HIDE DEF result
    <3> QED BY <1>1, <2>1, <3>1, ValuesAreRead
  <2>4. Keys[p][i] = <<"roots", "roots">>
    BY <1>8 DEF Keys, RemoteFsKeys
  <2>5. result.values["roots"] = ReadRoots(values["roots"], e)
    BY <2>3, <2>4 DEF ReadKey
  <2> QED BY <2>2, <2>5 DEF ReadRoots, Raised
<1> QED
  <2> HIDE DEF result
  <2>1. \A k \in Needs[p] : result.values[k] \notin Raised \cup {"missing"}
    BY <1>2, <1>3, <1>4, <1>6
  <2> QED BY <1>7, <1>8, <2>1 DEF result

(* Only remote_fs looks at the directories.                                *)
LEMMA OnlyRootsAreLookedUp ==
  ASSUME NEW p \in Plugins, p # "remote_fs", NEW values, NEW e, NEW d
  PROVE  ReadMapping(p, values, e) = ReadMapping(p, values, d)
<1>1. \A i \in DOMAIN Keys[p] : Keys[p][i][2] # "roots"
  BY DEF Plugins, Keys, DingtalkKeys, JiraKeys, LogSearchKeys, DatabaseKeys
<1>2. \A i \in DOMAIN Keys[p] : ReadKey(Keys[p][i], values, e) = ReadKey(Keys[p][i], values, d)
  BY <1>1 DEF ReadKey
<1>3. [i \in DOMAIN Keys[p] |-> ReadKey(Keys[p][i], values, e)]
        = [i \in DOMAIN Keys[p] |-> ReadKey(Keys[p][i], values, d)]
  BY <1>2
<1> QED BY <1>3 DEF ReadMapping

(* The sections of disabled plugins are not read.                          *)
LEMMA DisabledIsNotRead ==
  ASSUME NEW f, NEW g, SameEnabled(f, g), NEW e, NEW d,
         "remote_fs" \in ToSet(g.enabled) => e = d
  PROVE  GetSettings(f, e) = GetSettings(g, d)
<1>1. /\ f.kind = g.kind /\ f.plugins = g.plugins /\ f.enabled = g.enabled
      /\ f.logging = g.logging
  BY DEF SameEnabled
<1>2. ASSUME NEW p \in Plugins
      PROVE  ReadPlugin(p, f.sections[p], p \in ToSet(f.enabled), e)
               = ReadPlugin(p, g.sections[p], p \in ToSet(g.enabled), d)
  <2>1. CASE p \notin ToSet(f.enabled)
    BY <1>1, <2>1 DEF ReadPlugin
  <2>2. CASE p \in ToSet(f.enabled)
    <3>1. f.sections[p] = g.sections[p]
      BY <2>2 DEF SameEnabled
    <3>2. \A values : ReadMapping(p, values, e) = ReadMapping(p, values, d)
      BY <1>1, <2>2, OnlyRootsAreLookedUp
    <3> QED BY <1>1, <3>1, <3>2 DEF ReadPlugin
  <2> QED BY <2>1, <2>2
<1>3. ReadPlugins(f, e) = ReadPlugins(g, d)
  BY <1>2 DEF ReadPlugins
<1>4. ReadFile(f) = ReadFile(g) /\ ReadEnabled(f) = ReadEnabled(g)
  BY <1>1 DEF ReadFile, ReadEnabled
<1>5. Readings(f, ReadPlugins(f, e)) = Readings(g, ReadPlugins(g, d))
  BY <1>1, <1>3, <1>4 DEF Readings
<1>6. Validate(f.enabled, ReadPlugins(f, e)) = Validate(g.enabled, ReadPlugins(g, d))
  BY <1>1, <1>3
<1> QED BY <1>1, <1>3, <1>5, <1>6 DEF GetSettings

-----------------------------------------------------------------------------
Read(process) == GetSettings(process.load.file, process.load.roots)

ServerInv ==
  /\ server.at \in {"down", "registering", "running", "message", "traceback"}
  /\ server.at \in {"message", "traceback"} =>
       \/ server.settings.how # "settings" /\ server.todo = <<>> /\ server.tools = {}
       \/ LogDirRefused(server, {"loop", "nul"})
  /\ server.at \in {"registering", "running"} =>
       /\ server.settings.how = "settings"
       /\ server.todo \in Seq(STRING)
       /\ server.tools \cup ToSet(server.todo) = Enabled(server)
  /\ server.at = "running" => server.todo = <<>>
  /\ server.at # "down" =>
       server.load.file \in Files /\ server.settings = Read(server)

CheckInv ==
  /\ check.at = "probing" => check.settings.how = "settings"
  /\ check.at = "printing" => check.settings.how = "settings" \/ HasErrors(check.report)
  /\ check.at \in {"probing", "printing"} => check.settings = Read(check)

PassedInv == \A load \in passed : GetSettings(load.file, load.roots).how = "settings"

IInv == file \in Files /\ ServerInv /\ CheckInv /\ PassedInv

(* The initial states satisfy the invariant: nothing has been read.        *)
LEMMA InitInv == Init => IInv
BY DEF Init, IInv, ServerInv, CheckInv, PassedInv, ServerInit, CheckInit

(* A load of settings that are not there leaves an error in the report.    *)
LEMMA ErrorsAreReported ==
  ASSUME NEW f, NEW e, GetSettings(f, e).how \in {"message", "invalid"}
  PROVE  HasErrors(GroupConfigError(GetSettings(f, e)))
<1> DEFINE s == GetSettings(f, e)
<1>1. CASE s.how = "message"
  BY <1>1 DEF GroupConfigError, HasErrors, Line
<1>2. CASE s.how = "invalid"
  <2>1. s.wrong = Validate(f.enabled, ReadPlugins(f, e)) /\ s.wrong # NoComplaints
    BY <1>2, Outcomes DEF Raised
  <2>2. PICK p \in Plugins : s.wrong[p] # {}
    BY <2>1 DEF Validate, NoComplaints
  <2>3. Line(p, "error") \in GroupConfigError(s)
    BY <1>2, <2>2 DEF GroupConfigError
  <2> QED BY <2>3 DEF HasErrors, Line
<1> QED BY <1>1, <1>2

(* What is registered next, and what is left after it.                     *)
LEMMA HeadAndTail ==
  ASSUME NEW q \in Seq(STRING), q # <<>>
  PROVE  Tail(q) \in Seq(STRING) /\ ToSet(q) = {Head(q)} \cup ToSet(Tail(q))
<1>1. Tail(q) \in Seq(STRING) /\ Len(q) \in Nat /\ Len(q) >= 1 /\ Len(Tail(q)) = Len(q) - 1
  OBVIOUS
<1>2. \A i \in 1..Len(Tail(q)) : Tail(q)[i] = q[i + 1]
  OBVIOUS
<1>3. ToSet(q) = {q[i] : i \in 1..Len(q)} /\ ToSet(Tail(q)) = {Tail(q)[i] : i \in 1..Len(Tail(q))}
  <2>1. DOMAIN q = 1..Len(q) /\ DOMAIN Tail(q) = 1..Len(Tail(q))
    BY <1>1
  <2> QED BY <2>1 DEF ToSet
<1>4. Head(q) = q[1]
  OBVIOUS
<1>5. \A i \in 1..Len(q) : i = 1 \/ (i - 1 \in 1..Len(Tail(q)) /\ q[i] = Tail(q)[i - 1])
  BY <1>1, <1>2
<1>6. \A i \in 1..Len(Tail(q)) : i + 1 \in 1..Len(q)
  BY <1>1
<1>7. 1 \in 1..Len(q)
  BY <1>1
<1>8. ToSet(q) \subseteq {Head(q)} \cup ToSet(Tail(q))
  BY <1>3, <1>4, <1>5
<1>9. {Head(q)} \cup ToSet(Tail(q)) \subseteq ToSet(q)
  BY <1>2, <1>3, <1>4, <1>6, <1>7
<1> QED BY <1>1, <1>8, <1>9

-----------------------------------------------------------------------------
(* Every step preserves the invariant.                                     *)
LEMMA StepInv == IInv /\ [Next]_vars => IInv'
<1> SUFFICES ASSUME IInv, [Next]_vars PROVE IInv'
  OBVIOUS
<1> USE DEF IInv
<1>1. CASE CheckLoad
  <2> DEFINE s == GetSettings(file, roots)
  <2>1. check'.settings = s /\ check'.load = Load
    BY <1>1 DEF CheckLoad
  <2>2. check'.settings = Read(check)'
    BY <1>1, <2>1 DEF Read, Load
  <2>3. \/ s.how = "settings" /\ check'.at = "probing"
        \/ s.how = "traceback" /\ check'.at = "crashed"
        \/ /\ s.how \in {"message", "invalid"} /\ check'.at = "printing"
           /\ check'.report = GroupConfigError(s)
    <3> s.how \in {"settings", "traceback", "message", "invalid"}
      BY Outcomes DEF Raised
    <3> QED BY <1>1 DEF CheckLoad
  <2>4. CheckInv'
    <3> HIDE DEF s
    <3>1. s.how \in {"message", "invalid"} => HasErrors(GroupConfigError(s))
      BY ErrorsAreReported DEF s
    <3>2. HasErrors(check.report)' <=> HasErrors(check'.report)
      BY DEF HasErrors
    <3> QED BY <2>1, <2>2, <2>3, <3>1, <3>2 DEF CheckInv
  <2>5. ServerInv' /\ PassedInv' /\ file' \in Files
    BY <1>1 DEF CheckLoad, world, ServerInv, PassedInv, Read, Enabled
  <2> QED BY <2>4, <2>5
<1>2. CASE CheckPlugin
  <2>1. CheckInv'
    <3>1. /\ check'.settings = check.settings /\ check'.load = check.load
          /\ check'.at \in {"crashed", "probing"} /\ check.at = "probing"
      BY <1>2 DEF CheckPlugin, CheckInv
    <3> QED BY <3>1 DEF CheckInv, Read
  <2>2. ServerInv' /\ PassedInv' /\ file' \in Files
    BY <1>2 DEF CheckPlugin, world, ServerInv, PassedInv, Read, Enabled
  <2> QED BY <2>1, <2>2
<1>3. CASE CheckProbed
  <2>1. CheckInv'
    <3>1. /\ check'.settings = check.settings /\ check'.load = check.load
          /\ check'.at = "printing" /\ check.at = "probing"
      BY <1>3 DEF CheckProbed, CheckInv
    <3> QED BY <3>1 DEF CheckInv, Read
  <2>2. ServerInv' /\ PassedInv' /\ file' \in Files
    BY <1>3 DEF CheckProbed, world, ServerInv, PassedInv, Read, Enabled
  <2> QED BY <2>1, <2>2
<1>4. CASE CheckPrint
  <2>1. CheckInv'
    BY <1>4 DEF CheckPrint, CheckInit, CheckInv
  <2>2. PassedInv'
    <3>1. CASE HasErrors(check.report)
      BY <1>4, <3>1 DEF CheckPrint, PassedInv
    <3>2. CASE ~HasErrors(check.report)
      <4>1. check.settings.how = "settings" /\ check.settings = Read(check)
        BY <1>4, <3>2 DEF CheckPrint, CheckInv
      <4>2. passed' = {check.load}
        BY <1>4, <3>2 DEF CheckPrint
      <4> QED BY <4>1, <4>2 DEF PassedInv, Read
    <3> QED BY <3>1, <3>2
  <2>3. ServerInv' /\ file' \in Files
    BY <1>4 DEF CheckPrint, world, ServerInv, Read, Enabled
  <2> QED BY <2>1, <2>2, <2>3
<1>5. CASE CheckAgain
  <2>1. CheckInv'
    BY <1>5 DEF CheckAgain, CheckInit, CheckInv
  <2>2. ServerInv' /\ PassedInv' /\ file' \in Files
    BY <1>5 DEF CheckAgain, world, ServerInv, PassedInv, Read, Enabled
  <2> QED BY <2>1, <2>2
<1>6. ASSUME NEW args \in Arguments, ServerLoad(args)
      PROVE  IInv'
  <2> DEFINE s == GetSettings(file, roots)
  <2>1. /\ server'.settings = s /\ server'.load = Load /\ server'.tools = {}
        /\ server'.todo = IF s.how = "settings" THEN file.enabled ELSE <<>>
    BY <1>6 DEF ServerLoad
  <2>2. server'.settings = Read(server)' /\ server'.load.file \in Files
    BY <2>1 DEF Read, Load
  <2>3. \/ s.how = "settings" /\ server'.at = "registering"
        \/ s.how # "settings" /\ server'.at \in {"message", "traceback"}
    <3>1. s.how \in {"settings", "traceback", "message", "invalid"}
      BY Outcomes DEF Raised
    <3>2. s.how = "settings" => s.level = "known"
      BY Validated
    <3>3. server'.at = CASE s.how = "traceback" -> "traceback"
                         [] s.how \in {"message", "invalid"} -> "message"
                         [] s.how = "settings" ->
                              IF s.level = "known" THEN "registering" ELSE "traceback"
      BY <1>6 DEF ServerLoad
    <3> HIDE DEF s
    <3> QED BY <3>1, <3>2, <3>3
  <2>4. file.enabled \in Seq(STRING) /\ Enabled(server)' = ToSet(file.enabled)
    BY <2>1, FilesAssumption DEF Enabled, Load
  <2>5. ServerInv'
    <3> HIDE DEF s
    <3> QED BY <2>1, <2>2, <2>3, <2>4 DEF ServerInv
  <2>6. CheckInv' /\ PassedInv' /\ file' \in Files
    BY <1>6 DEF ServerLoad, world, CheckInv, PassedInv, Read, HasErrors
  <2> QED BY <2>5, <2>6
<1>7. CASE ServerRegister
  <2> DEFINE p == Head(server.todo)
  <2>1. /\ server.at = "registering" /\ server.todo \in Seq(STRING) /\ server.todo # <<>>
        /\ server.settings = Read(server) /\ server.settings.how = "settings"
        /\ server.tools \cup ToSet(server.todo) = ToSet(server.load.file.enabled)
    BY <1>7 DEF ServerRegister, ServerInv, Enabled
  <2>2. ToSet(server.todo) = {p} \cup ToSet(Tail(server.todo))
        /\ Tail(server.todo) \in Seq(STRING)
    BY <2>1, HeadAndTail
  <2>3. p \in ToSet(server.load.file.enabled)
    BY <2>1, <2>2
  <2>4. \/ Raises(p, server.settings.plugins[p]) = "settings"
        \/ /\ Raises(p, server.settings.plugins[p]) \in Raised
           /\ LogDirRefused(server, {"loop", "nul"})
    <3>1. /\ p \in Plugins /\ server.settings.plugins[p].how = "settings"
          /\ Complaints(p, server.settings.plugins[p]) = {}
      <4>1. Read(server).how = "settings"
        BY <2>1
      <4>2. GetSettings(server.load.file, server.load.roots).how = "settings"
        BY <4>1 DEF Read
      <4>3. /\ p \in Plugins
            /\ GetSettings(server.load.file, server.load.roots).plugins[p].how = "settings"
            /\ Complaints(p, GetSettings(server.load.file, server.load.roots).plugins[p]) = {}
        <5> HIDE DEF p
        <5> QED BY <2>3, <4>2, Validated
      <4> QED BY <2>1, <4>3 DEF Read
    <3> HIDE DEF p
    <3>2. Raises(p, server.settings.plugins[p]) \in Raised \cup {"settings"}
      BY DEF Raises, Raised
    <3> QED BY <2>1, <2>3, <3>1, <3>2, NothingRaises DEF LogDirRefused, Enabled
  <2>5. ASSUME Raises(p, server.settings.plugins[p]) = "settings"
        PROVE  ServerInv'
    <3>1. server' = [server EXCEPT !.todo = Tail(@), !.tools = @ \cup {p}]
      BY <1>7, <2>5 DEF ServerRegister, Raised
    <3>2. /\ server'.at = server.at /\ server'.load = server.load
          /\ server'.settings = server.settings
      BY <3>1
    <3>3. server'.tools \cup ToSet(server'.todo) = ToSet(server.load.file.enabled)
          /\ server'.todo \in Seq(STRING)
      BY <2>1, <2>2, <3>1
    <3> QED BY <2>1, <3>2, <3>3 DEF ServerInv, Read, Enabled
  <2>6. ASSUME Raises(p, server.settings.plugins[p]) \in Raised,
               LogDirRefused(server, {"loop", "nul"})
        PROVE  ServerInv'
    <3> DEFINE how == Raises(p, server.settings.plugins[p])
    <3>1. server' = Fail(how) /\ how \in Raised
      BY <1>7, <2>6 DEF ServerRegister
    <3> HIDE DEF how
    <3>2. /\ server'.at = how /\ server'.load = server.load
          /\ server'.settings = server.settings
      BY <3>1 DEF Fail
    <3> QED BY <2>1, <2>6, <3>1, <3>2 DEF ServerInv, Read, Enabled, LogDirRefused, Raised
  <2>8. ServerInv'
    BY <2>4, <2>5, <2>6
  <2>9. CheckInv' /\ PassedInv' /\ file' \in Files
    BY <1>7 DEF ServerRegister, world, CheckInv, PassedInv, Read, HasErrors
  <2> QED BY <2>8, <2>9
<1>8. CASE ServerRun
  <2>1. /\ server'.at = "running" /\ server'.load = server.load
        /\ server'.settings = server.settings /\ server'.tools = server.tools
        /\ server'.todo = server.todo /\ server.todo = <<>> /\ server.at = "registering"
    BY <1>8 DEF ServerRun, ServerInv
  <2>2. ServerInv'
    BY <2>1 DEF ServerInv, Read, Enabled
  <2>3. CheckInv' /\ PassedInv' /\ file' \in Files
    BY <1>8 DEF ServerRun, world, CheckInv, PassedInv, Read, HasErrors
  <2> QED BY <2>2, <2>3
<1>9. CASE ServerAgain
  <2>1. ServerInv'
    BY <1>9 DEF ServerAgain, ServerInit, ServerInv
  <2>2. CheckInv' /\ PassedInv' /\ file' \in Files
    BY <1>9 DEF ServerAgain, world, CheckInv, PassedInv, Read, HasErrors
  <2> QED BY <2>1, <2>2
<1>10. CASE EditFile \/ ChangeDirectories \/ UNCHANGED vars
  <2>1. file' \in Files
    BY <1>10, FilesAssumption DEF EditFile, ChangeDirectories, vars
  <2>2. UNCHANGED <<check, server, passed>>
    BY <1>10 DEF EditFile, ChangeDirectories, vars
  <2> QED BY <2>1, <2>2 DEF ServerInv, CheckInv, PassedInv, Read, Enabled, HasErrors
<1> QED BY <1>1, <1>2, <1>3, <1>4, <1>5, <1>6, <1>7, <1>8, <1>9, <1>10 DEF Next

(* The invariant holds in every reachable state.                           *)
THEOREM Invariance == Spec => []IInv
<1> QED BY InitInv, StepInv, PTL DEF Spec

(* A configuration that `make check` passed is not one that a start of the *)
(* server fails on, whatever the options: check.py 33-42 and server.py     *)
(* 170-190 agree for every file and every order of their steps, but for a  *)
(* log directory that cannot be resolved, at which no check looks.         *)
THEOREM CheckIsEnough == Spec => []PassedCheckStarts
<1>1. IInv => PassedCheckStarts
  BY DEF IInv, ServerInv, PassedInv, PassedCheckStarts, Read
<1> QED BY <1>1, Invariance, PTL

(* The constructors of the tools never meet settings they cannot work      *)
(* with, but for a log directory that cannot be resolved: any other start  *)
(* that fails does so before create_mcp (server.py 87-120).                *)
THEOREM ValidatedBeforeUse == Spec => []FailsBeforeRegistering
<1>1. IInv => FailsBeforeRegistering
  BY DEF IInv, ServerInv, FailsBeforeRegistering
<1> QED BY <1>1, Invariance, PTL

(* A running server offers exactly the enabled plugins, with every value   *)
(* that their tools use (config.py 159-496, server.py 87-120).             *)
THEOREM RunningHasWhatItNeeds == Spec => []RunningIsConfigured
<1>1. ASSUME ServerInv
      PROVE  RunningIsConfigured
  <2> SUFFICES ASSUME server.at = "running"
               PROVE  /\ server.tools = Enabled(server)
                      /\ "remote_fs" \in server.tools => server.load.roots = "there"
                      /\ \A p \in server.tools : \A k \in Needs[p] :
                           server.settings.plugins[p].values[k] \notin Raised \cup {"missing"}
                      /\ ("database" \in server.tools
                          /\ server.settings.plugins["database"].values["type"] = "sqlserver") =>
                         server.settings.plugins["database"].values["driver"] # "missing"
    BY DEF RunningIsConfigured
  <2>1. server.tools = Enabled(server)
    <3>1. server.tools \cup ToSet(server.todo) = Enabled(server) /\ server.todo = <<>>
      BY <1>1 DEF ServerInv
    <3>2. ToSet(<<>>) = {}
      BY DEF ToSet
    <3> QED BY <3>1, <3>2
  <2> DEFINE f == server.load.file
             e == server.load.roots
  <2>2. server.settings = GetSettings(f, e) /\ GetSettings(f, e).how = "settings"
    BY <1>1 DEF ServerInv, Read
  <2>3. ASSUME NEW p \in server.tools
        PROVE  /\ \A k \in Needs[p] :
                    server.settings.plugins[p].values[k] \notin Raised \cup {"missing"}
               /\ p = "database" /\ server.settings.plugins[p].values["type"] = "sqlserver" =>
                    server.settings.plugins[p].values["driver"] # "missing"
               /\ p = "remote_fs" => e = "there"
    <3>1. p \in ToSet(f.enabled)
      BY <2>1 DEF Enabled
    <3> HIDE DEF f, e
    <3>2. /\ p \in Plugins
          /\ GetSettings(f, e).plugins[p].how = "settings"
          /\ Complaints(p, GetSettings(f, e).plugins[p]) = {}
      BY <2>2, <3>1, Validated
    <3>3. GetSettings(f, e).plugins[p]
            = ReadPlugin(p, f.sections[p], p \in ToSet(f.enabled), e)
      BY <3>2 DEF GetSettings, ReadPlugins
    <3> QED BY <2>2, <3>2, <3>3, NothingNeededIsMissing
  <2> QED BY <2>1, <2>3
<1>2. IInv => RunningIsConfigured
  BY <1>1 DEF IInv
<1> QED BY <1>2, Invariance, PTL

(* README.md 51: what stands in the sections of disabled plugins makes no  *)
(* difference to what a start does, for every set of files.                *)
THEOREM DisabledMakesNoDifference == Spec => []DisabledIsIgnored
<1>1. ASSUME ServerInv
      PROVE  DisabledIsIgnored
  <2> SUFFICES ASSUME server.at \in {"registering", "message", "traceback"},
                      NEW g \in Files, SameEnabled(server.load.file, g),
                      NEW r \in (IF "remote_fs" \in ToSet(g.enabled)
                                 THEN {server.load.roots} ELSE RootStates)
               PROVE  GetSettings(g, r) = server.settings
    BY DEF DisabledIsIgnored
  <2>1. server.settings = GetSettings(server.load.file, server.load.roots)
    BY <1>1 DEF ServerInv, Read
  <2> QED BY <2>1, DisabledIsNotRead
<1>2. IInv => DisabledIsIgnored
  BY <1>1 DEF IInv
<1> QED BY <1>2, Invariance, PTL

-----------------------------------------------------------------------------
(* What the reports say, and how a start fails.                            *)

Modules(report) == {l.module : l \in report}

(* The report of a check has a line for each plugin that is done.          *)
ReportInv ==
  check.at \in {"probing", "printing"} =>
    \/ /\ check.settings.how = "settings"
       /\ check.todo \in Seq(STRING)
       /\ Modules(check.report) \cup ToSet(check.todo) = Enabled(check)
       /\ check.at = "printing" => check.todo = <<>>
    \/ /\ check.at = "printing" /\ check.settings.how \in {"message", "invalid"}
       /\ check.report = GroupConfigError(check.settings)

FailInv ==
  server.at = "traceback" =>
    server.settings.how = "traceback" \/ LogDirRefused(server, {"nul"})

LEMMA StepReportInv ==
  ASSUME IInv, ReportInv, [Next]_vars
  PROVE  ReportInv'
<1> USE DEF ReportInv
<1>1. CASE CheckLoad
  <2> DEFINE s == GetSettings(file, roots)
  <2>1. /\ check'.settings = s /\ check'.load = Load
        /\ check'.todo = IF s.how = "settings" THEN file.enabled ELSE <<>>
        /\ check'.report = IF s.how \in {"message", "invalid"} THEN GroupConfigError(s) ELSE {}
        /\ check'.at = CASE s.how = "settings"  -> "probing"
                         [] s.how = "traceback" -> "crashed"
                         [] OTHER               -> "printing"
    BY <1>1 DEF CheckLoad
  <2>2. s.how \in {"settings", "traceback", "message", "invalid"}
    BY Outcomes DEF Raised
  <2>3. file.enabled \in Seq(STRING) /\ Enabled(check)' = ToSet(file.enabled)
    BY <2>1, FilesAssumption DEF IInv, Enabled, Load
  <2> HIDE DEF s
  <2>4. CASE s.how = "settings"
    <3>1. Modules(check'.report) = {}
      BY <2>1, <2>4 DEF Modules
    <3> QED BY <2>1, <2>3, <2>4, <3>1 DEF Modules
  <2>5. CASE s.how = "traceback"
    BY <2>1, <2>5
  <2>6. CASE s.how \in {"message", "invalid"}
    <3>1. GroupConfigError(check.settings)' = GroupConfigError(s)
      BY <2>1 DEF GroupConfigError
    <3> QED BY <2>1, <2>6, <3>1
  <2> QED BY <2>2, <2>4, <2>5, <2>6
<1>2. CASE CheckPlugin
  <2>1. /\ check.at = "probing" /\ check.todo # <<>>
        /\ check.settings.how = "settings" /\ check.todo \in Seq(STRING)
        /\ Modules(check.report) \cup ToSet(check.todo) = Enabled(check)
    BY <1>2 DEF CheckPlugin
  <2>2. \/ check'.at = "crashed"
        \/ \E level : check' = [check EXCEPT !.todo = Tail(@),
                                             !.report = @ \cup {Line(Head(check.todo), level)}]
    <3>1. PICK probe \in Probes(Head(check.todo)) :
            LET p == Head(check.todo)
                settings == check.settings.plugins[p]
            IN check' = IF (settings.how = "none" /\ p # "database") \/ probe = "traceback"
                        THEN [check EXCEPT !.at = "crashed", !.todo = <<>>, !.report = {}]
                        ELSE [check EXCEPT !.todo = Tail(@), !.report = @ \cup
                               {Line(p, IF settings.how = "none" THEN "error" ELSE probe)}]
      BY <1>2 DEF CheckPlugin
    <3>2. CASE check' = [check EXCEPT !.at = "crashed", !.todo = <<>>, !.report = {}]
      BY <2>1, <3>2
    <3> QED BY <3>1, <3>2
  <2>3. ASSUME NEW level,
               check' = [check EXCEPT !.todo = Tail(@),
                                      !.report = @ \cup {Line(Head(check.todo), level)}]
        PROVE  ReportInv'
    <3>1. /\ check'.at = check.at /\ check'.settings = check.settings
          /\ check'.load = check.load
      BY <2>3
    <3>2. /\ check'.todo = Tail(check.todo)
          /\ check'.report = check.report \cup {Line(Head(check.todo), level)}
      BY <2>1, <2>3
    <3>3. Modules(check'.report) = Modules(check.report) \cup {Head(check.todo)}
      <4>1. Line(Head(check.todo), level).module = Head(check.todo)
        BY DEF Line
      <4> QED BY <3>2, <4>1 DEF Modules
    <3>4. /\ Tail(check.todo) \in Seq(STRING)
          /\ ToSet(check.todo) = {Head(check.todo)} \cup ToSet(Tail(check.todo))
      BY <2>1, HeadAndTail
    <3>5. Modules(check'.report) \cup ToSet(check'.todo) = Enabled(check)
      BY <2>1, <3>2, <3>3, <3>4
    <3>6. Enabled(check)' = Enabled(check)
      BY <3>1 DEF Enabled
    <3> QED BY <2>1, <3>1, <3>2, <3>4, <3>5, <3>6 DEF Modules
  <2> QED BY <2>2, <2>3
<1>3. CASE CheckProbed
  <2>1. /\ check.at = "probing" /\ check.todo = <<>>
        /\ check'.at = "printing" /\ check'.settings = check.settings
        /\ check'.load = check.load /\ check'.todo = check.todo
        /\ check'.report = check.report
    BY <1>3 DEF CheckProbed
  <2> QED BY <2>1 DEF Modules, Enabled
<1>4. CASE CheckPrint \/ CheckAgain
  BY <1>4 DEF CheckPrint, CheckAgain, CheckInit
<1>5. CASE UNCHANGED check
  BY <1>5 DEF Modules, Enabled, GroupConfigError
<1> QED
  BY <1>1, <1>2, <1>3, <1>4, <1>5 DEF Next, ServerLoad, ServerRegister, ServerRun, ServerAgain,
     EditFile, ChangeDirectories, vars

LEMMA StepFailInv ==
  ASSUME IInv, FailInv, [Next]_vars, IInv'
  PROVE  FailInv'
<1>1. ASSUME NEW args \in Arguments, ServerLoad(args)
      PROVE  FailInv'
  <2> DEFINE s == GetSettings(file, roots)
  <2>1. /\ server'.settings = s
        /\ server'.at = CASE s.how = "traceback" -> "traceback"
                          [] s.how \in {"message", "invalid"} -> "message"
                          [] s.how = "settings" ->
                               IF s.level = "known" THEN "registering" ELSE "traceback"
    BY <1>1 DEF ServerLoad
  <2>2. s.how \in {"settings", "traceback", "message", "invalid"}
    BY Outcomes DEF Raised
  <2>3. s.how = "settings" => s.level = "known"
    BY Validated
  <2> HIDE DEF s
  <2> QED BY <2>1, <2>2, <2>3 DEF FailInv
<1>2. CASE ServerRegister
  <2> DEFINE p == Head(server.todo)
             how == Raises(p, server.settings.plugins[p])
  <2>1. /\ server.at = "registering" /\ server.settings.how = "settings"
        /\ server.todo \in Seq(STRING) /\ server.todo # <<>> /\ server.settings = Read(server)
        /\ server.tools \cup ToSet(server.todo) = ToSet(server.load.file.enabled)
    BY <1>2 DEF ServerRegister, IInv, ServerInv, Enabled
  <2>2. \/ how \in Raised /\ server' = Fail(how)
        \/ server' = [server EXCEPT !.todo = Tail(@), !.tools = @ \cup {p}]
    BY <1>2 DEF ServerRegister
  <2>3. p \in ToSet(server.load.file.enabled)
    BY <2>1, HeadAndTail
  <2>4. /\ p \in Plugins /\ server.settings.plugins[p].how = "settings"
        /\ Complaints(p, server.settings.plugins[p]) = {}
    <3> HIDE DEF p
    <3> QED BY <2>1, <2>3, Validated DEF Read
  <2>5. CASE how \in Raised /\ server' = Fail(how)
    <3>1. how = "traceback" => LogDirRefused(server, {"nul"})
      <4> HIDE DEF p
      <4> QED BY <2>1, <2>3, <2>4, NothingRaises DEF LogDirRefused, Enabled
    <3> HIDE DEF how
    <3>2. /\ server'.at = how /\ server'.load = server.load
          /\ server'.settings = server.settings
      BY <2>5 DEF Fail
    <3> QED BY <3>1, <3>2 DEF FailInv, LogDirRefused, Enabled
  <2>6. CASE server' = [server EXCEPT !.todo = Tail(@), !.tools = @ \cup {p}]
    <3>1. server'.at = server.at
      BY <2>6
    <3> QED BY <2>1, <3>1 DEF FailInv
  <2> QED BY <2>2, <2>5, <2>6
<1>3. CASE ServerRun \/ ServerAgain
  <2>1. CASE ServerRun
    <3>1. server'.at = "running"
      BY <2>1 DEF ServerRun, IInv, ServerInv
    <3> QED BY <3>1 DEF FailInv
  <2>2. CASE ServerAgain
    <3>1. server'.at = "down"
      BY <2>2 DEF ServerAgain, ServerInit
    <3> QED BY <3>1 DEF FailInv
  <2> QED BY <1>3, <2>1, <2>2
<1>4. CASE UNCHANGED server
  BY <1>4 DEF FailInv, LogDirRefused, Enabled
<1> QED
  BY <1>1, <1>2, <1>3, <1>4 DEF Next, CheckLoad, CheckPlugin, CheckProbed, CheckPrint,
     CheckAgain, EditFile, ChangeDirectories, vars

(* The reports, and the failures of a start, follow from the settings.     *)
LEMMA ReportInvariance == Spec => [](IInv /\ ReportInv /\ FailInv)
<1>1. Init => ReportInv /\ FailInv
  BY DEF Init, ReportInv, FailInv, CheckInit, ServerInit
<1>2. IInv /\ ReportInv /\ FailInv /\ [Next]_vars => (IInv /\ ReportInv /\ FailInv)'
  BY StepInv, StepReportInv, StepFailInv
<1> QED BY <1>1, <1>2, InitInv, PTL DEF Spec

(* Nothing is wrong with a file that could not be read, or was found valid.*)
LEMMA WrongOnlyWhenInvalid ==
  ASSUME NEW f, NEW e
  PROVE  /\ GetSettings(f, e).how # "invalid" => GetSettings(f, e).wrong = NoComplaints
         /\ \A p \in Plugins : GetSettings(f, e).wrong[p] # {} => p \in ToSet(f.enabled)
<1> DEFINE wrong == Validate(f.enabled, ReadPlugins(f, e))
           raised == Raising(Readings(f, ReadPlugins(f, e))) # {}
<1>1. GetSettings(f, e).wrong = IF raised THEN NoComplaints ELSE wrong
  BY DEF GetSettings
<1>2. ~raised /\ wrong # NoComplaints => GetSettings(f, e).how = "invalid"
  BY DEF GetSettings
<1>3. \A p \in Plugins : wrong[p] # {} => p \in ToSet(f.enabled)
  BY DEF Validate
<1>4. \A p \in Plugins : NoComplaints[p] = {}
  BY DEF NoComplaints
<1> HIDE DEF wrong, raised
<1> QED BY <1>1, <1>2, <1>3, <1>4

(* The report of `make check` blames the right plugins and leaves none out *)
(* (check.py 33-110), for every set of files.                              *)
THEOREM ReportsAreRight == Spec => []ReportIsRight
<1>1. ASSUME IInv, ReportInv
      PROVE  ReportIsRight
  <2> SUFFICES ASSUME check.at = "printing"
               PROVE  /\ Modules(check.report) \subseteq Enabled(check) \cup {"config"}
                      /\ "config" \in Modules(check.report) <=> check.settings.how = "message"
                      /\ check.settings.how = "settings" =>
                           Modules(check.report) = Enabled(check)
                      /\ \A p \in Plugins :
                           check.settings.wrong[p] # {} => Line(p, "error") \in check.report
    BY DEF ReportIsRight, Modules
  <2> DEFINE f == check.load.file
             e == check.load.roots
  <2>1. check.settings = GetSettings(f, e)
    BY <1>1 DEF IInv, CheckInv, Read
  <2>2. /\ check.settings.how # "invalid" => check.settings.wrong = NoComplaints
        /\ \A p \in Plugins : check.settings.wrong[p] # {} => p \in Enabled(check)
    <3>1. Enabled(check) = ToSet(f.enabled)
      BY DEF Enabled
    <3> HIDE DEF f, e
    <3> QED BY <2>1, <3>1, WrongOnlyWhenInvalid
  <2>3. CASE check.settings.how = "settings"
    <3>1. Modules(check.report) = Enabled(check)
      <4>1. Modules(check.report) \cup ToSet(check.todo) = Enabled(check) /\ check.todo = <<>>
        BY <1>1, <2>3 DEF ReportInv
      <4>2. ToSet(<<>>) = {}
        BY DEF ToSet
      <4> QED BY <4>1, <4>2
    <3>2. Enabled(check) \subseteq Plugins
      <4>1. ToSet(f.enabled) \subseteq Plugins
        <5> HIDE DEF f, e
        <5> QED BY <2>1, <2>3, Validated
      <4> QED BY <4>1 DEF Enabled
    <3>3. "config" \notin Plugins
      BY DEF Plugins
    <3> QED BY <2>2, <2>3, <3>1, <3>2, <3>3 DEF NoComplaints
  <2>4. CASE check.settings.how = "message"
    <3>1. check.report = {Line("config", "error")}
      BY <1>1, <2>4 DEF ReportInv, GroupConfigError
    <3>2. Modules(check.report) = {"config"}
      BY <3>1 DEF Modules, Line
    <3> QED BY <2>2, <2>4, <3>2 DEF NoComplaints
  <2>5. CASE check.settings.how = "invalid"
    <3>1. check.report = {Line(p, "error") : p \in {q \in Plugins : check.settings.wrong[q] # {}}}
      BY <1>1, <2>5 DEF ReportInv, GroupConfigError
    <3>2. Modules(check.report) = {q \in Plugins : check.settings.wrong[q] # {}}
      <4>1. \A q : Line(q, "error").module = q
        BY DEF Line
      <4> QED BY <3>1, <4>1 DEF Modules
    <3>3. "config" \notin Plugins
      BY DEF Plugins
    <3> QED BY <2>2, <2>5, <3>1, <3>2, <3>3
  <2> QED BY <1>1, <2>3, <2>4, <2>5 DEF ReportInv
<1> QED BY <1>1, ReportInvariance, PTL

-----------------------------------------------------------------------------
(* Only an infinite number, and roots that may not be looked at, make the  *)
(* reader of a key raise something else than a message.                    *)
Escapes(p, section, enabled, e) ==
  /\ enabled /\ section.kind = "mapping"
  /\ \E k \in KeyNames(p) :
       \/ section.values[k] = "infinity"
       \/ p = "remote_fs" /\ e = "barred"

LEMMA OnlyInfinityEscapes ==
  ASSUME NEW p \in Plugins, NEW values, NEW e,
         \A k \in KeyNames(p) : values[k] \in Values,
         ReadMapping(p, values, e).how = "traceback"
  PROVE  \E k \in KeyNames(p) :
           \/ values[k] = "infinity"
           \/ p = "remote_fs" /\ values[k] = "list" /\ e = "barred"
<1> DEFINE read == [i \in DOMAIN Keys[p] |-> ReadKey(Keys[p][i], values, e)]
<1>1. Raising(read) # {} /\ FirstRaised(read) = "traceback"
  BY DEF ReadMapping, Result
<1>2. DOMAIN read \subseteq Nat
  BY DEF Plugins, Keys, DingtalkKeys, JiraKeys, LogSearchKeys, RemoteFsKeys, DatabaseKeys
<1>3. PICK i \in DOMAIN Keys[p] : ReadKey(Keys[p][i], values, e) = "traceback"
  <2>1. \E i \in DOMAIN read : read[i] = "traceback"
    <3> HIDE DEF read
    <3> QED BY <1>1, <1>2, FirstRaises
  <2> QED BY <2>1
<1>4. Keys[p][i][1] \in KeyNames(p)
  BY DEF KeyNames, ToSet
<1>5. values[Keys[p][i][1]] \in Values
  BY <1>4
<1>6. Keys[p][i][2] \in {"text", "int", "strings", "roots", "flag", "attachments", "driver"}
  BY DEF Plugins, Keys, DingtalkKeys, JiraKeys, LogSearchKeys, RemoteFsKeys, DatabaseKeys
<1>7. ReadKey(Keys[p][i], values, e) = "traceback" =>
        \/ values[Keys[p][i][1]] = "infinity"
        \/ p = "remote_fs" /\ values[Keys[p][i][1]] = "list" /\ e = "barred"
  <2> DEFINE v == values[Keys[p][i][1]]
  <2>1. v \in Values
    BY <1>5
  <2> HIDE DEF v
  <2>2. /\ ReadText(v) # "traceback"
        /\ ReadInt(v) = "traceback" => v = "infinity"
        /\ ReadStringList(v) # "traceback"
        /\ ReadRoots(v, e) = "traceback" => v = "list" /\ e = "barred"
        /\ ReadFlag(v) # "traceback"
        /\ ReadAttachments(v) # "traceback"
        /\ ReadDriver(v, values["type"]) # "traceback"
    BY <2>1 DEF Values, ReadText, ReadInt, ReadStringList, ReadRoots, ReadFlag,
       ReadAttachments, ReadDriver, DefaultDriver
  <2>3. Keys[p][i][2] = "roots" => p = "remote_fs"
    BY DEF Plugins, Keys, DingtalkKeys, JiraKeys, LogSearchKeys, RemoteFsKeys, DatabaseKeys
  <2> QED BY <1>6, <2>2, <2>3 DEF ReadKey, v
<1> QED BY <1>3, <1>4, <1>7

LEMMA OnlyInfinityIsUncaught ==
  ASSUME NEW p \in Plugins, NEW section, NEW enabled \in BOOLEAN, NEW e,
         section.kind = "mapping" => \A k \in KeyNames(p) : section.values[k] \in Values,
         ReadPlugin(p, section, enabled, e).how = "traceback"
  PROVE  Escapes(p, section, enabled, e)
<1>1. ReadMapping(p, [k \in KeyNames(p) |-> "absent"], e).how # "traceback"
  <2> DEFINE none == [k \in KeyNames(p) |-> "absent"]
  <2>1. \A k \in KeyNames(p) : none[k] \in Values /\ none[k] \notin {"infinity", "list"}
    BY DEF Values
  <2> HIDE DEF none
  <2>2. ReadMapping(p, none, e).how # "traceback"
    BY <2>1, OnlyInfinityEscapes
  <2> QED BY <2>2 DEF none
<1>2. enabled /\ section.kind = "mapping" /\ ReadMapping(p, section.values, e).how = "traceback"
  BY <1>1 DEF ReadPlugin, Result
<1>3. \E k \in KeyNames(p) :
        \/ section.values[k] = "infinity"
        \/ p = "remote_fs" /\ section.values[k] = "list" /\ e = "barred"
  BY <1>2, OnlyInfinityEscapes
<1> QED BY <1>2, <1>3 DEF Escapes

(* main turns whatever is wrong with the configuration into a message      *)
(* (server.py 170-190), but for a file that is not UTF-8 or has a scalar   *)
(* PyYAML cannot construct (config.py 126), a number that is not finite    *)
(* (config.py 318), roots the process may not look at (config.py 268) and  *)
(* a log directory with a null character (log_search/service.py 28), for   *)
(* every set of files.                                                     *)
THEOREM FailuresAreMessages == Spec => []FailureIsMessage
<1>1. ASSUME IInv, FailInv
      PROVE  FailureIsMessage
  <2> SUFFICES ASSUME server.at = "traceback"
               PROVE  \/ server.load.file.kind \in Uncaught
                      \/ HasInfinity(server.load.file)
                      \/ RootsBarred(server.load)
                      \/ LogDirRefused(server, {"nul"})
    BY DEF FailureIsMessage
  <2>7. CASE LogDirRefused(server, {"nul"})
    BY <2>7
  <2>8. CASE ~LogDirRefused(server, {"nul"})
    <3> DEFINE f == server.load.file
               e == server.load.roots
               steps == Readings(f, ReadPlugins(f, e))
    <3>1. GetSettings(f, e).how = "traceback" /\ f \in Files
      BY <1>1, <2>8 DEF FailInv, IInv, ServerInv, Read
    <3>2. PICK i \in DOMAIN steps : steps[i] = "traceback"
      <4>1. Raising(steps) # {} /\ FirstRaised(steps) = "traceback"
        BY <3>1 DEF GetSettings
      <4>2. DOMAIN steps \subseteq Nat
        BY DEF Readings
      <4> HIDE DEF steps
      <4> QED BY <4>1, <4>2, FirstRaises
    <3>3. i \in 1..8
      BY DEF Readings
    <3>4. CASE i = 1
      <4>1. ReadFile(f) = "traceback"
        BY <3>2, <3>4 DEF Readings
      <4> QED BY <4>1 DEF ReadFile, Uncaught
    <3>5. i \notin {2, 3}
      <4>1. ReadEnabled(f) # "traceback" /\ ReadLogging(f.logging) # "traceback"
        BY DEF ReadEnabled, ReadLogging
      <4> QED BY <3>2, <4>1 DEF Readings
    <3>6. CASE i \in 4..8
      <4>1. PICK p \in Plugins : ReadPlugins(f, e)[p].how = "traceback"
        <5> DEFINE results == ReadPlugins(f, e)
        <5>1. /\ steps[4] = results["dingtalk"].how /\ steps[5] = results["jira"].how
              /\ steps[6] = results["log_search"].how /\ steps[7] = results["database"].how
              /\ steps[8] = results["remote_fs"].how
          BY DEF Readings
        <5> HIDE DEF results, steps
        <5>2. \E p \in Plugins : results[p].how = "traceback"
          BY <3>2, <3>6, <5>1 DEF Plugins
        <5> QED BY <5>2 DEF results
      <4>2. ReadPlugin(p, f.sections[p], p \in ToSet(f.enabled), e).how = "traceback"
        BY <4>1 DEF ReadPlugins
      <4>3. f.sections[p].kind = "mapping" => \A k \in KeyNames(p) : f.sections[p].values[k] \in Values
        BY <3>1, FilesAssumption
      <4>4. /\ p \in ToSet(f.enabled) /\ f.sections[p].kind = "mapping"
            /\ \E k \in KeyNames(p) :
                 \/ f.sections[p].values[k] = "infinity"
                 \/ p = "remote_fs" /\ e = "barred"
        <5> DEFINE enabled == p \in ToSet(f.enabled)
                   section == f.sections[p]
        <5>1. enabled \in BOOLEAN
          OBVIOUS
        <5>2. ReadPlugin(p, section, enabled, e).how = "traceback"
          BY <4>2
        <5>3. section.kind = "mapping" => \A k \in KeyNames(p) : section.values[k] \in Values
          BY <4>3
        <5> HIDE DEF enabled, section, e
        <5>4. Escapes(p, section, enabled, e)
          BY <5>1, <5>2, <5>3, OnlyInfinityIsUncaught
        <5> QED BY <5>4 DEF Escapes, enabled, section
      <4> QED BY <4>4 DEF HasInfinity, RootsBarred
    <3> QED BY <3>3, <3>4, <3>5, <3>6
  <2> QED BY <2>7, <2>8
<1> QED BY <1>1, ReportInvariance, PTL

-----------------------------------------------------------------------------
(* Types.  What is left to probe are enabled plugins, which get_settings   *)
(* has found among the known ones.                                         *)
Loads == [file : Files, roots : RootStates]

CheckType ==
  /\ check.at \in {"idle", "probing", "printing", "crashed"}
  /\ check.report \subseteq [module : Plugins \cup {"config"}, level : {"ok", "error"}]
  /\ check.at \in {"probing", "printing"} => check.load \in Loads
  /\ check.at = "probing" => check.todo \in Seq(STRING) /\ ToSet(check.todo) \subseteq Plugins

ServerType ==
  /\ server.at \in {"down", "registering", "running", "message", "traceback"}
  /\ server.tools \subseteq Plugins
  /\ server.address.transport \in Transports

WorldType == file \in Files /\ roots \in RootStates /\ edits \in 0..MaxEdits

TypeInv == WorldType /\ CheckType /\ ServerType /\ passed \subseteq Loads

LEMMA LineType ==
  ASSUME NEW m \in Plugins \cup {"config"}, NEW l \in {"ok", "error"}
  PROVE  Line(m, l) \in [module : Plugins \cup {"config"}, level : {"ok", "error"}]
BY DEF Line

LEMMA InitTypes == Init => TypeInv
<1> SUFFICES ASSUME Init PROVE TypeInv
  OBVIOUS
<1>1. WorldType
  BY FilesAssumption DEF Init, WorldType
<1>2. CheckType
  BY DEF Init, CheckInit, CheckType
<1>3. ServerType
  BY DEF Init, ServerInit, ServerType, Unbound, Address, Transports
<1> QED BY <1>1, <1>2, <1>3 DEF Init, TypeInv

LEMMA CheckTypes ==
  ASSUME IInv, TypeInv, CheckLoad \/ CheckPlugin \/ CheckProbed \/ CheckPrint \/ CheckAgain
  PROVE  TypeInv'
<1>1. WorldType' /\ ServerType'
  BY DEF CheckLoad, CheckPlugin, CheckProbed, CheckPrint, CheckAgain, world, TypeInv, WorldType,
     ServerType
<1>2. CASE CheckLoad
  <2> DEFINE s == GetSettings(file, roots)
             todo == IF s.how = "settings" THEN file.enabled ELSE <<>>
             at == CASE s.how = "settings"  -> "probing"
                     [] s.how = "traceback" -> "crashed"
                     [] OTHER               -> "printing"
             report == IF s.how \in {"message", "invalid"} THEN GroupConfigError(s) ELSE {}
  <2>1. check' = [at |-> at, load |-> Load, settings |-> s, todo |-> todo, report |-> report]
        /\ passed' = passed
    BY <1>2 DEF CheckLoad
  <2>2. at \in {"probing", "crashed", "printing"} /\ (at = "probing" <=> s.how = "settings")
    <3> HIDE DEF s
    <3> QED OBVIOUS
  <2>3. s.how = "settings" => todo \in Seq(STRING) /\ ToSet(todo) \subseteq Plugins
    <3>1. s.how = "settings" => ToSet(file.enabled) \subseteq Plugins
      BY Validated
    <3>2. file.enabled \in Seq(STRING)
      BY FilesAssumption DEF TypeInv, WorldType
    <3> HIDE DEF s
    <3> QED BY <3>1, <3>2
  <2>4. report \subseteq [module : Plugins \cup {"config"}, level : {"ok", "error"}]
    <3> HIDE DEF s
    <3> QED BY LineType DEF GroupConfigError
  <2>5. Load \in Loads
    BY DEF Load, Loads, TypeInv, WorldType
  <2> HIDE DEF s, todo, at, report
  <2>6. /\ check'.at = at /\ check'.load = Load /\ check'.todo = todo /\ check'.report = report
    BY <2>1
  <2>7. CheckType'
    <3>1. check'.at \in {"idle", "probing", "printing", "crashed"}
      BY <2>2, <2>6
    <3>2. check'.at = "probing" => check'.todo \in Seq(STRING) /\ ToSet(check'.todo) \subseteq Plugins
      BY <2>2, <2>3, <2>6
    <3> QED BY <2>4, <2>5, <2>6, <3>1, <3>2 DEF CheckType, Loads
  <2> QED BY <1>1, <2>1, <2>7 DEF TypeInv, Loads
<1>3. CASE CheckPlugin
  <2> DEFINE p == Head(check.todo)
  <2>1. /\ check.at = "probing" /\ check.todo \in Seq(STRING) /\ check.todo # <<>>
        /\ ToSet(check.todo) \subseteq Plugins /\ check.load \in Loads
        /\ check.report \subseteq [module : Plugins \cup {"config"}, level : {"ok", "error"}]
    BY <1>3 DEF CheckPlugin, TypeInv, CheckType
  <2>2. /\ p \in Plugins /\ Tail(check.todo) \in Seq(STRING) /\ ToSet(Tail(check.todo)) \subseteq Plugins
    BY <2>1, HeadAndTail
  <2>3. PICK probe \in Probes(p) :
          check' = IF (check.settings.plugins[p].how = "none" /\ p # "database") \/ probe = "traceback"
                   THEN [check EXCEPT !.at = "crashed", !.todo = <<>>, !.report = {}]
                   ELSE [check EXCEPT !.todo = Tail(@), !.report = @ \cup
                          {Line(p, IF check.settings.plugins[p].how = "none" THEN "error" ELSE probe)}]
    BY <1>3 DEF CheckPlugin
  <2> HIDE DEF p
  <2>4. CASE check' = [check EXCEPT !.at = "crashed", !.todo = <<>>, !.report = {}]
    <3>1. check'.at = "crashed" /\ check'.report = {}
      BY <2>4
    <3> QED BY <1>1, <1>3, <3>1 DEF CheckPlugin, CheckType, TypeInv, Loads
  <2>5. ASSUME NEW l \in {"ok", "error"},
               check' = [check EXCEPT !.todo = Tail(@), !.report = @ \cup {Line(p, l)}]
        PROVE  TypeInv'
    <3>1. /\ check'.at = check.at /\ check'.load = check.load
          /\ check'.todo = Tail(check.todo) /\ check'.report = check.report \cup {Line(p, l)}
      BY <2>5
    <3>2. Line(p, l) \in [module : Plugins \cup {"config"}, level : {"ok", "error"}]
      BY <2>2, LineType
    <3>3. CheckType'
      BY <2>1, <2>2, <3>1, <3>2 DEF CheckType, Loads
    <3> QED BY <1>1, <1>3, <3>3 DEF CheckPlugin, TypeInv, Loads
  <2>6. probe \in {"ok", "error", "traceback"}
    BY DEF Probes
  <2> QED BY <2>3, <2>4, <2>5, <2>6
<1>4. CASE CheckProbed
  <2>1. /\ check'.at = "printing" /\ check'.load = check.load /\ check'.report = check.report
        /\ check.at = "probing" /\ passed' = passed
    BY <1>4 DEF CheckProbed
  <2> QED BY <1>1, <2>1 DEF TypeInv, CheckType, Loads
<1>5. CASE CheckPrint \/ CheckAgain
  <2>1. check'.at = "idle" /\ check'.report = {}
    BY <1>5 DEF CheckPrint, CheckAgain, CheckInit
  <2>2. passed' \subseteq Loads
    BY <1>5 DEF CheckPrint, CheckAgain, TypeInv, CheckType
  <2> QED BY <1>1, <2>1, <2>2 DEF TypeInv, CheckType, Loads
<1> QED BY <1>2, <1>3, <1>4, <1>5

LEMMA AddressType ==
  ASSUME NEW args \in Arguments
  PROVE  ApplyCliOverrides(args).transport \in Transports
<1>1. args.transport \in {"stdio", "streamable-http", "none"}
  BY DEF Arguments, Transports
<1>2. Chosen(args.transport).transport \in Transports
  BY <1>1 DEF Chosen, Unbound, Address, Transports
<1>3. \A a : Override(a, args).transport = a.transport
  BY DEF Override
<1>4. \A a : ClearStdio(a).transport \in {a.transport, "stdio"}
  BY DEF ClearStdio, Unbound, Address
<1> QED BY <1>2, <1>3, <1>4 DEF ApplyCliOverrides, Transports

LEMMA ServerTypes ==
  ASSUME IInv, TypeInv,
         (\E args \in Arguments : ServerLoad(args)) \/ ServerRegister \/ ServerRun \/ ServerAgain
  PROVE  TypeInv'
<1>1. WorldType' /\ CheckType' /\ passed' = passed
  BY DEF ServerLoad, ServerRegister, ServerRun, ServerAgain, world, TypeInv, WorldType, CheckType,
     Loads
<1>2. ASSUME NEW args \in Arguments, ServerLoad(args)
      PROVE  ServerType'
  <2> DEFINE s == GetSettings(file, roots)
             a == ApplyCliOverrides(args)
  <2>1. /\ server'.tools = {} /\ server'.address = a
        /\ server'.at = CASE s.how = "traceback" -> "traceback"
                          [] s.how \in {"message", "invalid"} -> "message"
                          [] s.how = "settings" ->
                               IF s.level = "known" THEN "registering" ELSE "traceback"
    BY <1>2 DEF ServerLoad
  <2>2. s.how \in {"settings", "traceback", "message", "invalid"}
    BY Outcomes DEF Raised
  <2>3. a.transport \in Transports
    BY AddressType
  <2> HIDE DEF s, a
  <2>4. server'.at \in {"registering", "message", "traceback"}
    BY <2>1, <2>2
  <2> QED BY <2>1, <2>3, <2>4 DEF ServerType
<1>3. CASE ServerRegister
  <2> DEFINE p == Head(server.todo)
  <2>1. /\ server.at = "registering" /\ server.todo \in Seq(STRING) /\ server.todo # <<>>
        /\ server.settings.how = "settings" /\ server.settings = Read(server)
        /\ server.tools \cup ToSet(server.todo) = ToSet(server.load.file.enabled)
    BY <1>3 DEF ServerRegister, IInv, ServerInv, Enabled
  <2>2. ToSet(server.load.file.enabled) \subseteq Plugins
    BY <2>1, Validated DEF Read
  <2>3. p \in Plugins
    BY <2>1, <2>2, HeadAndTail
  <2> HIDE DEF p
  <2>4. \/ \E how \in Raised : server' = [server EXCEPT !.at = how]
        \/ server' = [server EXCEPT !.todo = Tail(@), !.tools = @ \cup {p}]
    BY <1>3 DEF ServerRegister, Fail, p
  <2>5. ASSUME NEW how \in Raised, server' = [server EXCEPT !.at = how]
        PROVE  ServerType'
    <3>1. server'.at = how /\ server'.tools = server.tools /\ server'.address = server.address
      BY <2>5
    <3> QED BY <3>1 DEF TypeInv, ServerType, Raised
  <2>6. ASSUME server' = [server EXCEPT !.todo = Tail(@), !.tools = @ \cup {p}]
        PROVE  ServerType'
    <3>1. /\ server'.at = server.at /\ server'.tools = server.tools \cup {p}
          /\ server'.address = server.address
      BY <2>6
    <3> QED BY <2>3, <3>1 DEF TypeInv, ServerType
  <2> QED BY <1>1, <2>4, <2>5, <2>6 DEF TypeInv, Loads
<1>4. CASE ServerRun
  <2>1. server'.at = "running" /\ server'.tools = server.tools /\ server'.address = server.address
    BY <1>4 DEF ServerRun
  <2> QED BY <1>1, <2>1 DEF TypeInv, ServerType, Loads
<1>5. CASE ServerAgain
  <2>1. ServerType'
    BY <1>5 DEF ServerAgain, ServerInit, ServerType, Unbound, Address, Transports
  <2> QED BY <1>1, <2>1 DEF TypeInv, Loads
<1> QED BY <1>1, <1>2, <1>3, <1>4, <1>5 DEF TypeInv, Loads

LEMMA StepTypes == IInv /\ TypeInv /\ [Next]_vars => TypeInv'
<1> SUFFICES ASSUME IInv, TypeInv, [Next]_vars PROVE TypeInv'
  OBVIOUS
<1>1. CASE EditFile \/ ChangeDirectories
  <2>1. /\ UNCHANGED <<check, server, passed>> /\ file' \in Files /\ roots' \in RootStates
        /\ edits < MaxEdits /\ edits' = edits + 1
    BY <1>1, FilesAssumption DEF EditFile, ChangeDirectories, TypeInv, WorldType
  <2>2. WorldType'
    BY <2>1, FilesAssumption DEF TypeInv, WorldType
  <2> QED BY <2>1, <2>2 DEF TypeInv, CheckType, ServerType, Loads
<1>2. CASE UNCHANGED vars
  BY <1>2 DEF vars, TypeInv, WorldType, CheckType, ServerType, Loads
<1> QED BY <1>1, <1>2, CheckTypes, ServerTypes DEF Next

(* The variables stay in their ranges: a report has lines for plugins that *)
(* exist, and levels, whatever the file and its directories are            *)
(* (check.py 33-110, server.py 87-190).                                    *)
THEOREM TypeCorrect == Spec => []TypeOK
<1>1. TypeInv => TypeOK
  BY DEF TypeInv, WorldType, CheckType, ServerType, Loads, TypeOK
<1> QED BY <1>1, InitInv, InitTypes, StepInv, StepTypes, PTL DEF Spec

=============================================================================
