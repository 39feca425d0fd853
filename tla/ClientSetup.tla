----------------------------- MODULE ClientSetup -----------------------------
(***************************************************************************)
(* Maxwell's configuration file and qBittorrent's preferences.  Every      *)
(* command that builds a service first sets qBittorrent up by itself       *)
(* (defaultBuilder, tryAutoSetupQBit) when the configured local program    *)
(* does not answer; `torrents setup-qbittorrent` does it on demand,        *)
(* restarts the program and waits for its answer.  Both files are written  *)
(* by truncating them first.                                               *)
(***************************************************************************)
EXTENDS IniFile

CONSTANTS
  Documents,      \* what may be found in qBittorrent's preferences
  Texts,          \* what an operator may have written into the configuration
  Commands,       \* processes that run maxwell
  MaxCrashes      \* bound on commands that are killed

ASSUME SetupAssumption == MaxCrashes \in Nat
ASSUME DocumentAssumption == \A lines \in Documents : lines \in Seq(Range(lines))
ASSUME TextAssumption ==
  \A text \in Texts : /\ DOMAIN text \subseteq {"url", "password", "dsn", "path"}
                      /\ text \in [DOMAIN text -> Range(text)]

Empty == [field \in {} |-> ""]

VARIABLES
  file,      \* the configuration file: is it there, and the fields it has
  chosen,    \* the file as the operator last left it
  ini,       \* the lines of qBittorrent's preferences
  program,   \* qBittorrent: is it up, and the port it listens on
  pc,        \* what each command does next
  setup,     \* is it `torrents setup-qbittorrent`?
  cfg,       \* the configuration a command works on
  port,      \* the port it has set, or "none"
  doc,       \* the lines it is about to write
  updated,   \* has it changed the preferences (UpdatedINI)?
  opened,    \* the database of a service that is up
  crashes,   \* commands killed so far
  cut        \* was one killed while it was writing the configuration?
locals == <<setup, cfg, port, doc, updated, opened>>
vars == <<file, chosen, ini, program, pc, locals, crashes, cut>>

-----------------------------------------------------------------------------
(* Configurations.  Of the settings, "dsn" and "path" stand for those the  *)
(* setup has no business with.  A URL other than those of the two ports    *)
(* stands for every configuration the automatic setup leaves alone.        *)

Default == [url |-> "8080", password |-> "", dsn |-> "default", path |-> "default"]

(* yaml.Unmarshal onto the defaults.                                       *)
Load(text) ==
  [field \in DOMAIN Default |-> IF field \in DOMAIN text THEN text[field] ELSE Default[field]]

Valid(c) == c.dsn # "" \/ c.path # ""
EffectiveDSN(c) == IF c.dsn = "" THEN c.path ELSE c.dsn

Local(c) == c.url \in Ports
Reachable(c) == program.up /\ program.port = c.url

-----------------------------------------------------------------------------
Preference(key) == Get(ini, "Preferences", key)
IsPreference(key, value) == Has(ini, "Preferences", key) /\ Preference(key) = value

(* qBittorrent when it starts: it listens if its interface is enabled, on  *)
(* 8080 if it is not told otherwise.                                       *)
Running == [up |-> TRUE,
            port |-> IF IsPreference("Enabled", "true") THEN PortFor(ini) ELSE "none"]
Stopped == [up |-> FALSE, port |-> "none"]

Init ==
  /\ \E text \in Texts : file = [exists |-> TRUE, text |-> text]
  /\ chosen = file
  /\ ini \in Documents
  /\ program \in {Running, Stopped}
  /\ pc = [c \in Commands |-> "idle"]
  /\ setup = [c \in Commands |-> FALSE]
  /\ cfg = [c \in Commands |-> Default]
  /\ port = [c \in Commands |-> "none"]
  /\ doc = [c \in Commands |-> <<>>]
  /\ updated = [c \in Commands |-> FALSE]
  /\ opened = [c \in Commands |-> "none"]
  /\ crashes = 0 /\ cut = FALSE

GoTo(c, step) == pc' = [pc EXCEPT ![c] = step]

(* A command that gives up: the build goes on regardless, the setup ends.  *)
GiveUp(c) == GoTo(c, IF setup[c] THEN "error" ELSE "build")

(* defaultBuilder: the configuration decides whether there is anything to  *)
(* set up.                                                                 *)
BuildBegins(c) ==
  /\ pc[c] = "idle"
  /\ LET loaded == Load(file.text) IN
     /\ cfg' = [cfg EXCEPT ![c] = loaded]
     /\ GoTo(c, IF file.exists /\ Valid(loaded) /\ Local(loaded) THEN "probe" ELSE "build")
  /\ UNCHANGED <<file, chosen, ini, program, setup, port, doc, updated, opened, crashes, cut>>

(* checkQBitTCP, which may also run out of its 300 ms.                     *)
Probe(c) ==
  /\ pc[c] = "probe"
  /\ \/ Reachable(cfg[c]) /\ GoTo(c, "build")
     \/ GoTo(c, "readini")
  /\ UNCHANGED <<file, chosen, ini, program, locals, crashes, cut>>

(* cmdTorrentsSetupQBit: loadOrDefaultConfig, the defaults if there is no  *)
(* file.                                                                   *)
SetupBeginsWith(c, loaded) ==
  /\ pc[c] = "idle"
  /\ setup' = [setup EXCEPT ![c] = TRUE]
  /\ cfg' = [cfg EXCEPT ![c] = loaded]
  /\ GoTo(c, IF Valid(loaded) THEN "readini" ELSE "error")
  /\ UNCHANGED <<file, chosen, ini, program, port, doc, updated, opened, crashes, cut>>

(* Mutant: the setup starts from the defaults in any case.                 *)
SetupBeginsAfresh(c) == SetupBeginsWith(c, Default)
SetupBegins(c) == SetupBeginsWith(c, Load(file.text))

(* ensureQBitWebUI up to its write: the lines are read and edited.  What   *)
(* it returns goes into the configuration.                                 *)
ReadIniThen(c, unchanged) ==
  /\ pc[c] = "readini"
  /\ \E p \in {PortFor(ini)} \cup (IF setup[c] THEN Ports ELSE {}) :
       LET edit == EnableWebUI(ini, p) IN
       /\ port' = [port EXCEPT ![c] = p]
       /\ doc' = [doc EXCEPT ![c] = edit.lines]
       /\ updated' = [updated EXCEPT ![c] = edit.changed]
       /\ cfg' = [cfg EXCEPT ![c].url = p, ![c].password = ""]
       /\ GoTo(c, IF edit.changed THEN "cutini" ELSE unchanged)
  /\ UNCHANGED <<file, chosen, ini, program, setup, opened, crashes, cut>>

(* Mutant: the configuration is saved only if the preferences changed.     *)
ReadIniOrBuild(c) == ReadIniThen(c, IF setup[c] THEN "launch" ELSE "build")
ReadIni(c) == ReadIniThen(c, "cutconfig")

(* os.WriteFile: the file is emptied, then written.                        *)
CutIni(c) ==
  /\ pc[c] = "cutini"
  /\ ini' = <<>>
  /\ GoTo(c, "writeini")
  /\ UNCHANGED <<file, chosen, program, locals, crashes, cut>>

WriteIni(c) ==
  /\ pc[c] = "writeini"
  /\ ini' = doc[c]
  /\ GoTo(c, "cutconfig")
  /\ UNCHANGED <<file, chosen, program, locals, crashes, cut>>

CutConfig(c) ==
  /\ pc[c] = "cutconfig"
  /\ file' = [exists |-> TRUE, text |-> Empty]
  /\ GoTo(c, "writeconfig")
  /\ UNCHANGED <<chosen, ini, program, locals, crashes, cut>>

(* The program is restarted to read new preferences, else only started.    *)
WriteConfigThen(c, afterChange) ==
  /\ pc[c] = "writeconfig"
  /\ file' = [exists |-> TRUE, text |-> cfg[c]]
  /\ GoTo(c, IF ~ setup[c] THEN "build"
             ELSE IF updated[c] THEN afterChange ELSE "launch")
  /\ UNCHANGED <<chosen, ini, program, locals, crashes, cut>>

(* Mutant: the program is only started.                                    *)
WriteConfigLaunch(c) == WriteConfigThen(c, "launch")
WriteConfig(c) == WriteConfigThen(c, "stop")

(* A file that cannot be read or opened.                                   *)
Refused(c) ==
  /\ pc[c] \in {"readini", "cutini", "cutconfig"}
  /\ GiveUp(c)
  /\ port' = [port EXCEPT ![c] = "none"]
  /\ UNCHANGED <<file, chosen, ini, program, setup, cfg, doc, updated, opened, crashes, cut>>

(* restartQBitApp: whatever has "qbittorrent" in its command line is told  *)
(* to end, which on some systems includes the command that says so.        *)
Stop(c) ==
  /\ pc[c] = "stop"
  /\ program' = Stopped
  /\ \E next \in {"launch", "killed"} : GoTo(c, next)
  /\ UNCHANGED <<file, chosen, ini, locals, crashes, cut>>

(* startQBitApp: a program that is up already stays as it is.              *)
Launch(c) ==
  /\ pc[c] = "launch"
  /\ program' = IF program.up THEN program ELSE Running
  /\ GoTo(c, "wait")
  /\ UNCHANGED <<file, chosen, ini, locals, crashes, cut>>

(* waitForQBitAPI: when the time is up, the program is not reachable.      *)
WaitThen(c, otherwise) ==
  /\ pc[c] = "wait"
  /\ GoTo(c, IF Reachable(cfg[c]) THEN "ok" ELSE otherwise)
  /\ UNCHANGED <<file, chosen, ini, program, locals, crashes, cut>>

(* Mutant: the time is never up.                                           *)
WaitForEver(c) == WaitThen(c, "wait")
Wait(c) == WaitThen(c, "unreachable")

(* app.Build loads the configuration again.                                *)
Build(c) ==
  /\ pc[c] = "build"
  /\ IF file.exists /\ Valid(Load(file.text))
     THEN /\ opened' = [opened EXCEPT ![c] = EffectiveDSN(Load(file.text))]
          /\ GoTo(c, "up")
     ELSE GoTo(c, "error") /\ UNCHANGED opened
  /\ UNCHANGED <<file, chosen, ini, program, setup, cfg, port, doc, updated, crashes, cut>>

(* A process that has ended leaves nothing but the files.                  *)
Gone(c) ==
  /\ GoTo(c, "idle")
  /\ setup' = [setup EXCEPT ![c] = FALSE]
  /\ cfg' = [cfg EXCEPT ![c] = Default]
  /\ port' = [port EXCEPT ![c] = "none"]
  /\ doc' = [doc EXCEPT ![c] = <<>>]
  /\ updated' = [updated EXCEPT ![c] = FALSE]
  /\ opened' = [opened EXCEPT ![c] = "none"]
  /\ UNCHANGED <<file, chosen, ini, program>>

Ends(c) ==
  /\ pc[c] \in {"up", "ok", "unreachable", "error", "killed"}
  /\ Gone(c)
  /\ UNCHANGED <<crashes, cut>>

Crash(c) ==
  /\ pc[c] \notin {"idle", "up", "ok", "unreachable", "error", "killed"}
  /\ crashes < MaxCrashes
  /\ crashes' = crashes + 1
  /\ cut' = (cut \/ pc[c] = "writeconfig")
  /\ Gone(c)

(* The operator writes or removes the configuration, starts and quits the  *)
(* program; not while a command is working.                                *)
Quiet == \A c \in Commands : pc[c] \in {"idle", "up"}

OperatorEdits ==
  /\ \A c \in Commands : pc[c] = "idle"
  /\ file' \in {[exists |-> TRUE, text |-> text] : text \in Texts}
               \cup {[exists |-> FALSE, text |-> Empty]}
  /\ chosen' = file' /\ cut' = FALSE
  /\ UNCHANGED <<ini, program, pc, locals, crashes>>

ProgramStartsOrQuits ==
  /\ Quiet
  /\ program' = IF program.up THEN Stopped ELSE Running
  /\ UNCHANGED <<file, chosen, ini, pc, locals, crashes, cut>>

Write(c) ==
  \/ Probe(c) \/ ReadIni(c) \/ CutIni(c) \/ WriteIni(c) \/ CutConfig(c) \/ WriteConfig(c)
  \/ Refused(c)
Verify(c) == Stop(c) \/ Launch(c) \/ Wait(c)

Next ==
  \/ \E c \in Commands :
       \/ BuildBegins(c) \/ SetupBegins(c) \/ Write(c) \/ Verify(c) \/ Build(c)
       \/ Ends(c) \/ Crash(c)
  \/ OperatorEdits \/ ProgramStartsOrQuits

Spec == Init /\ [][Next]_vars

(* A setup that has written its files goes on: the calls it then makes     *)
(* return, and the wait has a limit.                                       *)
LiveSpec == Spec /\ \A c \in Commands : WF_vars(Verify(c))

-----------------------------------------------------------------------------
Steps == {"idle", "probe", "readini", "cutini", "writeini", "cutconfig", "writeconfig",
          "stop", "killed", "launch", "wait", "build", "up", "ok", "unreachable", "error"}

(* What the files may hold: the lines found and those the setup writes,     *)
(* the settings written by an operator, the defaults, and those of a setup. *)
Lines ==
  (UNION {Range(lines) : lines \in Documents})
  \cup {Blank, Header("Preferences")}
  \cup {Entry(key, Wanted(p)[key]) : key \in Settings, p \in Ports}
Values == (UNION {Range(text) : text \in Texts \cup {Default}}) \cup Ports \cup {""}
Configs == [DOMAIN Default -> Values]
ConfigFiles ==
  [exists : BOOLEAN, text : UNION {[fields -> Values] : fields \in SUBSET DOMAIN Default}]

(* Types of the variables.                                                 *)
TypeOK ==
  /\ file \in ConfigFiles /\ chosen \in ConfigFiles
  /\ ini \in Seq(Lines) /\ doc \in [Commands -> Seq(Lines)]
  /\ program \in [up : BOOLEAN, port : Ports \cup {"none"}]
  /\ pc \in [Commands -> Steps]
  /\ setup \in [Commands -> BOOLEAN] /\ updated \in [Commands -> BOOLEAN]
  /\ cfg \in [Commands -> Configs]
  /\ port \in [Commands -> Ports \cup {"none"}]
  /\ opened \in [Commands -> Values \cup {"none"}]
  /\ crashes \in 0 .. MaxCrashes /\ cut \in BOOLEAN

(* What the operator configured and the setup has no business with stays   *)
(* in effect, and is what a service opens, across any number of builds,    *)
(* setups and crashes: only a crash inside Save's own write can lose it.   *)
Kept(text) == <<Load(text).dsn, Load(text).path>>
SettingsKept ==
  ~ cut =>
    /\ (\A c \in Commands : pc[c] # "writeconfig") => Kept(file.text) = Kept(chosen.text)
    /\ \A c \in Commands : pc[c] = "up" => opened[c] = EffectiveDSN(Load(chosen.text))

(* A command that did its setup leaves the two files in step, although an  *)
(* earlier one may have been killed between any two of its writes: the     *)
(* preferences enable the port that the configuration names, without a     *)
(* password on either side (tryAutoSetupQBit, cmdTorrentsSetupQBit).       *)
FilesAgree ==
  \A c \in Commands :
    port[c] # "none" /\ pc[c] \in {"build", "up", "stop", "launch", "wait", "ok"} =>
      /\ \A key \in Settings : IsPreference(key, Wanted(port[c])[key])
      /\ Load(file.text).url = port[c] /\ Load(file.text).password = ""

(* A setup that changed the preferences does not end with a program that   *)
(* cannot be reached (UpdatedINI, restartQBitApp, waitForQBitAPI).         *)
ChangeTakesEffect ==
  \A c \in Commands : pc[c] = "unreachable" => ~ updated[c]

(* A setup that has written its files comes to an end, with an answer      *)
(* unless it is killed (waitForQBitAPI).                                   *)
SetupAnswers ==
  \A c \in Commands :
    pc[c] \in {"stop", "launch", "wait"}
      ~> pc[c] \in {"ok", "unreachable", "killed", "idle"}

(* The edit is exact, whatever the preferences look like (iniDoc.Set,      *)
(* iniDoc.Get, UpdatedINI).  As a map from section and key to value, they  *)
(* are written with the four settings and otherwise as they were read:     *)
(* also settings of the same names in other sections are as before.  Every *)
(* line that is not one of the four settings stays, in its place among the *)
(* others.  And preferences that say already what is wanted are not        *)
(* written, nor the program restarted for them, as in the second of two    *)
(* setups for one port.                                                    *)
ValuesOf(lines) ==
  [n \in {n \in {line.name : line \in {l \in Range(lines) : l.kind = "section"}}
                 \X {line.key : line \in {l \in Range(lines) : l.kind = "entry"}} :
            Has(lines, n[1], n[2])} |-> Get(lines, n[1], n[2])]
IsSetting(line) == line.kind = "entry" /\ line.key \in Settings

(* The old lines are found again further down in the same order, a setting *)
(* perhaps with another value; the rest are settings, and the header of a  *)
(* new section with a blank line, behind all old lines.                    *)
LinesKept(old, new) ==
  \E down \in [DOMAIN old -> 0 .. Len(new) - Len(old)] :
    /\ \A i, j \in DOMAIN old : i < j => down[i] <= down[j]
    /\ \A i \in DOMAIN old :
         \/ new[i + down[i]] = old[i]
         \/ IsSetting(old[i]) /\ IsEntry(new[i + down[i]], old[i].key)
    /\ \A n \in DOMAIN new \ {i + down[i] : i \in DOMAIN old} :
         \/ IsSetting(new[n])
         \/ /\ new[n] \in {Blank, Header("Preferences")}
            /\ \A i \in DOMAIN old : i + down[i] < n
EditIsExact ==
  \A c \in Commands : pc[c] = "cutini" =>
    /\ LET written == {"Preferences"} \X Settings
       IN ValuesOf(doc[c]) =
            [n \in written \cup DOMAIN ValuesOf(ini) |->
               IF n \in written THEN Wanted(port[c])[n[2]] ELSE ValuesOf(ini)[n]]
    /\ LinesKept(ini, doc[c])
    /\ doc[c] # ini
=============================================================================
