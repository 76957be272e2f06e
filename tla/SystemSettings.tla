--------------------------- MODULE SystemSettings ---------------------------
(***************************************************************************)
(* The SystemSetting table and the two things a server process builds from *)
(* it: the logger (services/logging.service.ts) and the OAuth strategies   *)
(* registered with passport (config/passport.ts).  The writers are the     *)
(* system routes of routes/admin.routes.ts.                                *)
(*                                                                         *)
(* A worker is an HTTP request that passed its validation, or one of the   *)
(* two loads a starting server does in the background.  A step is one      *)
(* awaited call with the code that follows it, but what a load read is     *)
(* used in a step of its own: answers of the database may overtake one     *)
(* another.                                                                *)
(***************************************************************************)
EXTENDS Naturals, Sequences, FiniteSets, SequencesExt

CONSTANTS Requests,     \* HTTP requests, each runs once
          LogKeys,      \* the keys of the logging settings, in the order they are saved
          LogValues,    \* their values
          Default,      \* the value of defaultSettings, for every key
          ProviderKeys, \* keys of the OAuth providers, in the order they are registered
          Configs,      \* complete and enabled provider settings
          MaxEntries,   \* bound on the keys of a settings PATCH
          Unset         \* no row, no strategy, no value

Off  == "off"          \* provider settings that are disabled or do not parse
Null == "null"         \* provider settings that parse to null
Bad  == "bad"          \* a value that is not a string

Loads     == {"loadLogger", "loadOAuth"}
Workers   == Requests \cup Loads
LogSet    == ToSet(LogKeys)
Providers == ToSet(ProviderKeys)
Keys      == LogSet \cup Providers

ValuesOf(k) == IF k \in LogSet THEN LogValues ELSE Configs \cup {Off, Null}
Values      == LogValues \cup Configs \cup {Off, Null}

ASSUME SettingsAssumptions ==
    /\ Requests \cap Loads = {}
    /\ LogKeys \in Seq(LogSet) /\ LogKeys # <<>> /\ MaxEntries \in Nat
    /\ ProviderKeys \in Seq(Providers)
    /\ LogSet \cap Providers = {} /\ Unset \notin Keys
    /\ Default \in LogValues
    /\ Unset \notin Values /\ Off \notin Configs /\ Null \notin Configs /\ Bad \notin Values

\* What a request was given: the keys a logging PATCH names, or the entries of
\* a settings PATCH in their order (nothing after one that is not a string is
\* looked at).  A PUT of a provider is a settings PATCH of one entry.
SettingEntry == (UNION {[key : {k}, value : ValuesOf(k)] : k \in Keys})
                \cup {[key |-> Unset, value |-> Bad]}
Patches == {s \in SeqOf(SettingEntry, MaxEntries) :
               /\ \A i, j \in DOMAIN s : s[i].key = s[j].key => i = j
               /\ \A i \in DOMAIN s : s[i].value = Bad => i = Len(s)}
Bodies  == [kind : {"logging"}, set : UNION {[K -> LogValues] : K \in SUBSET LogSet}]
           \cup [kind : {"settings"}, entries : Patches]

VARIABLES table,     \* SystemSetting rows
          live,      \* the settings currentLogger was built from
          strategy,  \* the settings each passport strategy was built from
          pc,        \* what each worker awaits, or how it ended
          body,      \* what a request was given, without the entries it has written
          snap,      \* what a worker has read, merged with what it was given
          at,        \* how many rows a logging PATCH has saved
          met,       \* history: workers that overlapped one of their own area
          blind,     \* history: workers whose read failed
          torn       \* history: areas no undisturbed worker has rebuilt since

processVars == <<live, strategy>>
workerVars  == <<pc, body, snap, at>>
historyVars == <<met, blind, torn>>
settingsVars == <<table, processVars, workerVars, historyVars>>

Running == {"readLog", "save", "buildLogger", "write", "readOAuth", "use"}
Ended   == {"done", "refused", "failed", "lost"}
Areas   == {"logger", "oauth"}

SettingsTypeOK ==
    /\ table \in [Keys -> Values \cup {Unset}]
    /\ live \in [LogSet -> LogValues]
    /\ strategy \in [Providers -> Configs \cup {Unset}]
    /\ pc \in [Workers -> {"new"} \cup Running \cup Ended]
    /\ body \in [Requests -> Bodies \cup {Unset}]
    /\ snap \in [Workers -> [LogSet -> LogValues]
                            \cup [Providers -> Configs \cup {Off, Null, Unset}] \cup {Unset}]
    /\ at \in [Requests -> Nat]
    /\ met \subseteq Workers /\ blind \subseteq Workers /\ torn \subseteq Areas

Defaults == [k \in LogSet |-> Default]

\* What the loads of a server that starts await.
FirstRead == [loadLogger |-> "readLog", loadOAuth |-> "readOAuth"]

\* The first server starts on an empty table.
SettingsInit ==
    /\ table = [k \in Keys |-> Unset]
    /\ live = Defaults
    /\ strategy = [p \in Providers |-> Unset]
    /\ pc = [w \in Workers |-> IF w \in Loads THEN FirstRead[w] ELSE "new"]
    /\ body = [r \in Requests |-> Unset]
    /\ snap = [w \in Workers |-> Unset]
    /\ at = [r \in Requests |-> 0]
    /\ met = {} /\ blind = {} /\ torn = {}

-----------------------------------------------------------------------------
Goto(w, next) == pc' = [pc EXCEPT ![w] = next]

\* The area a key belongs to, and those a request reads or writes.
KeyArea(k) == IF k \in LogSet THEN "logger" ELSE "oauth"
AreaOf(b)  == IF b.kind = "logging" THEN {"logger"}
              ELSE {"oauth"} \cup {KeyArea(b.entries[i].key) : i \in DOMAIN b.entries}

\* The workers at work in an area.
Busy(area) == {w \in Workers :
                  /\ pc[w] \in Running
                  /\ CASE w = "loadLogger" -> area = "logger"
                       [] w = "loadOAuth"  -> area = "oauth"
                       [] OTHER            -> area \in AreaOf(body[w])}

\* A worker ends: what it was given and has read is gone.
Leave(w, how) ==
    /\ Goto(w, how)
    /\ snap' = [snap EXCEPT ![w] = Unset]
    /\ body' = [r \in Requests |-> IF r = w THEN Unset ELSE body[r]]
    /\ at'   = [r \in Requests |-> IF r = w THEN 0 ELSE at[r]]

\* It has rebuilt its area: in order again if nothing disturbed it.
Rebuilt(w, area, good) ==
    torn' = IF good /\ w \notin met THEN torn \ {area} ELSE torn \cup {area}

\* Where a settings PATCH goes that has these entries left.
Writing(entries) == IF entries = <<>> THEN "readOAuth" ELSE "write"

\* PUT google-oauth and github-oauth refuse enabled settings that lack an id or
\* a secret; those and the values PATCH system/logging refuses do not start.
Start(r, b) ==
    /\ pc[r] = "new"
    /\ body' = [body EXCEPT ![r] = b]
    /\ Goto(r, IF b.kind = "logging" THEN "readLog" ELSE Writing(b.entries))
    /\ met' = LET others == UNION {Busy(area) : area \in AreaOf(b)}
              IN IF others = {} THEN met ELSE met \cup others \cup {r}
    /\ UNCHANGED <<table, processVars, snap, at, blind, torn>>

-----------------------------------------------------------------------------
(* The logger.                                                             *)

\* What getLoggingSettings returns: the rows over the defaults.
Effective == [k \in LogSet |-> IF table[k] = Unset THEN Default ELSE table[k]]

Merged(w, read) ==
    IF w \in Loads THEN read
    ELSE [k \in LogSet |-> IF k \in DOMAIN body[w].set THEN body[w].set[k] ELSE read[k]]

\* Mutant of ReadLog: a PATCH merges what it was given into the defaults.
ReadLogDefaults(w) ==
    /\ pc[w] = "readLog"
    /\ \/ /\ snap' = [snap EXCEPT ![w] = Merged(w, IF w \in Loads THEN Effective ELSE Defaults)]
          /\ UNCHANGED blind
       \/ /\ snap' = [snap EXCEPT ![w] = Merged(w, Defaults)]
          /\ blind' = blind \cup {w}
    /\ Goto(w, IF w \in Loads THEN "buildLogger" ELSE "save")
    /\ UNCHANGED <<table, processVars, body, at, met, torn>>

\* getLoggingSettings: a read that fails returns the defaults.
ReadLog(w) ==
    /\ pc[w] = "readLog"
    /\ \/ /\ snap' = [snap EXCEPT ![w] = Merged(w, Effective)]
          /\ UNCHANGED blind
       \/ /\ snap' = [snap EXCEPT ![w] = Merged(w, Defaults)]
          /\ blind' = blind \cup {w}
    /\ Goto(w, IF w \in Loads THEN "buildLogger" ELSE "save")
    /\ UNCHANGED <<table, processVars, body, at, met, torn>>

\* Mutant of SaveLog: the logger is built before the last row is written.
SaveLogEarly(r) ==
    LET k == LogKeys[at[r] + 1] IN
    /\ pc[r] = "save"
    /\ table' = [table EXCEPT ![k] = snap[r][k]]
    /\ IF at[r] + 2 >= Len(LogKeys)
       THEN Leave(r, "done") /\ live' = snap[r] /\ Rebuilt(r, "logger", TRUE)
       ELSE /\ at' = [at EXCEPT ![r] = @ + 1]
            /\ UNCHANGED <<pc, body, snap, live, torn>>
    /\ UNCHANGED <<strategy, met, blind>>

\* createLoggerWithSettings throws when the directory of a log file cannot be made, or
\* there are no destinations to look at; the defaults have one, and name no file.
MayThrow(settings) == settings # Defaults

\* saveLoggingSettings: every key is written; after the last one the logger is
\* built from what was saved.  A build that throws leaves the rows and the old logger.
SaveLog(r) ==
    LET k == LogKeys[at[r] + 1] IN
    /\ pc[r] = "save"
    /\ table' = [table EXCEPT ![k] = snap[r][k]]
    /\ IF at[r] + 1 = Len(LogKeys)
       THEN \/ Leave(r, "done") /\ live' = snap[r] /\ Rebuilt(r, "logger", TRUE)
          \/ /\ MayThrow(snap[r])
             /\ Leave(r, "failed") /\ Rebuilt(r, "logger", FALSE) /\ UNCHANGED live
       ELSE /\ at' = [at EXCEPT ![r] = @ + 1]
            /\ UNCHANGED <<pc, body, snap, live, torn>>
    /\ UNCHANGED <<strategy, met, blind>>

\* loadSettings, once its read has answered; it catches a build that throws.
BuildLogger ==
    /\ pc["loadLogger"] = "buildLogger"
    /\ \/ /\ live' = snap["loadLogger"]
          /\ Rebuilt("loadLogger", "logger", "loadLogger" \notin blind)
       \/ /\ MayThrow(snap["loadLogger"])
          /\ live' = Defaults
          /\ Rebuilt("loadLogger", "logger", FALSE)
    /\ Leave("loadLogger", "done")
    /\ UNCHANGED <<table, strategy, met, blind>>

-----------------------------------------------------------------------------
(* Settings and providers.                                                 *)

\* Mutant of WriteSetting: the reload is left to the next start of the server.
WriteSettingNoReload(r) ==
    LET e    == Head(body[r].entries)
        rest == Tail(body[r].entries)
    IN
    /\ pc[r] = "write"
    /\ IF e.value = Bad
       THEN Leave(r, "refused") /\ UNCHANGED <<table, torn>>
       ELSE /\ table' = [table EXCEPT ![e.key] = e.value]
            /\ IF rest = <<>>
               THEN Leave(r, "done") /\ UNCHANGED torn
               ELSE /\ torn' = torn \cup {KeyArea(e.key)}
                    /\ body' = [body EXCEPT ![r].entries = rest]
                    /\ UNCHANGED <<pc, snap, at>>
    /\ UNCHANGED <<processVars, met, blind>>

\* An entry that is not a string ends the PATCH; the rows before it stay
\* written.  After the last row the request is answered and reloads.
WriteSetting(r) ==
    LET e    == Head(body[r].entries)
        rest == Tail(body[r].entries)
    IN
    /\ pc[r] = "write"
    /\ IF e.value = Bad
       THEN Leave(r, "refused") /\ UNCHANGED <<table, torn>>
       ELSE /\ table' = [table EXCEPT ![e.key] = e.value]
            /\ torn' = torn \cup {KeyArea(e.key)}
            /\ body' = [body EXCEPT ![r].entries = rest]
            /\ Goto(r, Writing(rest))
            /\ UNCHANGED <<snap, at>>
    /\ UNCHANGED <<processVars, met, blind>>

\* getOAuthSettings: a read that fails returns both providers disabled.
ReadOAuth(w) ==
    /\ pc[w] = "readOAuth"
    /\ \/ /\ snap' = [snap EXCEPT ![w] = [p \in Providers |-> table[p]]]
          /\ UNCHANGED blind
       \/ /\ snap' = [snap EXCEPT ![w] = [p \in Providers |-> Off]]
          /\ blind' = blind \cup {w}
    /\ Goto(w, "use")
    /\ UNCHANGED <<table, processVars, body, at, met, torn>>

\* The providers with no null among the settings of those before them and their own.
Reached(settings) ==
    {ProviderKeys[i] : i \in {n \in DOMAIN ProviderKeys :
                                \A j \in 1 .. n : settings[ProviderKeys[j]] # Null}}

\* Mutant of UseStrategies: what was read is registered, enabled or not.
UseStrategiesAlways(w) ==
    /\ pc[w] = "use"
    /\ strategy' = snap[w]
    /\ Leave(w, "done")
    /\ Rebuilt(w, "oauth", w \notin blind)
    /\ UNCHANGED <<table, live, met, blind>>

\* initializeOAuthStrategies: passport.use for what is enabled, nothing for the rest;
\* settings that are null throw, and nothing after them is looked at.
UseStrategies(w) ==
    /\ pc[w] = "use"
    /\ strategy' = [p \in Providers |->
                      IF p \in Reached(snap[w]) /\ snap[w][p] \in Configs
                      THEN snap[w][p] ELSE strategy[p]]
    /\ Leave(w, "done")
    /\ Rebuilt(w, "oauth", w \notin blind)
    /\ UNCHANGED <<table, live, met, blind>>

-----------------------------------------------------------------------------
\* A write rejects: the handler answers 500 and reloads nothing.
Reject(r) ==
    /\ pc[r] \in {"save", "write"}
    /\ Leave(r, "failed")
    /\ torn' = IF pc[r] = "save" THEN torn \cup {"logger"} ELSE torn
    /\ UNCHANGED <<table, processVars, met, blind>>

\* The server dies, and another one starts with no memory but the table.
Restart ==
    /\ pc' = [w \in Workers |-> IF w \in Loads THEN FirstRead[w]
                               ELSE IF pc[w] \in Running THEN "lost" ELSE pc[w]]
    /\ \E r \in Requests : pc[r] \in Running
    /\ live' = Defaults
    /\ strategy' = [p \in Providers |-> Unset]
    /\ met' = {}
    /\ blind' = {}
    /\ torn' = {}
    /\ snap' = [w \in Workers |-> Unset]
    /\ body' = [r \in Requests |-> Unset]
    /\ at' = [r \in Requests |-> 0]
    /\ UNCHANGED table

-----------------------------------------------------------------------------
RequestStep(r) == SaveLog(r) \/ WriteSetting(r) \/ Reject(r)
LoadStep(w)    == ReadLog(w) \/ ReadOAuth(w) \/ UseStrategies(w)

SettingsNext ==
    \/ \E r \in Requests : RequestStep(r) \/ \E b \in Bodies : Start(r, b)
    \/ \E w \in Workers : LoadStep(w)
    \/ BuildLogger
    \/ Restart

SettingsSpec == SettingsInit /\ [][SettingsNext]_settingsVars

-----------------------------------------------------------------------------
(* Properties.                                                             *)

(* With no logging work under way, the logger in use was built from what    *)
(* the table holds, unless since the last undisturbed reload a settings     *)
(* PATCH wrote a logging row, a save was cut short, a load read nothing, a  *)
(* build threw, or two of them overlapped.                                  *)
LoggerCurrent ==
    Busy("logger") = {} /\ "logger" \notin torn => live = Effective

(* A logging PATCH changes the settings it was given and no other, unless   *)
(* another logging writer overlapped it or its read failed and it saved the *)
(* defaults.                                                                *)
PatchKeepsTheRest ==
    [][\A r \in Requests :
          pc[r] = "save" /\ r \notin met \cup blind =>
              \A k \in LogSet \ DOMAIN body[r].set : Effective'[k] = Effective[k]]_settingsVars

(* With no provider work under way, the strategy of every enabled provider  *)
(* has the stored id and secret, unless since the last undisturbed reload a *)
(* request wrote a provider row and ended before its reload, a reload read  *)
(* nothing, or two of them overlapped; and except for the providers that    *)
(* come after one whose row is null.                                        *)
StrategiesCurrent ==
    Busy("oauth") = {} /\ "oauth" \notin torn =>
        \A p \in Reached(table) : table[p] \in Configs => strategy[p] = table[p]

(* system-configuration.md says of a disabled provider that the change      *)
(* takes effect at once, without a restart: with no work under way and none *)
(* disturbed, no strategy is left of a provider that is not enabled.        *)
DisabledTakesEffect ==
    Busy("oauth") = {} /\ "oauth" \notin torn =>
        \A p \in Providers : table[p] \notin Configs => strategy[p] = Unset
=============================================================================
