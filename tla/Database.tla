------------------------------- MODULE Database -------------------------------
(***************************************************************************)
(* Database (database/src/lib.rs) on the tables of                         *)
(* database/migrations/001_initial_schema.sql.  A call is one SQL          *)
(* statement or several with no transaction around them: the migration is  *)
(* a batch, and a configuration is saved one setting at a time.  A         *)
(* statement reads the clock, then waits for a connection; the tables may  *)
(* refuse it or it may fail, and the process may stop between any two.     *)
(***************************************************************************)
EXTENDS Integers, Sequences, FiniteSets, SequencesExt, TLC

CONSTANTS
  Callers,      \* tasks that use the database
  Posts, Words, Providers,  \* ids of posts, texts of keywords, names of LLM providers
  Subreddits,   \* the names the migration inserts
  Configs,      \* the AppConfigs saved: id, secret, polling, keys
  Settings,     \* the calls of save_setting: key, value
  Numbers,      \* the values of settings that parse as a number
  Empty,        \* the empty string
  None,         \* Option::None, and no row
  MaxTime,      \* bound: ticks
  MaxCalls,     \* bound: calls but for run_migrations
  MaxMigrations,  \* bound: calls of run_migrations
  MaxFaults     \* bound: failed statements and crashes

IdKey == "reddit_client_id"
SecretKey == "reddit_client_secret"
PollingKey == "polling_interval_minutes"
Keys == {IdKey, SecretKey, PollingKey}
DefaultPolling == 15

ASSUME DatabaseAssumption ==
  /\ \A s \in Settings : s.key \in Keys
  /\ \A config \in Configs : DOMAIN config.keys \subseteq Providers /\ config.polling \in Numbers
  /\ DefaultPolling \in Numbers
  /\ IsFiniteSet(Providers)
  /\ {MaxTime, MaxCalls, MaxMigrations, MaxFaults} \subseteq Nat

VARIABLES
  schema,       \* the tables there are
  posts,        \* table posts: the ids in it
  keywords,     \* table keywords: the rowid of each text
  settings,     \* table settings: a row for each key
  apiKeys,      \* table api_keys: a row for each provider
  userActions,  \* table user_actions
  subreddits,   \* table subreddits: last_fetched_at of each name
  lastId,       \* the last rowid of keywords and of user_actions: AUTOINCREMENT
  connected,    \* the pool is there
  caller,       \* where each task is
  now,          \* the clock
  spent,        \* how much of each bound is used up
  migrated,     \* history: a run_migrations returned Ok
  expected      \* history: <<key, value>> for each value a setting may have, from what
                \* its callers asked for and were told

tables == <<schema, posts, keywords, settings, apiKeys, userActions, subreddits, lastId>>
histories == <<migrated, expected>>
vars == <<tables, connected, caller, now, spent, histories>>

-----------------------------------------------------------------------------
(* Faulty variants of operators below.  Nothing uses them: each is a bug that *)
(* would be easy to write, and each makes the run report a violation.         *)

CreatedAnew(table, key, value, at) ==
  [k \in DOMAIN table \cup {key} |->
     IF k = key THEN [value |-> value, created |-> at] ELSE table[k]]

AnyPost(post) == TRUE

SecretNeedsId(config) ==
  IF config.id = None \/ config.secret = None
  THEN <<[kind |-> "setting", key |-> PollingKey, value |-> config.polling]>>
  ELSE <<[kind |-> "setting", key |-> IdKey, value |-> config.id],
         [kind |-> "setting", key |-> SecretKey, value |-> config.secret],
         [kind |-> "setting", key |-> PollingKey, value |-> config.polling]>>

-----------------------------------------------------------------------------
(* The statements of a call *)

\* 001_initial_schema.sql: a table and its indexes, or the rows it starts with
Migration ==
  <<"posts", "keywords", "api_keys", "settings", "user_actions", "subreddits",
    "reddit_api_stats", "seed settings", "seed subreddits">>

Migrate == [i \in DOMAIN Migration |-> [kind |-> "migrate", step |-> Migration[i]]]

SaveTo(key, value) == [kind |-> "setting", key |-> key, value |-> value]

\* save_config writes what is given, id first ...
SettingStatements(config) ==
  (IF config.id = None THEN <<>> ELSE <<SaveTo(IdKey, config.id)>>) \o
  (IF config.secret = None THEN <<>> ELSE <<SaveTo(SecretKey, config.secret)>>) \o
  <<SaveTo(PollingKey, config.polling)>>

\* ... and then the keys, in the order of a hash map.
KeyStatements(config) ==
  {[i \in DOMAIN order |-> [kind |-> "key", key |-> order[i], value |-> config.keys[order[i]]]] :
     order \in SetToSeqs(DOMAIN config.keys)}

\* What a caller means to have saved: history
Given(config) ==
  [k \in {PollingKey} \cup (IF config.id = None THEN {} ELSE {IdKey})
                      \cup (IF config.secret = None THEN {} ELSE {SecretKey}) |->
     CASE k = IdKey -> config.id [] k = SecretKey -> config.secret [] OTHER -> config.polling]

SeedValues == [k \in Keys |-> IF k = PollingKey THEN DefaultPolling ELSE Empty]

-----------------------------------------------------------------------------
At(c, stage) == caller[c].stage = stage

Idle == [stage |-> "idle", todo |-> <<>>, at |-> 0, gives |-> <<>>, met |-> {}]

Bounds == [calls |-> MaxCalls, migrations |-> MaxMigrations, faults |-> MaxFaults]

Spend(kind) == spent[kind] < Bounds[kind] /\ spent' = [spent EXCEPT ![kind] = @ + 1]

Init ==
  /\ schema = {}
  /\ posts = {} /\ userActions = {}
  /\ keywords = <<>> /\ settings = <<>> /\ apiKeys = <<>> /\ subreddits = <<>>
  /\ lastId = [keyword |-> 0, action |-> 0]
  /\ connected = FALSE
  /\ caller = [c \in Callers |-> Idle]
  /\ now = 0
  /\ spent = [calls |-> 0, migrations |-> 0, faults |-> 0]
  /\ migrated = FALSE
  /\ expected = Keys \X {None}

\* connect: from now on the file is there, with whatever it holds.
Connect ==
  /\ ~connected /\ connected' = TRUE
  /\ UNCHANGED <<tables, caller, now, spent, histories>>

\* The values that `gives` has for some of the keys
Pairs(gives, keys) == {<<k, gives[k]>> : k \in DOMAIN gives \cap keys}

\* A call begins; without a pool it is an error at once.  `gives` and `met` are
\* history: the values to be saved, and those that calls running at the same time
\* save to the same settings.  From now on the setting may have its old value or this.
Call(c, todo, gives) ==
  /\ At(c, "idle") /\ connected
  /\ Spend(IF todo = Migrate THEN "migrations" ELSE "calls")
  /\ caller' = [d \in Callers |->
                  IF d = c THEN [stage |-> "ready", todo |-> todo, at |-> 0, gives |-> gives,
                                 met |-> UNION {Pairs(caller[e].gives, DOMAIN gives) : e \in Callers}]
                  ELSE [caller[d] EXCEPT !.met = @ \cup Pairs(gives, DOMAIN caller[d].gives)]]
  /\ expected' = expected \cup Pairs(gives, Keys)
  /\ UNCHANGED <<tables, connected, now, migrated>>

\* A migration gives its seeds to the settings that may not be there yet.
Unset == {k \in Keys : <<k, None>> \in expected}

RunMigrations(c) == Call(c, Migrate, [k \in Unset |-> SeedValues[k]])
SavePost(c, post) == Call(c, <<[kind |-> "post", post |-> post]>>, <<>>)
SaveKeyword(c, text) == Call(c, <<[kind |-> "keyword", text |-> text]>>, <<>>)
SaveSetting(c, s) == Call(c, <<SaveTo(s.key, s.value)>>, [k \in {s.key} |-> s.value])
SaveConfig(c, config) ==
  \E keys \in KeyStatements(config) : Call(c, SettingStatements(config) \o keys, Given(config))
SaveApiKey(c, provider) ==
  Call(c, <<[kind |-> "key", key |-> provider, value |-> Empty]>>, <<>>)
RecordUserAction(c, post) == Call(c, <<[kind |-> "action", post |-> post]>>, <<>>)
UpdateSubredditFetchTime(c, name) == Call(c, <<[kind |-> "fetched", name |-> name]>>, <<>>)

Statement(c) == Head(caller[c].todo)

\* The clock is read, but for a migration, and the statement waits for a connection.
Send(c) ==
  /\ At(c, "ready")
  /\ caller' = [caller EXCEPT ![c].stage = "sent",
                             ![c].at = IF Statement(c).kind = "migrate" THEN 0 ELSE now]
  /\ UNCHANGED <<tables, connected, now, spent, histories>>

Sent(c, kind) == At(c, "sent") /\ Statement(c).kind = kind

AtLast(c) == Len(caller[c].todo) = 1

\* A statement went through: the next one, or Ok.  After Ok the settings have the
\* values given, or those of calls that ran at the same time.
Proceed(c) ==
  /\ caller' = [caller EXCEPT ![c] = IF AtLast(c) THEN Idle
                                     ELSE [caller[c] EXCEPT !.stage = "ready", !.at = 0,
                                                            !.todo = Tail(caller[c].todo)]]
  /\ expected' = IF AtLast(c)
                 THEN {p \in expected : p[1] \notin DOMAIN caller[c].gives}
                      \cup Pairs(caller[c].gives, Keys) \cup caller[c].met
                 ELSE expected

Exists(table) == table \in schema

\* settings.key is UNIQUE, and the seeds are plain INSERTs.
MaySeed == DOMAIN settings \cap Keys = {}

\* A table or a row that is there already ends the batch.
CanMigrate(step) ==
  CASE step = "seed settings"   -> Exists("settings") /\ MaySeed
    [] step = "seed subreddits" -> Exists("subreddits") /\ DOMAIN subreddits = {}
    [] OTHER                    -> ~Exists(step)

MigrateStep(c) ==
  /\ Sent(c, "migrate")
  /\ LET step == Statement(c).step IN
     /\ CanMigrate(step)
     /\ schema' = schema \cup ({step} \ {"seed settings", "seed subreddits"})
     /\ settings' = IF step = "seed settings"
                    THEN [k \in Keys |-> [value |-> SeedValues[k], created |-> now]]
                    ELSE settings
     /\ subreddits' = IF step = "seed subreddits"
                      THEN [name \in Subreddits |-> None] ELSE subreddits
  /\ migrated' = (migrated \/ AtLast(c))
  /\ Proceed(c)
  /\ UNCHANGED <<posts, keywords, apiKeys, userActions, lastId, connected, now, spent>>

\* INSERT OR REPLACE with the created_at of the row replaced
Replaced(table, key, value, at) ==
  [k \in DOMAIN table \cup {key} |->
     IF k = key
     THEN [value |-> value, created |-> IF key \in DOMAIN table THEN table[key].created ELSE at]
     ELSE table[k]]

ReplaceSetting(c) ==
  /\ Sent(c, "setting") /\ Exists("settings")
  /\ settings' = Replaced(settings, Statement(c).key, Statement(c).value, caller[c].at)
  /\ Proceed(c)
  /\ UNCHANGED <<schema, posts, keywords, apiKeys, userActions, subreddits, lastId,
                 connected, now, spent, migrated>>

ReplaceKey(c) ==
  /\ Sent(c, "key") /\ Exists("api_keys")
  /\ apiKeys' = Replaced(apiKeys, Statement(c).key, Statement(c).value, caller[c].at)
  /\ Proceed(c)
  /\ UNCHANGED <<schema, posts, keywords, settings, userActions, subreddits, lastId,
                 connected, now, spent, migrated>>

\* ON DELETE CASCADE: what goes when REPLACE deletes the row of a post
Cascade(post) == {a \in userActions : a.post # post}

ReplacePost(c) ==
  /\ Sent(c, "post") /\ Exists("posts")
  /\ posts' = posts \cup {Statement(c).post}
  /\ userActions' = Cascade(Statement(c).post)
  /\ Proceed(c)
  /\ UNCHANGED <<schema, keywords, settings, apiKeys, subreddits, lastId,
                 connected, now, spent, migrated>>

\* keywords.text is UNIQUE
CanInsert(text) == text \notin DOMAIN keywords

InsertKeyword(c) ==
  LET text == Statement(c).text
      id == lastId.keyword + 1
  IN
  /\ Sent(c, "keyword") /\ Exists("keywords") /\ CanInsert(text)
  /\ keywords' = [t \in DOMAIN keywords \cup {text} |-> IF t = text THEN id ELSE keywords[t]]
  /\ lastId' = [lastId EXCEPT !.keyword = id]
  /\ Proceed(c)
  /\ UNCHANGED <<schema, posts, settings, apiKeys, userActions, subreddits,
                 connected, now, spent, migrated>>

\* user_actions.post_id is a foreign key
CanAct(post) == post \in posts

InsertAction(c) ==
  /\ Sent(c, "action") /\ Exists("user_actions") /\ CanAct(Statement(c).post)
  /\ userActions' = userActions \cup
       {[id |-> lastId.action + 1, post |-> Statement(c).post, created |-> caller[c].at]}
  /\ lastId' = [lastId EXCEPT !.action = @ + 1]
  /\ Proceed(c)
  /\ UNCHANGED <<schema, posts, keywords, settings, apiKeys, subreddits,
                 connected, now, spent, migrated>>

\* A name that is not in the table is no error.
UpdateFetchTime(c) ==
  /\ Sent(c, "fetched") /\ Exists("subreddits")
  /\ subreddits' = [name \in DOMAIN subreddits |->
                      IF name = Statement(c).name THEN caller[c].at ELSE subreddits[name]]
  /\ Proceed(c)
  /\ UNCHANGED <<schema, posts, keywords, settings, apiKeys, userActions, lastId,
                 connected, now, spent, migrated>>

\* The call returns the error of a statement; the statements left are not made.
ReturnError(c) ==
  /\ caller' = [caller EXCEPT ![c] = Idle]
  /\ UNCHANGED <<tables, connected, now, histories>>

Refused(s) ==
  \/ s.kind = "migrate" /\ ~CanMigrate(s.step)
  \/ s.kind = "setting" /\ ~Exists("settings")
  \/ s.kind = "key" /\ ~Exists("api_keys")
  \/ s.kind = "post" /\ ~Exists("posts")
  \/ s.kind = "keyword" /\ ~(Exists("keywords") /\ CanInsert(s.text))
  \/ s.kind = "action" /\ ~(Exists("user_actions") /\ CanAct(s.post))
  \/ s.kind = "fetched" /\ ~Exists("subreddits")

Refuse(c) ==
  /\ At(c, "sent") /\ Refused(Statement(c))
  /\ ReturnError(c)
  /\ UNCHANGED spent

\* The disk is full, or the database stays locked.
Fail(c) ==
  /\ At(c, "sent")
  /\ Spend("faults")
  /\ ReturnError(c)

\* The file survives.
Crash ==
  /\ connected /\ connected' = FALSE
  /\ Spend("faults")
  /\ caller' = [c \in Callers |-> Idle]
  /\ UNCHANGED <<tables, now, histories>>

Tick ==
  /\ now < MaxTime /\ now' = now + 1
  /\ UNCHANGED <<tables, connected, caller, spent, histories>>

Step(c) ==
  \/ Send(c) \/ MigrateStep(c) \/ ReplaceSetting(c) \/ ReplaceKey(c) \/ ReplacePost(c)
  \/ InsertKeyword(c) \/ InsertAction(c) \/ UpdateFetchTime(c) \/ Refuse(c) \/ Fail(c)

Begin(c) ==
  \/ RunMigrations(c)
  \/ \E post \in Posts : SavePost(c, post) \/ RecordUserAction(c, post)
  \/ \E text \in Words : SaveKeyword(c, text)
  \/ \E s \in Settings : SaveSetting(c, s)
  \/ \E config \in Configs : SaveConfig(c, config)
  \/ \E provider \in Providers : SaveApiKey(c, provider)
  \/ \E name \in Subreddits : UpdateSubredditFetchTime(c, name)

Next ==
  \/ \E c \in Callers : Begin(c) \/ Step(c)
  \/ Connect \/ Crash \/ Tick

Spec == Init /\ [][Next]_vars
-----------------------------------------------------------------------------
(* Reading back *)

ValueOf(key) == IF key \in DOMAIN settings THEN settings[key].value ELSE None

\* What does not parse, or is not there, is the default.
Parsed(value) == IF value \in Numbers THEN value ELSE DefaultPolling

\* get_config; the keys are not read back.
GetConfig == [id |-> ValueOf(IdKey), secret |-> ValueOf(SecretKey), polling |-> Parsed(ValueOf(PollingKey))]

-----------------------------------------------------------------------------
(* Properties *)

Row(values) == [value : values, created : 0..MaxTime]

\* The tables hold what their constraints allow, a file that run_migrations said Ok of
\* is whole, and the tasks are where the code can be.
TypeOK ==
  /\ schema \subseteq Range(Migration)
  /\ posts \subseteq Posts
  /\ DOMAIN keywords \subseteq Words
  /\ DOMAIN settings \subseteq Keys /\ DOMAIN apiKeys \subseteq Providers
  /\ DOMAIN subreddits \subseteq Subreddits
  /\ \A a \in userActions : a.post \in posts /\ a.id \in 1..lastId.action /\ a.created <= now
  /\ \A a, b \in userActions : a.id = b.id => a = b
  /\ migrated => DOMAIN settings = Keys /\ DOMAIN subreddits = Subreddits
  /\ \A c \in Callers : caller[c].stage \in {"idle", "ready", "sent"} /\ (At(c, "idle") <=> caller[c] = Idle)

\* get_config reads back what was saved (251-292): of each setting the value of the
\* last save that returned Ok, or of one that ran at the same time as that or was
\* begun since, whether it is still running, returned an error, or was cut off by a
\* crash.  So an error in the middle of a configuration leaves no third value, and a
\* migration that is refused, as on every second start, or that comes between the
\* statements of a save, takes nothing back.
ConfigReadsBack ==
  /\ <<IdKey, GetConfig.id>> \in expected
  /\ <<SecretKey, GetConfig.secret>> \in expected
  /\ \E p \in expected : p[1] = PollingKey /\ GetConfig.polling = Parsed(p[2])

Wrote(c, kind) == Sent(c, kind) /\ caller'[c] # caller[c]

\* Whatever the order of the callers' statements, and whatever fails or stops between
\* them: a setting and a key keep the time they were created (199-206, 301-308); the
\* value of a setting changes by a save of it alone, so that no migration overwrites one
\* saved between the creation of the table and its seeds (001 130-136); a keyword keeps
\* the id that save_keyword returned (136-157); and an action of the user is lost only
\* with the row of its post, when that is replaced (82, 001 80).
RowsStay ==
  [][/\ \A k \in DOMAIN settings :
          /\ k \in DOMAIN settings' /\ settings'[k].created = settings[k].created
          /\ settings'[k] # settings[k] =>
               \E c \in Callers : Wrote(c, "setting") /\ Statement(c).key = k
     /\ \A p \in DOMAIN apiKeys : p \in DOMAIN apiKeys' /\ apiKeys'[p].created = apiKeys[p].created
     /\ \A t \in DOMAIN keywords : t \in DOMAIN keywords' /\ keywords'[t] = keywords[t]
     /\ \A a \in userActions \ userActions' :
          \E c \in Callers : Wrote(c, "post") /\ Statement(c).post = a.post]_vars
=============================================================================
