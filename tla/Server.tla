------------------------------- MODULE Server -------------------------------
(***************************************************************************)
(* The server's life: main opens and migrates the database                 *)
(* (internal/db/db.go), seeds the bank, makes sure of the admin account    *)
(* and serves (cmd/server/main.go), until it crashes or is restarted; and  *)
(* what the admin's sessions (internal/auth/admin.go) let requests do to   *)
(* the bank and the queue of Moderation.tla.  Another process, run by cron *)
(* with -backup, opens and migrates the same database at any time.         *)
(*                                                                         *)
(* Whether a migration has been applied is asked before the transaction    *)
(* that applies and records it, one statement after the other, on a copy   *)
(* of its own (draft).  The first write of a transaction takes SQLite's    *)
(* write lock.  A migration that creates what is there already fails; one  *)
(* that only changes data may be applied any number of times.              *)
(*                                                                         *)
(* A session is a signature: it is valid as long as it has not expired and *)
(* the key that made it is the server's.  It is looked at once, before the *)
(* handler of a request begins.                                            *)
(*                                                                         *)
(* A definition X_Bug before a definition X is X with a mistake in it; the *)
(* properties must notice when it takes the place of X.                    *)
(***************************************************************************)
EXTENDS Moderation

CONSTANTS backup,
          Migrations,  \* number of migrations, in the order of their names
          Repeatable,  \* those whose statements do not fail when run again
          Passwords    \* passwords the admin sets; 1 is the bootstrap password

ASSUME ServerAssumption ==
  /\ backup \notin Jobs
  /\ Migrations \in Nat /\ Repeatable \subseteq 1 .. Migrations
  /\ Passwords \subseteq Nat \ {0, 1}

VARIABLES
  schema,    \* what is committed: how often each migration's statements have been
             \* applied, and the names in schema_migrations
  draft,     \* the copy of the process that is writing, else the same as schema
  step,      \* where main and the backup are, before main serves
  next,      \* the migration they are at
  password,  \* the admin's, 0 while there is no account
  session,   \* somebody has a valid session
  login,     \* requests that have read the password and not yet answered
  admitted   \* requests RequireAdmin has let through and that have not yet acted

processVars == <<schema, draft, step, next>>
adminVars == <<password, session, login, admitted>>
serverVars == <<vars, processVars, adminVars>>

Processes == {boot, backup}

All == 1 .. Migrations

Schemas == [applied : [All -> Nat], recorded : SUBSET All]

Steps == {"off", "checking", "begun", "executed", "recorded", "migrated", "ready"}

\* The state is the one of Moderation.tla and that of the two processes, of
\* which at most one is in the middle of writing a migration.
ServerTypeOK ==
  /\ TypeOK
  /\ schema \in Schemas /\ draft \in Schemas
  /\ step \in [Processes -> Steps] /\ next \in [Processes -> 1 .. Migrations + 1]
  /\ Cardinality({p \in Processes : step[p] \in {"executed", "recorded"}}) <= 1
  /\ password \in Passwords \cup {0, 1} /\ session \in BOOLEAN
  /\ login \subseteq Requests /\ admitted \subseteq Requests \ login
  /\ ~Down => step[boot] \in {"migrated", "ready"}

ServerInit ==
  /\ Init
  /\ schema = [applied |-> [m \in All |-> 0], recorded |-> {}] /\ draft = schema
  /\ step = [p \in Processes |-> "off"] /\ next = [p \in Processes |-> 1]
  /\ password = 0 /\ session = FALSE /\ login = {} /\ admitted = {}

-----------------------------------------------------------------------------
(* Migrating.                                                              *)

To(p, place) == step' = [step EXCEPT ![p] = place]

\* A process starts.  A backup of a migrated database only reads.
Launch(p) ==
  /\ step[p] = "off" /\ (p = backup => schema.recorded # All)
  /\ To(p, "checking") /\ next' = [next EXCEPT ![p] = 1]
  /\ UNCHANGED <<vars, schema, draft, adminVars>>

Advance(p) == next' = [next EXCEPT ![p] = @ + 1]

\* The next migration: none is left, it was recorded, or a transaction begins.
Check(p) ==
  /\ step[p] = "checking"
  /\ \/ next[p] > Migrations /\ To(p, "migrated") /\ UNCHANGED next
     \/ next[p] \in schema.recorded /\ Advance(p) /\ UNCHANGED step
     \/ next[p] \in All \ schema.recorded /\ To(p, "begun") /\ UNCHANGED next
  /\ UNCHANGED <<vars, schema, draft, adminVars>>

Writing(p) == step[p] \in {"executed", "recorded"}

\* The transaction starts from what is committed by the time it gets the lock,
\* which may be more than was there at the check.
Execute(p) ==
  /\ step[p] = "begun" /\ \A other \in Processes : ~Writing(other)
  /\ next[p] \in Repeatable \/ schema.applied[next[p]] = 0
  /\ draft' = [schema EXCEPT !.applied[next[p]] = @ + 1]
  /\ To(p, "executed")
  /\ UNCHANGED <<vars, schema, next, adminVars>>

\* The names in schema_migrations are its primary key.
Unrecorded_OrIgnored(m) == TRUE

Unrecorded(m) == m \notin draft.recorded

Record(p) ==
  /\ step[p] = "executed" /\ Unrecorded(next[p])
  /\ draft' = [draft EXCEPT !.recorded = @ \cup {next[p]}]
  /\ To(p, "recorded")
  /\ UNCHANGED <<vars, schema, next, adminVars>>

CommitMigration(p) ==
  /\ step[p] = "recorded" /\ schema' = draft
  /\ To(p, "checking") /\ Advance(p)
  /\ UNCHANGED <<vars, draft, adminVars>>

\* Any statement may fail, the database being busy or not, or the process be
\* killed; its transaction is rolled back and the process is gone.
Die(p) ==
  /\ \/ step[p] \in {"checking", "begun", "executed", "recorded"}
     \/ p = boot /\ Down /\ step[p] \in {"migrated", "ready"}
  /\ draft' = IF Writing(p) THEN schema ELSE draft
  /\ To(p, "off")
  /\ UNCHANGED <<vars, schema, next, adminVars>>

\* VACUUM INTO.
BackUp ==
  /\ step[backup] = "migrated" /\ To(backup, "off")
  /\ UNCHANGED <<vars, schema, draft, next, adminVars>>

-----------------------------------------------------------------------------
(* main, once the database is open.                                        *)

SeedBank ==
  /\ step[boot] = "migrated" /\ Seed
  /\ UNCHANGED <<processVars, adminVars>>

\* SESSION_SIGNING_KEY is the one of the last run, or a key for this run only.
LoadSigningKey == UNCHANGED session \/ session' = FALSE

\* Bootstrap fails, and is only logged, when there is no password to set.
Bootstrap ==
  \/ password = 0 /\ password' = 1
  \/ UNCHANGED password

Prepare ==
  /\ step[boot] = "migrated" /\ Seeded
  /\ LoadSigningKey /\ Bootstrap
  /\ To(boot, "ready")
  /\ UNCHANGED <<vars, schema, draft, next, login, admitted>>

StartServing ==
  /\ step[boot] = "ready" /\ Serve
  /\ UNCHANGED <<processVars, adminVars>>

\* A failed seed ends main as a crash does.
Stops == Crash \/ Rollback(boot)

Stop ==
  /\ Stops
  /\ To(boot, "off") /\ login' = {} /\ admitted' = {}
  /\ UNCHANGED <<schema, draft, next, password, session>>

-----------------------------------------------------------------------------
(* The admin.                                                              *)

Ready(r) == at[r] = "idle" /\ r \notin login \cup admitted

\* Login reads the password; comparing it takes its time.
BeginLogin_EvenWithout(r) ==
  /\ Ready(r) /\ Free
  /\ login' = login \cup {r}
  /\ UNCHANGED <<vars, processVars, password, session, admitted>>

BeginLogin(r) ==
  /\ Ready(r) /\ Free /\ password # 0
  /\ login' = login \cup {r}
  /\ UNCHANGED <<vars, processVars, password, session, admitted>>

\* The password read is the one typed, or not.
EndLogin(r) ==
  /\ r \in login /\ login' = login \ {r}
  /\ session' = TRUE \/ UNCHANGED session
  /\ UNCHANGED <<vars, processVars, password, admitted>>

\* twelve hours, or a logout
Expire ==
  /\ session /\ session' = FALSE
  /\ UNCHANGED <<vars, processVars, password, login, admitted>>

\* RequireAdmin looks at the cookie and calls the handler, which reads the body
\* first: by the time it acts the session may be over.
Admit(r) ==
  /\ Ready(r) /\ session
  /\ admitted' = admitted \cup {r}
  /\ UNCHANGED <<vars, processVars, password, session, login>>

Leaves(r) == r \in admitted /\ admitted' = admitted \ {r}

\* The new password is hashed before the UPDATE, which overwrites what another
\* request has set since, and does nothing when there is no account.
SetPassword(r) ==
  /\ Leaves(r) /\ Free
  /\ \E new \in Passwords : password' = IF password = 0 THEN 0 ELSE new
  /\ UNCHANGED <<vars, processVars, session, login>>

\* A bad request, one that only reads, or a statement that fails.
Refuse(r) ==
  /\ Leaves(r)
  /\ UNCHANGED <<vars, processVars, password, session, login>>

Act(r) ==
  /\ \/ r \notin login \cup admitted /\ PublicRequest(r) /\ UNCHANGED admitted
     \/ Leaves(r) /\ AdminRequest(r)
  /\ UNCHANGED <<processVars, password, session, login>>

Continue(job) ==
  /\ Proceed(job) /\ ~(job = boot /\ Rollback(job))
  /\ UNCHANGED <<processVars, adminVars>>

ServerNext ==
  \/ \E p \in Processes :
       Launch(p) \/ Check(p) \/ Execute(p) \/ Record(p) \/ CommitMigration(p) \/ Die(p)
  \/ BackUp \/ SeedBank \/ Prepare \/ StartServing \/ Stop
  \/ \E r \in Requests :
       BeginLogin(r) \/ EndLogin(r) \/ Admit(r) \/ SetPassword(r) \/ Refuse(r) \/ Act(r)
  \/ \E job \in Jobs : Continue(job)
  \/ Expire

ServerSpec == ServerInit /\ [][ServerNext]_serverVars

-----------------------------------------------------------------------------
\* What is recorded has been applied exactly once, and what is not recorded not at
\* all, although both processes may have found it missing (the check of migrate is
\* outside its transaction) and either may be killed between any two statements:
\* otherwise a later start would apply a migration again, or never.
SchemaMatchesRecord ==
  \A m \in All : schema.applied[m] = IF m \in schema.recorded THEN 1 ELSE 0

\* The server never starts to serve before the database is ready for it: with
\* all its migrations applied and a bank that is not empty, even when it crashed in the
\* middle of the first seeding or the admin has deleted everything.
ServesReady ==
  [][(\E r \in Requests : at[r] = "down" /\ at'[r] = "idle") =>
       (\A m \in All : schema.applied[m] = 1) /\ db'.bank # {}]_serverVars

\* As long as the account could not be made nobody is an admin: no session is given
\* out, and no request of an admin's is under way.
NoSessionWithoutAccount == password = 0 => ~session /\ admitted = {}
=============================================================================
