----------------------------- MODULE Moderation -----------------------------
(***************************************************************************)
(* The question bank and the queue of submissions                          *)
(* (internal/questionbank/store.go) under the requests that use them at    *)
(* the same time (internal/httpapi) and under crashes of the server.       *)
(*                                                                         *)
(* The pool has one connection (internal/db/db.go), so a transaction keeps *)
(* everybody else out: it works on a copy of the database, which a commit  *)
(* puts in place and a rollback or a crash throws away.  Between two       *)
(* statements outside a transaction anybody may get in.  Any statement may *)
(* fail.  A submission is an id and a status, a question an id and where   *)
(* it came from; updating a question's text changes neither.  Server.tla   *)
(* puts this module into the life of the server, and behind its sessions.  *)
(*                                                                         *)
(* A definition X_Bug before a definition X is X with a mistake in it; the *)
(* properties must notice when it takes the place of X.                    *)
(***************************************************************************)
EXTENDS Naturals, Sequences, FiniteSets

CONSTANTS Requests,        \* requests served at the same time
          boot,            \* main, which seeds the bank before it serves
          Lines,           \* questions of a seed, an import or a bulk submission
          MaxQuestions,    \* bound on the questions ever inserted
          MaxSubmissions,  \* bound on the submissions ever made
          MaxBatches       \* bound on the seeds and imports

Jobs == Requests \cup {boot}

Nobody == "nobody"

ASSUME ModerationAssumption ==
  /\ boot \notin Requests /\ Nobody \notin Jobs
  /\ Lines \in Nat \ {0}
  /\ MaxQuestions \in Nat /\ MaxSubmissions \in Nat /\ MaxBatches \in Nat

VARIABLES
  db,        \* what is committed: rows has every question ever inserted and where
             \* it came from, bank the ids still there, status the submissions
  tx,        \* the transaction's copy
  holder,    \* whose transaction it is, Nobody between transactions
  at,        \* where each request, and main, is
  subject,   \* the submission under review, or the batch being inserted
  left,      \* questions of the batch still to insert
  batches    \* batches begun so far

vars == <<db, tx, holder, at, subject, left, batches>>

Statuses == {"pending", "approved", "rejected"}

Places == {"down", "seeded", "idle", "checked", "approving", "marking",
           "inserting", "submitting", "committing"}

\* Only the holder of the connection is in a transaction.
TypeOK ==
  /\ \A d \in {db, tx} :
       /\ d.rows \in Seq([source : {"submission", "admin", "seed"}, of : Nat])
       /\ d.bank \subseteq DOMAIN d.rows
       /\ d.status \in Seq(Statuses)
  /\ holder \in Jobs \cup {Nobody}
  /\ \A job \in Jobs :
       /\ at[job] \in Places /\ left[job] \in 0 .. Lines /\ subject[job] \in Nat
       /\ at[job] \in {"approving", "marking", "inserting", "committing"}
            <=> holder = job
  /\ batches \in 0 .. MaxBatches

Empty == [rows |-> <<>>, bank |-> {}, status |-> <<>>]

Init ==
  /\ db = Empty /\ tx = Empty /\ holder = Nobody
  /\ at = [job \in Jobs |-> "down"]
  /\ subject = [job \in Jobs |-> 0] /\ left = [job \in Jobs |-> 0]
  /\ batches = 0

-----------------------------------------------------------------------------
(* The database.                                                           *)

Free == holder = Nobody

Inserted(d, source, of) ==
  [rows   |-> Append(d.rows, [source |-> source, of |-> of]),
   bank   |-> d.bank \cup {Len(d.rows) + 1},
   status |-> d.status]

Room(d) == Len(d.rows) < MaxQuestions

Goes(job, place) == at' = [at EXCEPT ![job] = place]

Begin(job, place) ==
  /\ Free /\ holder' = job /\ tx' = db
  /\ Goes(job, place)

Write_AtOnce(d) == tx' = d /\ db' = d

\* A statement in a transaction.
Write(d) == tx' = d /\ UNCHANGED db

Done(job) == IF job = boot THEN "seeded" ELSE "idle"

Failed(job) == IF job = boot THEN "down" ELSE "idle"

Commit_KeepsConnection(job) ==
  /\ at[job] = "committing"
  /\ db' = tx /\ UNCHANGED <<tx, holder>>
  /\ Goes(job, Done(job))
  /\ UNCHANGED <<subject, left, batches>>

Commit(job) ==
  /\ at[job] = "committing"
  /\ db' = tx /\ tx' = Empty /\ holder' = Nobody
  /\ Goes(job, Done(job))
  /\ UNCHANGED <<subject, left, batches>>

\* A statement of the transaction, or its commit, fails.  At boot that is fatal.
Rollback(job) ==
  /\ holder = job
  /\ tx' = Empty /\ holder' = Nobody /\ Goes(job, Failed(job))
  /\ UNCHANGED <<db, subject, left, batches>>

-----------------------------------------------------------------------------
(* The queue.                                                              *)

\* CreateSubmission, for one question or for the next of a bulk submission.
Queue ==
  /\ Free /\ Len(db.status) < MaxSubmissions
  /\ db' = [db EXCEPT !.status = Append(@, "pending")]
  /\ UNCHANGED <<tx, holder, subject, batches>>

Submit(r) == at[r] = "idle" /\ Queue /\ UNCHANGED <<at, left>>

\* handleSubmitBulk: one statement a question, and a failed one is passed over.
SubmitBulk(r) ==
  /\ at[r] = "idle" /\ Goes(r, "submitting")
  /\ left' = [left EXCEPT ![r] = Lines]
  /\ UNCHANGED <<db, tx, holder, subject, batches>>

Passed(r) ==
  /\ at[r] = "submitting"
  /\ left' = [left EXCEPT ![r] = @ - 1]
  /\ IF left[r] = 1 THEN Goes(r, "idle") ELSE UNCHANGED at

SubmitRow(r) == Passed(r) /\ Queue

SubmitRowFails(r) == Passed(r) /\ UNCHANGED <<db, tx, holder, subject, batches>>

MayApprove(s) == db.status[s] = "pending"

\* ApproveSubmission reads the submission ...
ReadForApproval(r, s) ==
  /\ at[r] = "idle" /\ Free /\ MayApprove(s)
  /\ Goes(r, "checked") /\ subject' = [subject EXCEPT ![r] = s]
  /\ UNCHANGED <<db, tx, holder, left, batches>>

\* ... begins a transaction, inserts the question and marks the submission.
BeginApproval(r) ==
  /\ at[r] = "checked" /\ Begin(r, "approving")
  /\ UNCHANGED <<db, subject, left, batches>>

\* Beginning the transaction fails.
ApprovalFails(r) ==
  /\ at[r] = "checked" /\ Goes(r, "idle")
  /\ UNCHANGED <<db, tx, holder, subject, left, batches>>

InsertApproved_Unchecked(r) ==
  /\ at[r] = "approving" /\ Room(tx)
  /\ Write(Inserted(tx, "submission", subject[r])) \/ UNCHANGED <<db, tx>>
  /\ Goes(r, "marking")
  /\ UNCHANGED <<holder, subject, left, batches>>

InsertApproved(r) ==
  /\ at[r] = "approving" /\ Room(tx)
  /\ Write(Inserted(tx, "submission", subject[r]))
  /\ Goes(r, "marking")
  /\ UNCHANGED <<holder, subject, left, batches>>

MarkApproved(r) ==
  /\ at[r] = "marking"
  /\ Write([tx EXCEPT !.status[subject[r]] = "approved"])
  /\ Goes(r, "committing")
  /\ UNCHANGED <<holder, subject, left, batches>>

MayReject_Reviewed(s) == db.status[s] # "rejected"

MayReject(s) == db.status[s] = "pending"

\* RejectSubmission is one conditional update.
Reject(r, s) ==
  /\ at[r] = "idle" /\ Free /\ MayReject(s)
  /\ db' = [db EXCEPT !.status[s] = "rejected"]
  /\ UNCHANGED <<tx, holder, at, subject, left, batches>>

-----------------------------------------------------------------------------
(* The bank.                                                               *)

Create(r) ==
  /\ at[r] = "idle" /\ Free /\ Room(db)
  /\ db' = Inserted(db, "admin", 0)
  /\ UNCHANGED <<tx, holder, at, subject, left, batches>>

\* Where foreign keys are enforced the question of an approved submission stays.
Delete(r, q) ==
  /\ at[r] = "idle" /\ Free
  /\ db' = [db EXCEPT !.bank = @ \ {q}]
  /\ UNCHANGED <<tx, holder, at, subject, left, batches>>

\* BulkInsert, for an import and for the seed.
BeginBatch(job) ==
  /\ batches < MaxBatches /\ batches' = batches + 1
  /\ Begin(job, "inserting")
  /\ subject' = [subject EXCEPT ![job] = batches + 1]
  /\ left' = [left EXCEPT ![job] = Lines]
  /\ UNCHANGED db

Import(r) == at[r] = "idle" /\ BeginBatch(r)

InsertRow(job) ==
  /\ at[job] = "inserting" /\ Room(tx)
  /\ Write(Inserted(tx, IF job = boot THEN "seed" ELSE "admin", subject[job]))
  /\ left' = [left EXCEPT ![job] = @ - 1]
  /\ IF left[job] = 1 THEN Goes(job, "committing") ELSE UNCHANGED at
  /\ UNCHANGED <<holder, subject, batches>>

MustSeed_Once(d) == d.rows = <<>>

MustSeed(d) == d.bank = {}

Down == \A job \in Jobs : at[job] = "down"

\* main seeds an empty bank, and then serves.
Seed == Down /\ MustSeed(db) /\ BeginBatch(boot)

Seeded == at[boot] = "seeded" \/ (Down /\ ~MustSeed(db))

Serve ==
  /\ Seeded
  /\ at' = [job \in Jobs |-> "idle"]
  /\ UNCHANGED <<db, tx, holder, subject, left, batches>>

\* The server crashes, or is restarted.
Crash ==
  /\ ~Down
  /\ at' = [job \in Jobs |-> "down"] /\ left' = [job \in Jobs |-> 0]
  /\ tx' = Empty /\ holder' = Nobody
  /\ UNCHANGED <<db, subject, batches>>

\* What anybody may ask for, what only the admin may, and what follows.
PublicRequest(r) == Submit(r) \/ SubmitBulk(r)

AdminRequest(r) ==
  \/ Create(r) \/ Import(r)
  \/ \E s \in DOMAIN db.status : ReadForApproval(r, s) \/ Reject(r, s)
  \/ \E q \in db.bank : Delete(r, q)

Proceed(job) ==
  \/ SubmitRow(job) \/ SubmitRowFails(job)
  \/ BeginApproval(job) \/ ApprovalFails(job)
  \/ InsertApproved(job) \/ MarkApproved(job)
  \/ InsertRow(job) \/ Commit(job) \/ Rollback(job)

Next ==
  \/ \E r \in Requests : PublicRequest(r) \/ AdminRequest(r)
  \/ \E job \in Jobs : Proceed(job)
  \/ Seed \/ Serve \/ Crash

Spec == Init /\ [][Next]_vars

-----------------------------------------------------------------------------
From(d, s) ==
  {q \in DOMAIN d.rows : d.rows[q].source = "submission" /\ d.rows[q].of = s}

\* No question gets into the bank past the moderators: what the bank has from a
\* submission was approved, and nobody rejects it afterwards, however approvals
\* and rejections of one submission overlap and wherever the server crashes.
OnlyApproved ==
  \A s \in DOMAIN db.status : From(db, s) # {} => db.status[s] = "approved"

\* The other way round, an approval is never recorded without its question.
ApprovedIsInserted ==
  \A s \in DOMAIN db.status : db.status[s] = "approved" => From(db, s) # {}

\* A seed or an import is there with all its questions or not at all.
BatchesWhole ==
  \A b \in 1 .. batches :
    Cardinality({q \in DOMAIN db.rows :
                   db.rows[q].source # "submission" /\ db.rows[q].of = b}) \in {0, Lines}

-----------------------------------------------------------------------------
\* A submission that has been approved is not approved again.
ReviewedOnce == \A s \in DOMAIN db.status : Cardinality(From(db, s)) <= 1
=============================================================================
