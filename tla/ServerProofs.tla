----------------------------- MODULE ServerProofs -----------------------------
(***************************************************************************)
(* Theorems about the question bank and its moderation (Moderation.tla)    *)
(* and about the server's life around them (Server.tla), for any number of *)
(* requests, questions, submissions, migrations, crashes and restarts.     *)
(*                                                                         *)
(* That the bank and the queue agree is not inductive: a transaction puts  *)
(* its copy in place, so the copy must be followed on its way from one     *)
(* statement to the next (TxInv), and it is a copy of what is committed    *)
(* only because nobody writes while there is a holder (AtInv).  A batch is *)
(* followed by counting: the copy has as many of its questions as are not  *)
(* left to insert, and its number is that of no batch before (CountInv).   *)
(*                                                                         *)
(* Whatever main, the backup and the admin do, the bank and the queue go   *)
(* through steps of Moderation.tla or none, so that what is proved of it   *)
(* holds for the server.  The rest needs to know how far a process has     *)
(* come (PlaceInv), and what the draft of the only one that writes has     *)
(* more than what is committed (DraftInv): a migration found missing may   *)
(* have been applied since, but then it cannot be recorded once more.  A   *)
(* request that compares a password has read one, and nothing is served    *)
(* before main is ready.                                                   *)
(***************************************************************************)
EXTENDS Server, TLAPS, FiniteSetTheorems

(* Part one: the bank and its moderation.                                  *)

Questions == [source : {"submission", "admin", "seed"}, of : Nat]

IsDb(d) ==
  d \in [rows : Seq(Questions), bank : SUBSET Nat, status : Seq(Statuses)]

\* Questions from the queue name a submission there is.
Told(d) ==
  \A q \in DOMAIN d.rows :
    d.rows[q].source = "submission" => d.rows[q].of \in DOMAIN d.status

Agree(d, s) == d.status[s] = "approved" <=> From(d, s) # {}

Right(d) == IsDb(d) /\ Told(d) /\ \A s \in DOMAIN d.status : Agree(d, s)

\* The question of s is in, its status is still to be set.
AlmostRight(d, s) ==
  /\ IsDb(d) /\ Told(d)
  /\ s \in DOMAIN d.status /\ From(d, s) # {}
  /\ \A t \in DOMAIN d.status \ {s} : Agree(d, t)

InTx == {"approving", "marking", "inserting", "committing"}

AtInv ==
  /\ at \in [Jobs -> Places] /\ subject \in [Jobs -> Nat] /\ batches \in Nat
  /\ \A job \in Jobs : at[job] \in InTx <=> holder = job
  /\ \A job \in Jobs : at[job] \in {"checked", "approving"}
                         => subject[job] \in DOMAIN db.status

TxInv ==
  \A job \in Jobs :
    /\ at[job] \in InTx => DOMAIN tx.status = DOMAIN db.status
    /\ at[job] \in {"approving", "inserting", "committing"} => Right(tx)
    /\ at[job] = "marking" => AlmostRight(tx, subject[job])

\* The requests wait until main has seeded, and main does so only if it must.
BootInv ==
  /\ at[boot] \in {"down", "inserting", "committing", "seeded", "idle"}
  /\ at[boot] # "idle" => \A r \in Requests : at[r] = "down"
  /\ at[boot] = "committing" => tx.bank # {}
  /\ at[boot] = "seeded" => db.bank # {}

IInv == Right(db) /\ AtInv /\ TxInv /\ BootInv

-----------------------------------------------------------------------------
(* The database.                                                           *)

\* e is d with one question more, of the source given.
Adds(d, e, source, of) ==
  LET q == Len(d.rows) + 1
  IN /\ IsDb(e) /\ e.status = d.status /\ e.bank # {}
     /\ DOMAIN e.rows = DOMAIN d.rows \cup {q}
     /\ e.rows[q].source = source /\ e.rows[q].of = of
     /\ \A p \in DOMAIN d.rows : e.rows[p] = d.rows[p]

LEMMA InsertedAdds ==
  ASSUME NEW d, IsDb(d), NEW source \in {"submission", "admin", "seed"}, NEW of \in Nat
  PROVE  Adds(d, Inserted(d, source, of), source, of)
<1> DEFINE row == [source |-> source, of |-> of]
           rows == Append(d.rows, row)
<1>1. d.rows \in Seq(Questions) /\ row \in Questions
  BY DEF IsDb, Questions
<1>2. /\ rows \in Seq(Questions)
      /\ DOMAIN rows = DOMAIN d.rows \cup {Len(d.rows) + 1}
      /\ rows[Len(d.rows) + 1] = row
      /\ \A p \in DOMAIN d.rows : rows[p] = d.rows[p]
  <2> HIDE DEF row
  <2> QED BY <1>1
<1> HIDE DEF rows
<1>3. IsDb(Inserted(d, source, of))
  BY <1>1, <1>2 DEF IsDb, Inserted, rows
<1> QED BY SMTT(20), <1>2, <1>3 DEF Adds, Inserted, rows

LEMMA InsertOther ==
  ASSUME NEW d, Right(d), NEW source \in {"admin", "seed"}, NEW of \in Nat
  PROVE  Right(Inserted(d, source, of)) /\ Inserted(d, source, of).status = d.status
<1> DEFINE e == Inserted(d, source, of)
<1>1. Adds(d, e, source, of)
  BY InsertedAdds DEF Right
<1> HIDE DEF e
<1>2. Told(e)
  BY <1>1 DEF Right, Told, Adds
<1>3. \A s : From(e, s) = From(d, s)
  BY <1>1 DEF From, Adds
<1> QED BY <1>1, <1>2, <1>3 DEF Right, Agree, Adds, e

LEMMA InsertFromQueue ==
  ASSUME NEW d, Right(d), NEW s \in DOMAIN d.status
  PROVE  /\ AlmostRight(Inserted(d, "submission", s), s)
         /\ Inserted(d, "submission", s).status = d.status
<1> DEFINE e == Inserted(d, "submission", s)
<1>1. Adds(d, e, "submission", s)
  <2>1. s \in Nat
    BY DEF Right, IsDb
  <2> QED BY <2>1, InsertedAdds DEF Right
<1> HIDE DEF e
<1>2. Told(e)
  BY <1>1 DEF Right, Told, Adds
<1>3. \A t : t # s => From(e, t) = From(d, t)
  BY <1>1 DEF From, Adds
<1>4. Len(d.rows) + 1 \in From(e, s)
  BY <1>1 DEF From, Adds
<1> QED BY <1>1, <1>2, <1>3, <1>4 DEF Right, AlmostRight, Agree, Adds, e

\* Only a change of a status can spoil a right database, or complete one.
Sets(d, e, s, new) ==
  /\ IsDb(e) /\ e.rows = d.rows /\ e.bank = d.bank
  /\ DOMAIN e.status = DOMAIN d.status
  /\ e.status[s] = new
  /\ \A t \in DOMAIN d.status \ {s} : e.status[t] = d.status[t]

LEMMA StatusChanged ==
  ASSUME NEW d, IsDb(d), NEW s \in DOMAIN d.status, NEW new \in Statuses
  PROVE  Sets(d, [d EXCEPT !.status[s] = new], s, new)
<1> DEFINE status == [d.status EXCEPT ![s] = new]
<1>1. [d EXCEPT !.status[s] = new]
        = [rows |-> d.rows, bank |-> d.bank, status |-> status]
  <2> DEFINE Rows == Seq(Questions)  Marks == Seq(Statuses)
  <2>1. d \in [rows : Rows, bank : SUBSET Nat, status : Marks]
    BY DEF IsDb
  <2> HIDE DEF Rows, Marks
  <2> QED BY <2>1
<1>2. d.status \in Seq(Statuses)
  BY DEF IsDb
<1>3. /\ status \in Seq(Statuses) /\ DOMAIN status = DOMAIN d.status
      /\ status[s] = new
      /\ \A t \in DOMAIN d.status \ {s} : status[t] = d.status[t]
  BY <1>2
<1> HIDE DEF status
<1> QED BY <1>1, <1>2, <1>3 DEF IsDb, Sets

LEMMA ApprovalCompletes ==
  ASSUME NEW d, NEW s, AlmostRight(d, s)
  PROVE  LET e == [d EXCEPT !.status[s] = "approved"]
         IN Right(e) /\ DOMAIN e.status = DOMAIN d.status /\ e.bank = d.bank
<1> DEFINE e == [d EXCEPT !.status[s] = "approved"]
<1>1. Sets(d, e, s, "approved")
  BY StatusChanged DEF AlmostRight, Statuses
<1> HIDE DEF e
<1>2. \A t : From(e, t) = From(d, t)
  BY <1>1 DEF From, Sets
<1> QED BY <1>1, <1>2 DEF Right, AlmostRight, Told, Agree, Sets, e

LEMMA RejectionKeeps ==
  ASSUME NEW d, Right(d), NEW s \in DOMAIN d.status, d.status[s] = "pending"
  PROVE  LET e == [d EXCEPT !.status[s] = "rejected"]
         IN Right(e) /\ DOMAIN e.status = DOMAIN d.status /\ e.bank = d.bank
<1> DEFINE e == [d EXCEPT !.status[s] = "rejected"]
<1>1. Sets(d, e, s, "rejected")
  BY StatusChanged DEF Right, Statuses
<1> HIDE DEF e
<1>2. \A t : From(e, t) = From(d, t)
  BY <1>1 DEF From, Sets
<1> QED BY <1>1, <1>2 DEF Right, Told, Agree, Sets, e

LEMMA QueueKeeps ==
  ASSUME NEW d, Right(d)
  PROVE  LET e == [d EXCEPT !.status = Append(@, "pending")]
         IN /\ Right(e) /\ e.rows = d.rows /\ e.bank = d.bank
            /\ DOMAIN d.status \subseteq DOMAIN e.status
<1> DEFINE status == Append(d.status, "pending")
           e == [d EXCEPT !.status = Append(@, "pending")]
<1>1. e = [rows |-> d.rows, bank |-> d.bank, status |-> status]
  <2> DEFINE Rows == Seq(Questions)  Marks == Seq(Statuses)
  <2>1. d \in [rows : Rows, bank : SUBSET Nat, status : Marks]
    BY DEF Right, IsDb
  <2> HIDE DEF Rows, Marks
  <2> QED BY SMTT(20), <2>1
<1>2. /\ status \in Seq(Statuses)
      /\ DOMAIN status = DOMAIN d.status \cup {Len(d.status) + 1}
      /\ status[Len(d.status) + 1] = "pending"
      /\ \A t \in DOMAIN d.status : status[t] = d.status[t]
  BY DEF Right, IsDb, Statuses
<1>3. IsDb(e) /\ Told(e)
  BY <1>1, <1>2 DEF Right, IsDb, Told
<1>4. \A t : From(e, t) = From(d, t)
  BY <1>1 DEF From
<1>5. From(d, Len(d.status) + 1) = {}
  <2>1. Len(d.status) + 1 \notin DOMAIN d.status
    BY DEF Right, IsDb
  <2> QED BY <2>1 DEF From, Right, Told
<1>6. \A t \in DOMAIN e.status : Agree(e, t)
  <2>1. ASSUME NEW t \in DOMAIN d.status
        PROVE  Agree(e, t)
    BY <1>1, <1>2, <1>4 DEF Right, Agree
  <2>2. Agree(e, Len(d.status) + 1)
    BY <1>1, <1>2, <1>4, <1>5 DEF Agree
  <2> QED BY <1>1, <1>2, <2>1, <2>2
<1> QED BY <1>1, <1>2, <1>3, <1>6 DEF Right

LEMMA EmptyIsRight == Right(Empty)
BY DEF Empty, Right, IsDb, Told, Agree

LEMMA DeletionKeeps ==
  ASSUME NEW d, Right(d), NEW q
  PROVE  LET e == [d EXCEPT !.bank = @ \ {q}]
         IN Right(e) /\ e.status = d.status
BY DEF Right, IsDb, Told, Agree, From

-----------------------------------------------------------------------------
(* The steps.                                                              *)

LEMMA StartsWell == Init => IInv
<1> SUFFICES ASSUME Init PROVE IInv
  OBVIOUS
<1>1. Right(db)
  BY EmptyIsRight DEF Init
<1>2. AtInv
  BY ModerationAssumption DEF Init, AtInv, Jobs, Places, InTx
<1>3. TxInv /\ BootInv
  BY DEF Init, TxInv, BootInv, Jobs, InTx
<1> QED BY <1>1, <1>2, <1>3 DEF IInv

\* A statement of its own, outside any transaction: it leaves the database right,
\* with every submission still there, and nobody is put into a transaction.
LEMMA StatementKeeps ==
  ASSUME IInv, Free, Right(db)', DOMAIN db.status \subseteq DOMAIN db'.status,
         UNCHANGED <<tx, holder, batches, subject>>,
         at[boot] = "idle",
         NEW r \in Requests, NEW place \in {"idle", "submitting"},
         at' = [at EXCEPT ![r] = place] \/ at' = at
  PROVE  IInv'
<1>1. AtInv'
  BY ModerationAssumption DEF IInv, AtInv, Free, Jobs, InTx, Places
<1>2. TxInv'
  BY <1>1, ModerationAssumption DEF IInv, AtInv, TxInv, Free, Jobs, InTx
<1>3. BootInv'
  BY ModerationAssumption DEF IInv, AtInv, BootInv, Jobs
<1> QED BY <1>1, <1>2, <1>3 DEF IInv

\* Whoever is served is served after boot.
LEMMA ServedAfterBoot ==
  ASSUME IInv, NEW r \in Requests, at[r] # "down"
  PROVE  at[boot] = "idle" /\ r # boot /\ r \in Jobs /\ boot \in Jobs
BY ModerationAssumption DEF IInv, BootInv, Jobs
\* A request goes on without touching the database.
LEMMA RequestGoesOn ==
  ASSUME IInv, UNCHANGED <<db, tx, holder, batches>>,
         at[boot] = "idle",
         NEW r \in Requests, at[r] \notin InTx,
         NEW place \in {"idle", "submitting", "checked"},
         NEW s \in Nat, place = "checked" => s \in DOMAIN db.status,
         \/ at' = at /\ subject' = subject
         \/ /\ at' = [at EXCEPT ![r] = place]
            /\ IF place = "checked" THEN subject' = [subject EXCEPT ![r] = s]
                                    ELSE subject' = subject
  PROVE  IInv'
<1>1. Right(db)'
  BY DEF IInv
<1>2. AtInv'
  <2>1. r \in Jobs /\ at \in [Jobs -> Places] /\ subject \in [Jobs -> Nat]
    BY DEF IInv, AtInv, Jobs
  <2>2. at' \in [Jobs -> Places] /\ subject' \in [Jobs -> Nat] /\ batches' \in Nat
    BY <2>1 DEF Places, IInv, AtInv
  <2>3. \A job \in Jobs : /\ at'[job] \in InTx <=> at[job] \in InTx
                          /\ at'[job] = "approving" <=> at[job] = "approving"
    BY <2>1 DEF InTx
  <2>4. \A job \in Jobs : at'[job] \in {"checked", "approving"}
                           => subject'[job] \in DOMAIN db.status
    BY <2>1, <2>3 DEF IInv, AtInv
  <2>5. \A job \in Jobs : at'[job] \in InTx <=> holder' = job
    BY <2>3 DEF IInv, AtInv
  <2> QED BY <2>2, <2>4, <2>5 DEF AtInv
<1>3. TxInv'
  BY <1>2, ModerationAssumption DEF IInv, AtInv, TxInv, Jobs, InTx
<1>4. BootInv'
  BY ModerationAssumption DEF IInv, AtInv, BootInv, Jobs
<1> QED BY <1>1, <1>2, <1>3, <1>4 DEF IInv

LEMMA PublicKeeps ==
  ASSUME IInv, NEW r \in Requests, PublicRequest(r)
  PROVE  IInv'
<1>1. at[boot] = "idle"
  BY ServedAfterBoot DEF PublicRequest, Submit, SubmitBulk
<1>2. CASE Submit(r)
  <2>1. Right(db)' /\ DOMAIN db.status \subseteq DOMAIN db'.status
    BY <1>2, QueueKeeps DEF IInv, Submit, Queue
  <2> QED BY <1>1, <1>2, <2>1, StatementKeeps DEF Submit, Queue
<1>3. CASE SubmitBulk(r)
  BY <1>1, <1>3, RequestGoesOn DEF SubmitBulk, Goes, InTx
<1> QED BY <1>2, <1>3 DEF PublicRequest

\* The connection is taken by somebody who was not in a transaction.
LEMMA BeginKeeps ==
  ASSUME IInv, NEW job \in Jobs, at[job] \in {"checked", "idle", "down"},
         NEW place \in {"approving", "inserting"}, Begin(job, place), UNCHANGED db,
         batches' \in Nat, subject' \in [Jobs -> Nat],
         \A other \in Jobs \ {job} : subject'[other] = subject[other],
         place = "approving" => subject'[job] \in DOMAIN db.status,
         IF job = boot THEN place = "inserting" /\ Down ELSE at[boot] = "idle"
  PROVE  IInv'
<1>1. Right(db)' /\ Right(tx)' /\ tx' = db
  BY DEF IInv, Begin
<1>2. AtInv'
  BY ModerationAssumption DEF IInv, AtInv, Begin, Free, Goes, Jobs, InTx, Places
<1>3. TxInv'
  BY <1>1, <1>2 DEF Begin, Goes, AtInv, TxInv, InTx
<1>4. BootInv'
  BY ModerationAssumption DEF IInv, AtInv, BootInv, Begin, Goes, Down, Jobs
<1> QED BY <1>1, <1>2, <1>3, <1>4 DEF IInv

LEMMA AdminKeeps ==
  ASSUME IInv, NEW r \in Requests, AdminRequest(r)
  PROVE  IInv'
<1>1. at[r] = "idle" /\ at[boot] = "idle" /\ r # boot /\ r \in Jobs
  <2>1. at[r] = "idle"
    BY DEF AdminRequest, Create, Import, ReadForApproval, Reject, Delete
  <2> QED BY <2>1, ServedAfterBoot
<1>2. CASE Create(r)
  <2>1. Right(Inserted(db, "admin", 0)) /\ Inserted(db, "admin", 0).status = db.status
    BY InsertOther DEF IInv
  <2> QED BY <1>1, <1>2, <2>1, StatementKeeps DEF Create
<1>3. CASE Import(r)
  <2>1. subject' \in [Jobs -> Nat] /\ batches' \in Nat
    <3>1. batches + 1 \in Nat /\ subject \in [Jobs -> Nat]
      BY DEF IInv, AtInv
    <3> QED BY <1>3, <3>1 DEF Import, BeginBatch
  <2> QED BY <1>1, <1>3, <2>1, BeginKeeps DEF Import, BeginBatch, IInv, AtInv
<1>4. ASSUME NEW s \in DOMAIN db.status, ReadForApproval(r, s)
      PROVE  IInv'
  <2>1. s \in Nat
    BY DEF IInv, Right, IsDb
  <2> QED BY <1>1, <1>4, <2>1, RequestGoesOn DEF ReadForApproval, Goes, InTx
<1>5. ASSUME NEW s \in DOMAIN db.status, Reject(r, s)
      PROVE  IInv'
  <2>1. Right(db)' /\ DOMAIN db.status = DOMAIN db'.status
    BY <1>5, RejectionKeeps DEF IInv, Reject, MayReject
  <2> QED BY <1>1, <1>5, <2>1, StatementKeeps DEF Reject
<1>6. ASSUME NEW q \in db.bank, Delete(r, q)
      PROVE  IInv'
  <2>1. Right(db)' /\ db.status = db'.status
    BY <1>6, DeletionKeeps DEF IInv, Delete
  <2> QED BY <1>1, <1>6, <2>1, StatementKeeps DEF Delete
<1> QED BY <1>2, <1>3, <1>4, <1>5, <1>6 DEF AdminRequest
\* The next statement of a transaction: the copy stays what the place it has
\* come to says it is.
LEMMA TransactionGoesOn ==
  ASSUME IInv, UNCHANGED <<db, holder, batches, subject>>,
         NEW job \in Jobs, at[job] \in InTx,
         NEW place \in {"marking", "inserting", "committing"},
         at' = [at EXCEPT ![job] = place],
         job = boot => at[boot] = "inserting" /\ place # "marking" /\ tx'.bank # {},
         DOMAIN tx'.status = DOMAIN tx.status,
         IF place = "marking" THEN AlmostRight(tx, subject[job])' ELSE Right(tx)'
  PROVE  IInv'
<1>1. job = holder /\ at'[job] = place /\ at \in [Jobs -> Places]
  BY DEF IInv, AtInv
<1>2. \A other \in Jobs \ {job} : at'[other] = at[other] /\ at[other] \notin InTx
  BY <1>1 DEF IInv, AtInv
<1>3. Right(db)'
  BY DEF IInv
<1>4. AtInv'
  BY <1>1, <1>2 DEF IInv, AtInv, InTx, Places
<1>5. TxInv'
  BY <1>1, <1>2 DEF IInv, TxInv, InTx
<1>6. BootInv'
  BY <1>1, <1>2, ModerationAssumption DEF IInv, BootInv, InTx, Jobs
<1> QED BY <1>3, <1>4, <1>5, <1>6 DEF IInv

\* The transaction ends, with its copy in place or without it.
LEMMA TransactionEnds ==
  ASSUME IInv, NEW job \in Jobs, at[job] \in InTx,
         holder' = Nobody, UNCHANGED <<batches, subject>>,
         NEW place \in {"idle", "seeded", "down"}, at' = [at EXCEPT ![job] = place],
         IF job = boot THEN place # "idle" ELSE place = "idle",
         db' = db \/ (db' = tx /\ at[job] = "committing"),
         job = boot /\ place = "seeded" => db' = tx /\ at[job] = "committing"
  PROVE  IInv'
<1>1. job = holder /\ at'[job] = place /\ at \in [Jobs -> Places]
  BY DEF IInv, AtInv
<1>2. \A other \in Jobs \ {job} : at'[other] = at[other] /\ at[other] \notin InTx
  BY <1>1 DEF IInv, AtInv
<1>3. Right(db)' /\ DOMAIN db'.status = DOMAIN db.status
  BY DEF IInv, TxInv, InTx
<1>4. \A other \in Jobs : at'[other] \notin InTx
  BY <1>1, <1>2 DEF InTx
<1>5. AtInv'
  <2>1. at' \in [Jobs -> Places]
    BY <1>1 DEF Places
  <2>2. \A other \in Jobs : at'[other] \in InTx <=> holder' = other
    BY <1>4, ModerationAssumption
  <2>3. \A other \in Jobs : at'[other] \in {"checked", "approving"}
                             => subject'[other] \in DOMAIN db'.status
    BY <1>1, <1>2, <1>3 DEF IInv, AtInv
  <2> QED BY <2>1, <2>2, <2>3 DEF AtInv, IInv
<1>6. TxInv'
  BY <1>4 DEF TxInv, InTx
<1>7. BootInv'
  BY <1>1, <1>2, ModerationAssumption DEF IInv, BootInv, InTx, Jobs
<1> QED BY <1>3, <1>5, <1>6, <1>7 DEF IInv

LEMMA ProceedKeeps ==
  ASSUME IInv, NEW job \in Jobs, Proceed(job)
  PROVE  IInv'
<1>1. job = boot \/ (job \in Requests /\ at[job] # "down" => at[boot] = "idle")
  BY ServedAfterBoot DEF Jobs
<1>2. CASE SubmitRow(job) \/ SubmitRowFails(job)
  <2>1. job \in Requests /\ at[boot] = "idle" /\ at[job] = "submitting"
    BY <1>1, <1>2 DEF SubmitRow, SubmitRowFails, Passed, IInv, BootInv, Jobs
  <2>2. at' = [at EXCEPT ![job] = "idle"] \/ at' = at
    BY <1>2 DEF SubmitRow, SubmitRowFails, Passed, Goes
  <2>3. CASE SubmitRow(job)
    <3>1. Right(db)' /\ DOMAIN db.status \subseteq DOMAIN db'.status
      BY <2>3, QueueKeeps DEF IInv, SubmitRow, Queue
    <3> QED BY <2>1, <2>2, <2>3, <3>1, StatementKeeps DEF SubmitRow, Queue
  <2>4. CASE SubmitRowFails(job)
    BY <2>1, <2>2, <2>4, RequestGoesOn DEF SubmitRowFails, InTx
  <2> QED BY <1>2, <2>3, <2>4
<1>3. CASE BeginApproval(job)
  <2>1. at[job] = "checked" /\ job # boot /\ at[boot] = "idle"
    BY <1>1, <1>3 DEF BeginApproval, IInv, BootInv, Jobs
  <2>2. subject[job] \in DOMAIN db.status
    BY <2>1 DEF IInv, AtInv
  <2> QED BY <1>3, <2>1, <2>2, BeginKeeps DEF BeginApproval, IInv, AtInv
<1>4. CASE ApprovalFails(job)
  <2>1. at[job] = "checked" /\ job \in Requests /\ at[boot] = "idle"
    BY <1>1, <1>4 DEF ApprovalFails, IInv, BootInv, Jobs
  <2> QED BY <1>4, <2>1, RequestGoesOn DEF ApprovalFails, Goes, InTx
<1>5. CASE InsertApproved(job)
  <2>1. at[job] = "approving" /\ job # boot
    BY <1>5 DEF InsertApproved, IInv, BootInv
  <2>2. Right(tx) /\ subject[job] \in DOMAIN tx.status
    BY <2>1 DEF IInv, TxInv, AtInv, InTx
  <2>3. AlmostRight(tx, subject[job])' /\ tx'.status = tx.status
    BY <1>5, <2>2, InsertFromQueue DEF InsertApproved, Write
  <2> QED BY <1>5, <2>1, <2>3, TransactionGoesOn DEF InsertApproved, Write, Goes, InTx
<1>6. CASE MarkApproved(job)
  <2>1. at[job] = "marking" /\ job # boot
    BY <1>6 DEF MarkApproved, IInv, BootInv
  <2>2. AlmostRight(tx, subject[job])
    BY <2>1 DEF IInv, TxInv
  <2>3. Right(tx)' /\ DOMAIN tx'.status = DOMAIN tx.status
    BY <1>6, <2>2, ApprovalCompletes DEF MarkApproved, Write
  <2> QED BY <1>6, <2>1, <2>3, TransactionGoesOn DEF MarkApproved, Write, Goes, InTx
<1>7. CASE InsertRow(job)
  <2> DEFINE source == IF job = boot THEN "seed" ELSE "admin"
  <2>1. at[job] = "inserting" /\ subject[job] \in Nat /\ at \in [Jobs -> Places]
    BY <1>7 DEF InsertRow, IInv, AtInv
  <2>2. Right(tx) /\ tx' = Inserted(tx, source, subject[job])
    BY <1>7, <2>1 DEF IInv, TxInv, InsertRow, Write
  <2>3. Right(tx)' /\ tx'.status = tx.status /\ tx'.bank # {}
    <3>1. Right(tx)' /\ tx'.status = tx.status
      BY <2>1, <2>2, InsertOther
    <3>2. Adds(tx, Inserted(tx, source, subject[job]), source, subject[job])
      BY <2>1, <2>2, InsertedAdds DEF Right
    <3> QED BY <2>2, <3>1, <3>2 DEF Adds
  <2>4. at' = [at EXCEPT ![job] = "committing"] \/ at' = [at EXCEPT ![job] = "inserting"]
    BY <1>7, <2>1 DEF InsertRow, Goes
  <2> QED BY <1>7, <2>1, <2>3, <2>4, TransactionGoesOn DEF InsertRow, Write, InTx
<1>8. CASE Commit(job)
  BY <1>8, TransactionEnds DEF Commit, Goes, Done, InTx
<1>9. CASE Rollback(job)
  <2>1. at[job] \in InTx
    BY <1>9 DEF Rollback, IInv, AtInv
  <2> QED BY <1>9, <2>1, TransactionEnds DEF Rollback, Goes, Failed
<1> QED BY <1>2, <1>3, <1>4, <1>5, <1>6, <1>7, <1>8, <1>9 DEF Proceed

LEMMA BootKeeps == IInv /\ (Seed \/ Serve \/ Crash) => IInv'
<1> SUFFICES ASSUME IInv, Seed \/ Serve \/ Crash
             PROVE  IInv'
  OBVIOUS
<1>1. CASE Seed
  <2>1. boot \in Jobs /\ at[boot] = "down"
    BY <1>1 DEF Seed, Down, Jobs
  <2>2. subject' \in [Jobs -> Nat] /\ batches' \in Nat
    <3>1. batches + 1 \in Nat /\ subject \in [Jobs -> Nat]
      BY DEF IInv, AtInv
    <3> QED BY <1>1, <3>1 DEF Seed, BeginBatch
  <2> QED BY <1>1, <2>1, <2>2, BeginKeeps DEF Seed, BeginBatch, IInv, AtInv
<1>2. CASE Serve
  <2>1. \A job \in Jobs : at[job] \notin InTx /\ at'[job] = "idle"
    BY <1>2, ModerationAssumption DEF Serve, Seeded, Down, IInv, BootInv, Jobs, InTx
  <2>2. AtInv'
    BY <1>2, <2>1 DEF Serve, IInv, AtInv, InTx, Places
  <2>3. TxInv' /\ BootInv'
    BY <2>1 DEF TxInv, BootInv, Jobs, InTx
  <2> QED BY <1>2, <2>2, <2>3 DEF Serve, IInv
<1>3. CASE Crash
  <2>1. \A job \in Jobs : at'[job] = "down"
    BY <1>3 DEF Crash
  <2>2. AtInv'
    BY <1>3, <2>1, ModerationAssumption DEF Crash, IInv, AtInv, InTx, Places
  <2>3. TxInv' /\ BootInv'
    BY <2>1 DEF TxInv, BootInv, Jobs, InTx
  <2> QED BY <1>3, <2>2, <2>3 DEF Crash, IInv
<1> QED BY <1>1, <1>2, <1>3

LEMMA KeepsIInv == IInv /\ [Next]_vars => IInv'
<1>1. IInv /\ UNCHANGED vars => IInv'
  BY DEF vars, IInv, AtInv, TxInv, BootInv
<1> QED BY <1>1, PublicKeeps, AdminKeeps, ProceedKeeps, BootKeeps DEF Next

LEMMA Invariance == Spec => []IInv
BY StartsWell, KeepsIInv, PTL DEF Spec

LEMMA BankIsModerated == IInv => OnlyApproved /\ ApprovedIsInserted
BY DEF IInv, Right, Agree, OnlyApproved, ApprovedIsInserted
-----------------------------------------------------------------------------
(* Batches and bounds.                                                     *)

\* The questions of a batch, as BatchesWhole counts them.
Batch(d, b) ==
  {q \in DOMAIN d.rows : d.rows[q].source # "submission" /\ d.rows[q].of = b}

Whole(d, B) == \A b \in B : Cardinality(Batch(d, b)) \in {0, Lines}

\* A database as it is at any time, after n batches have begun.
Sound(d, n) ==
  /\ IsDb(d) /\ d.bank \subseteq DOMAIN d.rows
  /\ \A q \in DOMAIN d.rows : d.rows[q].source # "submission" => d.rows[q].of <= n

CountInv ==
  /\ left \in [Jobs -> 0 .. Lines] /\ batches \in 0 .. MaxBatches
  /\ holder \in Jobs \cup {Nobody}
  /\ Sound(db, batches) /\ Sound(tx, batches) /\ Whole(db, 1 .. batches)
  /\ \A job \in Jobs : at[job] \in {"submitting", "inserting"} => left[job] # 0
  /\ \A job \in Jobs :
       at[job] \in {"approving", "marking", "committing"} => Whole(tx, 1 .. batches)
  /\ \A job \in Jobs :
       at[job] = "inserting" =>
         /\ subject[job] \in 1 .. batches
         /\ Whole(tx, (1 .. batches) \ {subject[job]})
         /\ Cardinality(Batch(tx, subject[job])) + left[job] = Lines

LEMMA BatchesFinite ==
  ASSUME NEW d, IsDb(d), NEW b
  PROVE  IsFiniteSet(Batch(d, b)) /\ Cardinality(Batch(d, b)) \in Nat
<1>1. DOMAIN d.rows = 1 .. Len(d.rows) /\ Len(d.rows) \in Nat
  BY DEF IsDb
<1>2. IsFiniteSet(DOMAIN d.rows)
  <2>1. IsFiniteSet(1 .. Len(d.rows))
    BY <1>1, FS_Interval
  <2> QED BY <1>1, <2>1
<1>3. Batch(d, b) \in SUBSET (DOMAIN d.rows)
  BY DEF Batch
<1>4. IsFiniteSet(Batch(d, b))
  BY <1>2, <1>3, FS_Subset
<1> QED BY <1>4, FS_CardinalityType

\* A question more is a question more of its own batch, and of no other.
LEMMA InsertedCounts ==
  ASSUME NEW n \in Nat, NEW d, Sound(d, n),
         NEW source \in {"submission", "admin", "seed"}, NEW of \in Nat,
         source # "submission" => of <= n
  PROVE  LET e == Inserted(d, source, of)
         IN /\ Sound(e, n)
            /\ \A b : source = "submission" \/ b # of => Batch(e, b) = Batch(d, b)
            /\ source # "submission" =>
                 Cardinality(Batch(e, of)) = Cardinality(Batch(d, of)) + 1
<1> DEFINE e == Inserted(d, source, of)
           q == Len(d.rows) + 1
<1>1. IsDb(d) /\ Adds(d, e, source, of)
  BY InsertedAdds DEF Sound
<1>2. e.bank = d.bank \cup {q}
  BY DEF Inserted
<1>3. q \notin DOMAIN d.rows
  BY <1>1 DEF IsDb
<1>a. /\ IsDb(e) /\ DOMAIN e.rows = DOMAIN d.rows \cup {q}
      /\ e.rows[q].source = source /\ e.rows[q].of = of
      /\ \A p \in DOMAIN d.rows : e.rows[p] = d.rows[p]
  BY <1>1 DEF Adds
<1> HIDE DEF e, q
<1>4. Sound(e, n)
  BY <1>a, <1>2 DEF Sound
<1>5. \A b : source = "submission" \/ b # of => Batch(e, b) = Batch(d, b)
  BY <1>a, <1>3 DEF Batch
<1>6. ASSUME source # "submission"
      PROVE  Cardinality(Batch(e, of)) = Cardinality(Batch(d, of)) + 1
  <2>1. Batch(e, of) = Batch(d, of) \cup {q} /\ q \notin Batch(d, of)
    BY <1>a, <1>3, <1>6 DEF Batch
  <2>2. IsFiniteSet(Batch(d, of))
    BY <1>1, BatchesFinite
  <2> QED BY <2>1, <2>2, FS_AddElement
<1> QED BY <1>4, <1>5, <1>6 DEF e

\* Counting looks at the questions and not at the queue or what is left of the bank.
LEMMA SameRowsCount ==
  ASSUME NEW n, NEW d, NEW e, IsDb(e), e.rows = d.rows, e.bank \subseteq d.bank
  PROVE  /\ Sound(d, n) => Sound(e, n)
         /\ \A B : Whole(d, B) => Whole(e, B)
BY DEF Sound, Whole, Batch

LEMMA InsertedWhole ==
  ASSUME NEW n \in Nat, NEW d, Sound(d, n), Whole(d, 1 .. n),
         NEW source \in {"submission", "admin", "seed"}, NEW of \in Nat,
         source = "submission" \/ of = 0
  PROVE  Sound(Inserted(d, source, of), n) /\ Whole(Inserted(d, source, of), 1 .. n)
<1> DEFINE e == Inserted(d, source, of)
<1>1. \A b \in 1 .. n : source = "submission" \/ b # of
  OBVIOUS
<1>2. source # "submission" => of <= n
  OBVIOUS
<1>3. Sound(e, n) /\ \A b : source = "submission" \/ b # of => Batch(e, b) = Batch(d, b)
  BY SMTT(20), <1>2, InsertedCounts
<1> HIDE DEF e
<1>4. Whole(e, 1 .. n)
  BY <1>1, <1>3 DEF Whole
<1> QED BY <1>3, <1>4 DEF e

\* The number of a batch that begins is that of no question yet.
LEMMA BatchBegins ==
  ASSUME NEW n \in Nat, NEW d, Sound(d, n), Whole(d, 1 .. n)
  PROVE  /\ Sound(d, n + 1) /\ Whole(d, 1 .. n + 1)
         /\ Cardinality(Batch(d, n + 1)) = 0
<1>1. \A q \in DOMAIN d.rows : d.rows[q].of \in Nat
  <2>1. \A q \in DOMAIN d.rows : d.rows[q] \in Questions
    BY DEF Sound, IsDb
  <2> QED BY <2>1 DEF Questions
<1>2. Sound(d, n + 1)
  BY <1>1 DEF Sound
<1>3. Batch(d, n + 1) = {}
  BY <1>1 DEF Sound, Batch
<1>4. Cardinality(Batch(d, n + 1)) = 0
  BY <1>3, FS_EmptySet
<1>5. 1 .. n + 1 = (1 .. n) \cup {n + 1}
  OBVIOUS
<1> QED BY <1>2, <1>4, <1>5 DEF Whole

LEMMA EmptyCounts ==
  ASSUME NEW n
  PROVE  Sound(Empty, n)
BY EmptyIsRight DEF Empty, Sound, Right

LEMMA CountStarts == Init => CountInv
<1> SUFFICES ASSUME Init PROVE CountInv
  OBVIOUS
<1>1. Sound(db, batches) /\ Sound(tx, batches) /\ Whole(db, 1 .. batches)
  BY EmptyCounts DEF Init, Whole
<1>2. left \in [Jobs -> 0 .. Lines] /\ batches \in 0 .. MaxBatches
  BY ModerationAssumption DEF Init
<1> QED BY <1>1, <1>2 DEF Init, CountInv

\* A step outside any transaction, of whoever is not in one.
LEMMA OutsideCounts ==
  ASSUME CountInv, UNCHANGED <<tx, holder, batches>>,
         Sound(db', batches), Whole(db', 1 .. batches),
         left' \in [Jobs -> 0 .. Lines],
         \A job \in Jobs : at'[job] = "submitting" => left'[job] # 0,
         \A job \in Jobs : at'[job] \in InTx =>
           at'[job] = at[job] /\ subject'[job] = subject[job] /\ left'[job] = left[job]
  PROVE  CountInv'
<1>1. \A job \in Jobs : at'[job] = "inserting" =>
        at[job] = "inserting" /\ subject'[job] = subject[job] /\ left'[job] = left[job]
  BY DEF InTx
<1>2. \A job \in Jobs : at'[job] \in {"approving", "marking", "committing"} =>
        at'[job] = at[job]
  BY DEF InTx
<1> QED BY <1>1, <1>2 DEF CountInv

\* Nobody is left in a transaction.
LEMMA EndCounts ==
  ASSUME CountInv, batches' = batches, tx' = Empty, holder' = Nobody,
         Sound(db', batches), Whole(db', 1 .. batches),
         left' \in [Jobs -> 0 .. Lines],
         \A job \in Jobs : at'[job] \notin InTx,
         \A job \in Jobs : at'[job] = "submitting" => left'[job] # 0
  PROVE  CountInv'
<1>1. Sound(tx', batches)
  BY EmptyCounts
<1>2. \A job \in Jobs : at'[job] \notin {"approving", "marking", "committing", "inserting"}
  BY DEF InTx
<1> QED BY <1>1, <1>2 DEF CountInv

\* Only one job is in a transaction.
LEMMA OneInTx ==
  ASSUME IInv, NEW job \in Jobs, Free \/ at[job] \in InTx, NEW other \in Jobs \ {job}
  PROVE  at[other] \notin InTx
BY ModerationAssumption DEF IInv, AtInv, Free, Jobs

\* The transaction of job begins or goes on to place.
LEMMA InsideCounts ==
  ASSUME CountInv, NEW job \in Jobs, at \in [Jobs -> Places],
         \A other \in Jobs \ {job} : at[other] \notin InTx,
         NEW place \in InTx, at' = [at EXCEPT ![job] = place], holder' = job,
         NEW n \in 0 .. MaxBatches, batches' = n,
         left' \in [Jobs -> 0 .. Lines],
         \A other \in Jobs \ {job} : left'[other] = left[other],
         Sound(db', n), Whole(db', 1 .. n), Sound(tx', n),
         place # "inserting" => Whole(tx', 1 .. n),
         place = "inserting" =>
           /\ subject'[job] \in 1 .. n /\ left'[job] # 0
           /\ Whole(tx', (1 .. n) \ {subject'[job]})
           /\ Cardinality(Batch(tx', subject'[job])) + left'[job] = Lines
  PROVE  CountInv'
<1>1. at'[job] = place /\ \A other \in Jobs \ {job} : at'[other] = at[other]
  OBVIOUS
<1>2. \A other \in Jobs : at'[other] \in InTx => other = job
  BY <1>1
<1>3. \A other \in Jobs : at'[other] \in {"submitting", "inserting"} => left'[other] # 0
  BY <1>1, <1>2 DEF CountInv, InTx
<1>4. \A other \in Jobs :
        at'[other] \in {"approving", "marking", "committing"} => Whole(tx', 1 .. n)
  BY <1>1, <1>2 DEF InTx
<1>5. \A other \in Jobs : at'[other] = "inserting" =>
        /\ subject'[other] \in 1 .. n
        /\ Whole(tx', (1 .. n) \ {subject'[other]})
        /\ Cardinality(Batch(tx', subject'[other])) + left'[other] = Lines
  BY <1>1, <1>2 DEF InTx
<1> QED BY <1>3, <1>4, <1>5 DEF CountInv

LEMMA BeginBatchCounts ==
  ASSUME IInv, CountInv, NEW job \in Jobs, BeginBatch(job)
  PROVE  CountInv'
<1> DEFINE n == batches + 1
<1>1. n \in 0 .. MaxBatches /\ batches \in Nat /\ Lines \in Nat \ {0}
  BY ModerationAssumption DEF CountInv, BeginBatch
<1>2. /\ Sound(db, n) /\ Whole(db, 1 .. n) /\ Cardinality(Batch(db, n)) = 0
  BY <1>1, BatchBegins DEF CountInv
<1>3. tx' = db /\ db' = db /\ batches' = n /\ holder' = job
  BY DEF BeginBatch, Begin
<1>4. subject'[job] = n /\ left'[job] = Lines /\ left' \in [Jobs -> 0 .. Lines]
  <2>1. subject \in [Jobs -> Nat] /\ left \in [Jobs -> 0 .. Lines]
    BY DEF IInv, AtInv, CountInv
  <2> QED BY <1>1, <2>1 DEF BeginBatch
<1>5. \A other \in Jobs \ {job} : left'[other] = left[other]
  BY DEF BeginBatch, CountInv
<1>6. at' = [at EXCEPT ![job] = "inserting"] /\ at \in [Jobs -> Places]
  BY DEF BeginBatch, Begin, Goes, IInv, AtInv
<1>7. \A other \in Jobs \ {job} : at[other] \notin InTx
  BY OneInTx DEF BeginBatch, Begin
<1>8. n \in 1 .. n /\ Whole(db, (1 .. n) \ {n}) /\ 0 + Lines = Lines
  BY <1>1, <1>2 DEF Whole
<1> HIDE DEF n
<1> QED BY <1>1, <1>2, <1>3, <1>4, <1>5, <1>6, <1>7, <1>8, InsideCounts DEF InTx

LEMMA PublicCounts ==
  ASSUME IInv, CountInv, NEW r \in Requests, PublicRequest(r)
  PROVE  CountInv'
<1>0. r \in Jobs /\ at \in [Jobs -> Places] /\ left \in [Jobs -> 0 .. Lines]
  BY DEF Jobs, IInv, AtInv, CountInv
<1>1. CASE Submit(r)
  <2>1. Right(db') /\ db'.rows = db.rows /\ db'.bank = db.bank
    BY <1>1, QueueKeeps DEF IInv, Submit, Queue
  <2>2. Sound(db', batches) /\ Whole(db', 1 .. batches)
    BY <2>1, SameRowsCount DEF Right, CountInv
  <2> QED BY <1>0, <1>1, <2>2, OutsideCounts DEF Submit, Queue, CountInv
<1>2. CASE SubmitBulk(r)
  <2>1. left' \in [Jobs -> 0 .. Lines] /\ left'[r] # 0
    BY <1>0, <1>2, ModerationAssumption DEF SubmitBulk
  <2>2. /\ at'[r] = "submitting"
        /\ \A job \in Jobs \ {r} : at'[job] = at[job] /\ left'[job] = left[job]
    BY <1>0, <1>2 DEF SubmitBulk, Goes
  <2>3. \A job \in Jobs : at'[job] = "submitting" => left'[job] # 0
    BY <2>1, <2>2 DEF CountInv
  <2>4. \A job \in Jobs : at'[job] \in InTx => job # r
    BY <2>2 DEF InTx
  <2> QED BY <1>2, <2>1, <2>2, <2>3, <2>4, OutsideCounts DEF SubmitBulk, CountInv
<1> QED BY <1>1, <1>2 DEF PublicRequest

LEMMA AdminCounts ==
  ASSUME IInv, CountInv, NEW r \in Requests, AdminRequest(r)
  PROVE  CountInv'
<1>0. /\ r \in Jobs /\ at \in [Jobs -> Places] /\ left \in [Jobs -> 0 .. Lines]
      /\ batches \in Nat
  BY DEF Jobs, IInv, AtInv, CountInv
<1>1. CASE Create(r)
  <2>1. Sound(db', batches) /\ Whole(db', 1 .. batches)
    BY <1>0, <1>1, InsertedWhole DEF Create, CountInv
  <2> QED BY <1>0, <1>1, <2>1, OutsideCounts DEF Create, CountInv
<1>2. CASE Import(r)
  BY <1>0, <1>2, BeginBatchCounts DEF Import
<1>3. ASSUME NEW s \in DOMAIN db.status, ReadForApproval(r, s)
      PROVE  CountInv'
  <2>1. at'[r] = "checked" /\ \A job \in Jobs \ {r} : at'[job] = at[job]
    BY <1>0, <1>3 DEF ReadForApproval, Goes
  <2>2. \A job \in Jobs \ {r} : subject'[job] = subject[job]
    BY <1>3 DEF ReadForApproval, IInv, AtInv
  <2>3. \A job \in Jobs : at'[job] \in InTx \cup {"submitting"} => job # r
    BY <2>1 DEF InTx
  <2> QED BY <1>0, <1>3, <2>1, <2>2, <2>3, OutsideCounts DEF ReadForApproval, CountInv
<1>4. ASSUME NEW s \in DOMAIN db.status, Reject(r, s)
      PROVE  CountInv'
  <2>1. Sets(db, db', s, "rejected")
    BY <1>4, StatusChanged DEF Reject, IInv, Right, Statuses
  <2>2. Sound(db', batches) /\ Whole(db', 1 .. batches)
    BY <2>1, SameRowsCount DEF Sets, CountInv
  <2> QED BY <1>0, <1>4, <2>2, OutsideCounts DEF Reject, CountInv
<1>5. ASSUME NEW q \in db.bank, Delete(r, q)
      PROVE  CountInv'
  <2>1. IsDb(db') /\ db'.rows = db.rows /\ db'.bank = db.bank \ {q}
    BY <1>5, DeletionKeeps DEF Delete, IInv, Right, IsDb
  <2>2. Sound(db', batches) /\ Whole(db', 1 .. batches)
    BY <2>1, SameRowsCount DEF CountInv
  <2> QED BY <1>0, <1>5, <2>2, OutsideCounts DEF Delete, CountInv
<1> QED BY <1>1, <1>2, <1>3, <1>4, <1>5 DEF AdminRequest

LEMMA SubmissionCounts ==
  ASSUME IInv, CountInv, NEW job \in Jobs, SubmitRow(job) \/ SubmitRowFails(job)
  PROVE  CountInv'
<1>0. at \in [Jobs -> Places] /\ left \in [Jobs -> 0 .. Lines] /\ Lines \in Nat
  BY ModerationAssumption DEF IInv, AtInv, CountInv
<1>1. Passed(job) /\ UNCHANGED <<tx, holder, subject, batches>>
  BY DEF SubmitRow, SubmitRowFails, Queue
<1>2. at[job] = "submitting" /\ left[job] \in 1 .. Lines
  BY <1>0, <1>1 DEF Passed, CountInv
<1>3. left' \in [Jobs -> 0 .. Lines]
  BY <1>0, <1>1, <1>2 DEF Passed
<1>4. /\ at'[job] \in {"idle", "submitting"} /\ left'[job] = left[job] - 1
      /\ at'[job] = "submitting" => left[job] # 1
      /\ \A other \in Jobs \ {job} : at'[other] = at[other] /\ left'[other] = left[other]
  BY <1>0, <1>1, <1>2 DEF Passed, Goes
<1>5. \A other \in Jobs : at'[other] = "submitting" => left'[other] # 0
  BY <1>2, <1>4 DEF CountInv
<1>6. \A other \in Jobs : at'[other] \in InTx => other # job
  BY <1>4 DEF InTx
<1>7. Sound(db', batches) /\ Whole(db', 1 .. batches)
  <2>1. CASE Queue
    <3>1. Right(db') /\ db'.rows = db.rows /\ db'.bank = db.bank
      BY <2>1, QueueKeeps DEF IInv, Queue
    <3> QED BY <3>1, SameRowsCount DEF Right, CountInv
  <2>2. CASE UNCHANGED db
    BY <2>2 DEF CountInv
  <2> QED BY <2>1, <2>2 DEF SubmitRow, SubmitRowFails
<1> QED BY <1>1, <1>3, <1>4, <1>5, <1>6, <1>7, OutsideCounts

LEMMA ProceedCounts ==
  ASSUME IInv, CountInv, NEW job \in Jobs, Proceed(job)
  PROVE  CountInv'
<1>0. /\ at \in [Jobs -> Places] /\ left \in [Jobs -> 0 .. Lines]
      /\ subject \in [Jobs -> Nat] /\ batches \in 0 .. MaxBatches /\ batches \in Nat
      /\ Lines \in Nat \ {0}
      /\ Sound(db, batches) /\ Sound(tx, batches) /\ Whole(db, 1 .. batches)
  BY ModerationAssumption DEF IInv, AtInv, CountInv
<1>1. CASE BeginApproval(job)
  <2>1. \A other \in Jobs \ {job} : at[other] \notin InTx
    BY <1>1, OneInTx DEF BeginApproval, Begin
  <2> QED BY <1>0, <1>1, <2>1, InsideCounts DEF BeginApproval, Begin, Goes, InTx
<1>2. CASE ApprovalFails(job)
  <2>1. at'[job] = "idle" /\ \A other \in Jobs \ {job} : at'[other] = at[other]
    BY <1>0, <1>2 DEF ApprovalFails, Goes
  <2>2. \A other \in Jobs : at'[other] \in InTx \cup {"submitting"} => other # job
    BY <2>1 DEF InTx
  <2> QED BY <1>0, <1>2, <2>1, <2>2, OutsideCounts DEF ApprovalFails, CountInv
<1>3. CASE InsertApproved(job)
  <2>1. at[job] = "approving" /\ Whole(tx, 1 .. batches)
    BY <1>3 DEF InsertApproved, CountInv
  <2>2. /\ Sound(tx', batches) /\ Whole(tx', 1 .. batches) /\ db' = db
    BY <1>0, <1>3, <2>1, InsertedWhole DEF InsertApproved, Write
  <2>3. holder' = job /\ \A other \in Jobs \ {job} : at[other] \notin InTx
    BY <1>3, <2>1, OneInTx DEF InsertApproved, IInv, AtInv, InTx
  <2> QED BY <1>0, <1>3, <2>2, <2>3, InsideCounts DEF InsertApproved, Goes, InTx
<1>4. CASE MarkApproved(job)
  <2>1. at[job] = "marking" /\ Whole(tx, 1 .. batches)
    BY <1>4 DEF MarkApproved, CountInv
  <2>2. Sets(tx, tx', subject[job], "approved") /\ db' = db
    BY <1>4, <2>1, StatusChanged
       DEF MarkApproved, Write, IInv, TxInv, AlmostRight, Statuses
  <2>3. Sound(tx', batches) /\ Whole(tx', 1 .. batches)
    BY <1>0, <2>1, <2>2, SameRowsCount DEF Sets
  <2>4. holder' = job /\ \A other \in Jobs \ {job} : at[other] \notin InTx
    BY <1>4, <2>1, OneInTx DEF MarkApproved, IInv, AtInv, InTx
  <2> QED BY <1>0, <1>4, <2>2, <2>3, <2>4, InsideCounts DEF MarkApproved, Goes, InTx
<1>5. CASE InsertRow(job)
  <2> DEFINE source == IF job = boot THEN "seed" ELSE "admin"
             b == subject[job]
             count == Cardinality(Batch(tx, b))
  <2>1. /\ at[job] = "inserting" /\ left[job] \in 1 .. Lines
        /\ b \in 1 .. batches /\ Whole(tx, (1 .. batches) \ {b})
        /\ count + left[job] = Lines /\ count \in Nat
    <3>1. /\ at[job] = "inserting" /\ left[job] # 0
          /\ b \in 1 .. batches /\ Whole(tx, (1 .. batches) \ {b})
          /\ Cardinality(Batch(tx, b)) + left[job] = Lines
      BY <1>5 DEF InsertRow, CountInv
    <3>2. left[job] \in 0 .. Lines
      BY <1>0
    <3>3. Cardinality(Batch(tx, b)) \in Nat
      BY <1>0, BatchesFinite DEF Sound
    <3> QED BY <3>1, <3>2, <3>3
  <2>2. tx' = Inserted(tx, source, b) /\ db' = db
    BY <1>5 DEF InsertRow, Write
  <2>3. /\ Sound(tx', batches) /\ Cardinality(Batch(tx', b)) = count + 1
        /\ \A c : c # b => Batch(tx', c) = Batch(tx, c)
    <3>1. /\ source \in {"submission", "admin", "seed"} /\ source # "submission"
          /\ b \in Nat /\ b <= batches
      BY <1>0, <2>1
    <3>2. Sound(tx, batches) /\ batches \in Nat
      BY <1>0
    <3> HIDE DEF source, b
    <3> QED BY <2>2, <3>1, <3>2, InsertedCounts DEF count
  <2>4. Whole(tx', (1 .. batches) \ {b})
    BY <2>1, <2>3 DEF Whole
  <2>5. holder' = job /\ \A other \in Jobs \ {job} : at[other] \notin InTx
    BY <1>5, <2>1, OneInTx DEF InsertRow, IInv, AtInv, InTx
  <2>6. /\ left' \in [Jobs -> 0 .. Lines] /\ left'[job] = left[job] - 1
        /\ \A other \in Jobs \ {job} : left'[other] = left[other]
    BY <1>0, <1>5, <2>1 DEF InsertRow
  <2> HIDE DEF count
  <2>7. CASE left[job] = 1
    <3>1. at' = [at EXCEPT ![job] = "committing"]
      BY <1>5, <2>7 DEF InsertRow, Goes
    <3>2. Whole(tx', 1 .. batches)
      <4>1. Cardinality(Batch(tx', b)) = Lines
        BY <1>0, <2>1, <2>3, <2>7
      <4> QED BY <2>4, <4>1 DEF Whole
    <3> QED BY <1>0, <1>5, <2>2, <2>3, <2>5, <2>6, <3>1, <3>2, InsideCounts
            DEF InsertRow, InTx
  <2>8. CASE left[job] # 1
    <3>1. at' = [at EXCEPT ![job] = "inserting"]
      BY <1>0, <1>5, <2>1, <2>8 DEF InsertRow
    <3>2. /\ left'[job] # 0 /\ Cardinality(Batch(tx', b)) + left'[job] = Lines
      BY <1>0, <2>1, <2>3, <2>6, <2>8
    <3>3. subject'[job] = b /\ batches' = batches
      BY <1>5 DEF InsertRow
    <3> HIDE DEF b
    <3> QED BY <1>0, <2>1, <2>2, <2>3, <2>4, <2>5, <2>6, <3>1, <3>2, <3>3, InsideCounts
            DEF InTx
  <2> QED BY <2>7, <2>8
<1>6. CASE Commit(job)
  <2>1. at[job] = "committing" /\ at'[job] \in {"idle", "seeded"}
    BY <1>0, <1>6 DEF Commit, Goes, Done
  <2>2. \A other \in Jobs \ {job} : at'[other] = at[other] /\ at[other] \notin InTx
    BY <1>0, <1>6, <2>1, OneInTx DEF Commit, Goes, InTx
  <2>3. /\ \A other \in Jobs : at'[other] \notin InTx
        /\ \A other \in Jobs : at'[other] = "submitting" => left'[other] # 0
    BY <1>6, <2>1, <2>2 DEF Commit, InTx, CountInv
  <2>4. Sound(db', batches) /\ Whole(db', 1 .. batches)
    BY <1>6, <2>1 DEF Commit, CountInv
  <2> QED BY <1>0, <1>6, <2>3, <2>4, EndCounts DEF Commit
<1>7. CASE Rollback(job)
  <2>1. at[job] \in InTx /\ at'[job] \in {"idle", "down"}
    BY <1>0, <1>7 DEF Rollback, Goes, Failed, IInv, AtInv
  <2>2. \A other \in Jobs \ {job} : at'[other] = at[other] /\ at[other] \notin InTx
    BY <1>0, <1>7, <2>1, OneInTx DEF Rollback, Goes
  <2>3. /\ \A other \in Jobs : at'[other] \notin InTx
        /\ \A other \in Jobs : at'[other] = "submitting" => left'[other] # 0
    BY <1>7, <2>1, <2>2 DEF Rollback, InTx, CountInv
  <2> QED BY <1>0, <1>7, <2>3, EndCounts DEF Rollback
<1> QED BY <1>1, <1>2, <1>3, <1>4, <1>5, <1>6, <1>7, SubmissionCounts DEF Proceed

LEMMA KeepsCountInv == IInv /\ CountInv /\ [Next]_vars => CountInv'
<1> SUFFICES ASSUME IInv, CountInv, [Next]_vars PROVE CountInv'
  OBVIOUS
<1>0. /\ at \in [Jobs -> Places] /\ left \in [Jobs -> 0 .. Lines]
      /\ Sound(db, batches) /\ Whole(db, 1 .. batches)
  BY DEF IInv, AtInv, CountInv
<1>1. CASE Seed
  BY <1>1, BeginBatchCounts DEF Seed, Jobs
<1>2. CASE Serve
  <2>1. \A job \in Jobs : at'[job] = "idle"
    BY <1>2 DEF Serve
  <2> QED BY <1>0, <1>2, <2>1, OutsideCounts DEF Serve, InTx
<1>3. CASE Crash
  <2>1. \A job \in Jobs : at'[job] = "down"
    BY <1>3 DEF Crash
  <2>2. left' \in [Jobs -> 0 .. Lines]
    BY <1>3, ModerationAssumption DEF Crash
  <2> QED BY <1>0, <1>3, <2>1, <2>2, EndCounts DEF Crash, InTx
<1>4. CASE UNCHANGED vars
  BY <1>4 DEF vars, CountInv
<1> QED BY <1>1, <1>2, <1>3, <1>4, PublicCounts, AdminCounts, ProceedCounts DEF Next

LEMMA BatchesCounted == CountInv => BatchesWhole
BY DEF CountInv, BatchesWhole, Whole, Batch

LEMMA CountedIsTyped == IInv /\ CountInv => TypeOK
<1> SUFFICES ASSUME IInv, CountInv PROVE TypeOK
  OBVIOUS
<1>1. ASSUME NEW d \in {db, tx}
      PROVE  /\ d.rows \in Seq([source : {"submission", "admin", "seed"}, of : Nat])
             /\ d.bank \subseteq DOMAIN d.rows
             /\ d.status \in Seq(Statuses)
  BY DEF CountInv, Sound, IsDb, Questions
<1>2. ASSUME NEW job \in Jobs
      PROVE  /\ at[job] \in Places /\ left[job] \in 0 .. Lines /\ subject[job] \in Nat
             /\ at[job] \in {"approving", "marking", "inserting", "committing"}
                  <=> holder = job
  BY DEF IInv, AtInv, InTx, CountInv
<1> QED BY <1>1, <1>2 DEF TypeOK, CountInv

-----------------------------------------------------------------------------
(* Part two: the life of the server.                                       *)

\* Where each process has come to.
PlaceInv ==
  /\ step \in [Processes -> Steps] /\ next \in [Processes -> Nat \ {0}]
  /\ \A p \in Processes :
       /\ 1 .. next[p] - 1 \subseteq schema.recorded
       /\ step[p] \in {"begun", "executed", "recorded"} => next[p] \in All
       /\ step[p] \in {"migrated", "ready"} => schema.recorded = All

OneWriter == \A p, q \in Processes : Writing(p) /\ Writing(q) => p = q

\* All that is recorded in s has been applied once, and nothing else at all.
Exact(s) == \A m \in All : s.applied[m] = IF m \in s.recorded THEN 1 ELSE 0

\* d is s with m applied once more.
AppliesMore(d, s, m) ==
  /\ d \in Schemas /\ d.recorded = s.recorded
  /\ d.applied[m] = s.applied[m] + 1
  /\ \A k \in All \ {m} : d.applied[k] = s.applied[k]

\* What a writer's draft has more than what is committed.
DraftInv ==
  /\ schema \in Schemas /\ draft \in Schemas /\ Exact(schema)
  /\ \A p \in Processes :
       /\ step[p] = "executed" => AppliesMore(draft, schema, next[p])
       /\ step[p] = "recorded" =>
            Exact(draft) /\ draft.recorded = schema.recorded \cup {next[p]}

SchemaInv == PlaceInv /\ OneWriter /\ DraftInv

AdminInv ==
  /\ session => password # 0
  /\ login # {} => password # 0
  /\ admitted # {} => password # 0

\* A step of one request that leaves the bank and the queue alone.
AccountStep(r) ==
  BeginLogin(r) \/ EndLogin(r) \/ Admit(r) \/ SetPassword(r) \/ Refuse(r)

SInv == IInv /\ CountInv /\ SchemaInv /\ AdminInv

\* What a process does when, beside what it has recorded.
LifeInv ==
  /\ next \in [Processes -> 1 .. Migrations + 1]
  /\ password \in Passwords \cup {0, 1} /\ session \in BOOLEAN
  /\ login \subseteq Requests /\ admitted \subseteq Requests \ login
  /\ ~Down => step[boot] \in {"migrated", "ready"}

-----------------------------------------------------------------------------
LEMMA ServerStartsWell == ServerInit => SInv /\ LifeInv
<1> SUFFICES ASSUME ServerInit PROVE SInv /\ LifeInv
  OBVIOUS
<1>1. IInv /\ CountInv
  BY StartsWell, CountStarts DEF ServerInit
<1>2. SchemaInv
  <2>1. Migrations \in Nat
    BY ServerAssumption
  <2>2. schema = [applied |-> [m \in All |-> 0], recorded |-> {}] /\ draft = schema
    BY DEF ServerInit
  <2>3. schema \in Schemas /\ Exact(schema)
    BY <2>2 DEF Schemas, Exact
  <2>4. PlaceInv
    BY <2>1 DEF ServerInit, PlaceInv, Steps
  <2>5. OneWriter /\ DraftInv
    BY <2>2, <2>3 DEF ServerInit, OneWriter, DraftInv, Writing
  <2> QED BY <2>4, <2>5 DEF SchemaInv
<1>3. AdminInv
  BY DEF ServerInit, AdminInv
<1>4. LifeInv
  <2>1. 1 \in 1 .. Migrations + 1
    BY ServerAssumption
  <2>2. Down
    BY DEF ServerInit, Init, Down
  <2> QED BY <2>1, <2>2 DEF ServerInit, LifeInv, Writing
<1> QED BY <1>1, <1>2, <1>3, <1>4 DEF SInv

\* A step of the server is a step of the bank and the queue, or none.
LEMMA StepIsModeration == [ServerNext]_serverVars => [Next]_vars
<1> SUFFICES ASSUME [ServerNext]_serverVars PROVE [Next]_vars
  OBVIOUS
<1>1. CASE \E p \in Processes :
             Launch(p) \/ Check(p) \/ Execute(p) \/ Record(p) \/ CommitMigration(p) \/ Die(p)
  BY <1>1 DEF Launch, Check, Execute, Record, CommitMigration, Die
<1>2. CASE BackUp \/ Prepare \/ Expire
  BY <1>2 DEF BackUp, Prepare, Expire
<1>3. CASE SeedBank \/ StartServing \/ Stop
  BY <1>3 DEF SeedBank, StartServing, Stop, Stops, Next, Proceed, Jobs
<1>4. CASE \E r \in Requests : AccountStep(r)
  BY <1>4 DEF AccountStep, BeginLogin, EndLogin, Admit, SetPassword, Refuse
<1>5. CASE \E r \in Requests : Act(r)
  BY <1>5 DEF Act, Next
<1>6. CASE \E job \in Jobs : Continue(job)
  BY <1>6 DEF Continue, Next
<1>7. CASE UNCHANGED serverVars
  BY <1>7 DEF serverVars
<1> QED BY <1>1, <1>2, <1>3, <1>4, <1>5, <1>6, <1>7 DEF ServerNext, AccountStep

LEMMA OneMoreApplied ==
  ASSUME NEW s \in Schemas, NEW m \in All
  PROVE  AppliesMore([s EXCEPT !.applied[m] = @ + 1], s, m)
<1> DEFINE counts == [s.applied EXCEPT ![m] = @ + 1]
<1>1. s.applied \in [All -> Nat] /\ s.recorded \in SUBSET All
  BY DEF Schemas
<1>2. [s EXCEPT !.applied[m] = @ + 1] = [applied |-> counts, recorded |-> s.recorded]
  <2> DEFINE Counts == [All -> Nat]  Names == SUBSET All
  <2>1. s \in [applied : Counts, recorded : Names]
    BY DEF Schemas
  <2> HIDE DEF Counts, Names
  <2> QED BY <2>1
<1>3. /\ counts \in [All -> Nat] /\ counts[m] = s.applied[m] + 1
      /\ \A k \in All \ {m} : counts[k] = s.applied[k]
  BY <1>1
<1> HIDE DEF counts
<1> QED BY <1>1, <1>2, <1>3 DEF AppliesMore, Schemas

LEMMA OneMoreRecorded ==
  ASSUME NEW s \in Schemas, NEW m \in All
  PROVE  LET e == [s EXCEPT !.recorded = @ \cup {m}]
         IN e \in Schemas /\ e.applied = s.applied /\ e.recorded = s.recorded \cup {m}
<1>1. [s EXCEPT !.recorded = @ \cup {m}]
        = [applied |-> s.applied, recorded |-> s.recorded \cup {m}]
  <2> DEFINE Counts == [All -> Nat]  Names == SUBSET All
  <2>1. s \in [applied : Counts, recorded : Names]
    BY DEF Schemas
  <2> HIDE DEF Counts, Names
  <2> QED BY <2>1
<1> QED BY <1>1 DEF Schemas

\* The steps that have to do with migrating, or with where a process is.
LEMMA StepOfProcess ==
  ASSUME [ServerNext]_serverVars
  PROVE  \/ \E p \in Processes : Launch(p) \/ Check(p) \/ Execute(p) \/ Record(p)
                                   \/ CommitMigration(p) \/ Die(p)
         \/ (BackUp \/ Prepare \/ Stop) /\ UNCHANGED <<schema, draft, next>>
         \/ UNCHANGED processVars
BY DEF ServerNext, SeedBank, StartServing, BeginLogin, EndLogin, Admit, SetPassword,
       Refuse, Act, Continue, Expire, serverVars, BackUp, Prepare, Stop, processVars

LEMMA PlaceKept == SchemaInv /\ [ServerNext]_serverVars => PlaceInv'
<1> SUFFICES ASSUME SchemaInv, [ServerNext]_serverVars PROVE PlaceInv'
  OBVIOUS
<1>0. /\ step \in [Processes -> Steps] /\ next \in [Processes -> Nat \ {0}]
      /\ Migrations \in Nat /\ PlaceInv /\ schema \in Schemas
  BY ServerAssumption DEF SchemaInv, PlaceInv, DraftInv
<1>1. ASSUME NEW p \in Processes, Launch(p)
      PROVE  PlaceInv'
  BY <1>0, <1>1 DEF Launch, To, PlaceInv, Steps, All
<1>2. ASSUME NEW p \in Processes, Check(p)
      PROVE  PlaceInv'
  <2>1. CASE next[p] > Migrations /\ To(p, "migrated") /\ UNCHANGED next
    <3>1. schema.recorded = All
      <4>1. next[p] \in Nat /\ next[p] > Migrations
        BY <1>0, <2>1
      <4>2. All \subseteq 1 .. next[p] - 1
        BY <1>0, <4>1 DEF All
      <4> QED BY <1>0, <4>2 DEF PlaceInv, Schemas
    <3> QED BY <1>0, <1>2, <2>1, <3>1 DEF Check, To, PlaceInv, Steps
  <2>2. CASE next[p] \in schema.recorded /\ Advance(p) /\ UNCHANGED step
    <3>1. 1 .. next[p] \subseteq schema.recorded
      BY <1>0, <2>2 DEF PlaceInv
    <3>2. step[p] = "checking" /\ next' = [next EXCEPT ![p] = next[p] + 1]
      BY <1>2, <2>2 DEF Check, Advance
    <3> QED BY <1>0, <1>2, <2>2, <3>1, <3>2 DEF Check, PlaceInv, Steps
  <2>3. CASE next[p] \in All \ schema.recorded /\ To(p, "begun") /\ UNCHANGED next
    BY <1>0, <1>2, <2>3 DEF Check, To, PlaceInv, Steps
  <2> QED BY <1>2, <2>1, <2>2, <2>3 DEF Check
<1>3. ASSUME NEW p \in Processes, Execute(p) \/ Record(p) \/ Die(p)
      PROVE  PlaceInv'
  <2>1. UNCHANGED <<schema, next>> /\ \E place \in {"executed", "recorded", "off"} :
          To(p, place) /\ (place # "off" => step[p] \in {"begun", "executed"})
    BY <1>3 DEF Execute, Record, Die
  <2> QED BY <1>0, <2>1 DEF To, PlaceInv, Steps
<1>4. ASSUME NEW p \in Processes, CommitMigration(p)
      PROVE  PlaceInv'
  <2>1. next[p] \in All /\ schema'.recorded = schema.recorded \cup {next[p]}
    BY <1>0, <1>4 DEF CommitMigration, SchemaInv, PlaceInv, DraftInv
  <2>2. schema'.recorded \subseteq All
    BY <1>4 DEF CommitMigration, SchemaInv, DraftInv, Schemas
  <2>3. 1 .. next[p] \subseteq schema'.recorded
    BY <1>0, <2>1 DEF PlaceInv
  <2>4. /\ next' = [next EXCEPT ![p] = next[p] + 1]
        /\ step' = [step EXCEPT ![p] = "checking"]
    BY <1>4 DEF CommitMigration, To, Advance
  <2> QED BY <1>0, <2>1, <2>2, <2>3, <2>4 DEF PlaceInv, Steps
<1>5. CASE (BackUp \/ Prepare \/ Stop) /\ UNCHANGED <<schema, draft, next>>
  BY <1>0, <1>5 DEF BackUp, Prepare, Stop, To, PlaceInv, Steps, Processes
<1>6. CASE UNCHANGED processVars
  BY <1>0, <1>6 DEF processVars, PlaceInv
<1> QED BY <1>1, <1>2, <1>3, <1>4, <1>5, <1>6, StepOfProcess

LEMMA OneWriterKept == SchemaInv /\ [ServerNext]_serverVars => OneWriter'
<1> SUFFICES ASSUME SchemaInv, [ServerNext]_serverVars PROVE OneWriter'
  OBVIOUS
<1>0. step \in [Processes -> Steps] /\ OneWriter
  BY DEF SchemaInv, PlaceInv
<1>1. CASE \E p \in Processes :
             Launch(p) \/ Check(p) \/ Record(p) \/ CommitMigration(p) \/ Die(p)
  BY <1>0, <1>1 DEF Launch, Check, Record, CommitMigration, Die, To, Writing, OneWriter
<1>2. CASE \E p \in Processes : Execute(p)
  BY <1>0, <1>2 DEF Execute, To, Writing, OneWriter
<1>3. CASE BackUp \/ Prepare \/ Stop
  BY <1>0, <1>3 DEF BackUp, Prepare, Stop, To, Writing, OneWriter
<1>4. CASE UNCHANGED step
  BY <1>0, <1>4 DEF Writing, OneWriter
<1> QED BY <1>1, <1>2, <1>3, <1>4, StepOfProcess DEF processVars

\* Two processes may have found one migration missing.  The second to get the lock
\* applies it to a copy in which it is recorded, and then cannot record it.
LEMMA DraftKept == SchemaInv /\ [ServerNext]_serverVars => DraftInv'
<1> SUFFICES ASSUME SchemaInv, [ServerNext]_serverVars PROVE DraftInv'
  OBVIOUS
<1>0. /\ step \in [Processes -> Steps] /\ DraftInv /\ OneWriter
      /\ schema \in Schemas /\ draft \in Schemas /\ Exact(schema)
  BY DEF SchemaInv, PlaceInv, DraftInv
<1>1. ASSUME NEW p \in Processes, ~Writing(p), UNCHANGED <<schema, draft>>,
             \/ \E place \in {"checking", "begun", "migrated", "ready", "off"} :
                  To(p, place) /\ \A q \in Processes \ {p} : next'[q] = next[q]
             \/ UNCHANGED step /\ \A q \in Processes \ {p} : next'[q] = next[q]
      PROVE  DraftInv'
  <2>1. \A q \in Processes : step'[q] \in {"executed", "recorded"} =>
          q # p /\ step'[q] = step[q] /\ next'[q] = next[q]
    BY <1>0, <1>1 DEF To, Writing
  <2> QED BY <1>0, <1>1, <2>1 DEF DraftInv
<1>2. ASSUME NEW p \in Processes, Launch(p) \/ Check(p)
      PROVE  DraftInv'
  <2>1. \A q \in Processes \ {p} : next'[q] = next[q]
    BY <1>2 DEF Launch, Check, Advance, SchemaInv, PlaceInv
  <2> QED BY <1>1, <1>2, <2>1 DEF Launch, Check, Writing
<1>3. ASSUME NEW p \in Processes, Execute(p)
      PROVE  DraftInv'
  <2>1. next[p] \in All
    BY <1>3 DEF Execute, SchemaInv, PlaceInv
  <2>2. AppliesMore(draft', schema, next[p])
    BY <1>0, <1>3, <2>1, OneMoreApplied DEF Execute
  <2>3. /\ step' = [step EXCEPT ![p] = "executed"] /\ UNCHANGED <<schema, next>>
        /\ \A q \in Processes : ~Writing(q)
    BY <1>3 DEF Execute, To
  <2>4. \A q \in Processes : step'[q] \in {"executed", "recorded"} =>
          q = p /\ step'[q] = "executed"
    BY <1>0, <2>3 DEF Writing
  <2> QED BY <1>0, <2>2, <2>3, <2>4 DEF DraftInv, AppliesMore
<1>4. ASSUME NEW p \in Processes, Record(p)
      PROVE  DraftInv'
  <2>1. next[p] \in All
    BY <1>4 DEF Record, SchemaInv, PlaceInv
  <2>2. AppliesMore(draft, schema, next[p]) /\ next[p] \notin schema.recorded
    BY <1>0, <1>4 DEF Record, Unrecorded, DraftInv, AppliesMore
  <2>3. /\ draft' \in Schemas /\ draft'.applied = draft.applied
        /\ draft'.recorded = schema.recorded \cup {next[p]}
    BY <1>0, <1>4, <2>1, <2>2, OneMoreRecorded DEF Record, AppliesMore
  <2>4. Exact(draft')
    <3>1. draft.applied[next[p]] = 1
      BY <1>0, <2>1, <2>2 DEF AppliesMore, Exact
    <3>2. ASSUME NEW k \in All
          PROVE  draft'.applied[k] = IF k \in draft'.recorded THEN 1 ELSE 0
      <4>1. CASE k = next[p]
        BY <2>3, <3>1, <4>1
      <4>2. CASE k # next[p]
        BY <1>0, <2>2, <2>3, <4>2 DEF AppliesMore, Exact
      <4> QED BY <4>1, <4>2
    <3> QED BY <3>2 DEF Exact
  <2>5. /\ step' = [step EXCEPT ![p] = "recorded"] /\ UNCHANGED <<schema, next>>
        /\ step[p] = "executed"
    BY <1>4 DEF Record, To
  <2>6. \A q \in Processes : step'[q] \in {"executed", "recorded"} =>
          q = p /\ step'[q] = "recorded"
    BY <1>0, <2>5 DEF Writing, OneWriter
  <2> QED BY <1>0, <2>3, <2>4, <2>5, <2>6 DEF DraftInv
<1>5. ASSUME NEW p \in Processes, CommitMigration(p)
      PROVE  DraftInv'
  <2>1. /\ step' = [step EXCEPT ![p] = "checking"] /\ schema' = draft /\ draft' = draft
        /\ step[p] = "recorded" /\ Exact(draft)
    BY <1>0, <1>5 DEF CommitMigration, To, DraftInv
  <2>2. \A q \in Processes : step'[q] \notin {"executed", "recorded"}
    BY <1>0, <2>1 DEF Writing, OneWriter
  <2> QED BY <1>0, <2>1, <2>2 DEF DraftInv
<1>6. ASSUME NEW p \in Processes, Die(p)
      PROVE  DraftInv'
  <2>1. CASE Writing(p)
    <3>1. step' = [step EXCEPT ![p] = "off"] /\ draft' = schema /\ UNCHANGED schema
      BY <1>6, <2>1 DEF Die, To
    <3>2. \A q \in Processes : step'[q] \notin {"executed", "recorded"}
      BY <1>0, <2>1, <3>1 DEF Writing, OneWriter
    <3> QED BY <1>0, <3>1, <3>2 DEF DraftInv
  <2>2. CASE ~Writing(p)
    BY <1>1, <1>6, <2>2 DEF Die
  <2> QED BY <2>1, <2>2
<1>7. CASE (BackUp \/ Prepare \/ Stop) /\ UNCHANGED <<schema, draft, next>>
  <2>1. \A q \in Processes : step'[q] \in {"executed", "recorded"} => step'[q] = step[q]
    BY <1>0, <1>7 DEF BackUp, Prepare, Stop, To
  <2> QED BY <1>0, <1>7, <2>1 DEF DraftInv
<1>8. CASE UNCHANGED processVars
  BY <1>0, <1>8 DEF processVars, DraftInv
<1> QED BY <1>2, <1>3, <1>4, <1>5, <1>6, <1>7, <1>8, StepOfProcess

LEMMA SchemaKept == SchemaInv /\ [ServerNext]_serverVars => SchemaInv'
BY PlaceKept, OneWriterKept, DraftKept DEF SchemaInv

\* The steps that have to do with the account and its sessions.
LEMMA StepOfAdmin ==
  ASSUME [ServerNext]_serverVars
  PROVE  \/ Prepare \/ Expire \/ Stop \/ \E r \in Requests : AccountStep(r)
         \/ UNCHANGED <<password, session, login>> /\ admitted' \subseteq admitted
BY DEF ServerNext, AccountStep, Launch, Check, Execute, Record, CommitMigration, Die,
       BackUp, SeedBank, StartServing, Act, Leaves, Continue, serverVars, adminVars

LEMMA AdminKept == AdminInv /\ [ServerNext]_serverVars => AdminInv'
<1> SUFFICES ASSUME AdminInv, [ServerNext]_serverVars PROVE AdminInv'
  OBVIOUS
<1>1. CASE Prepare
  BY <1>1 DEF Prepare, LoadSigningKey, Bootstrap, AdminInv
<1>2. CASE \E r \in Requests : AccountStep(r)
  BY <1>2, ServerAssumption DEF AccountStep, BeginLogin, EndLogin, Admit, SetPassword,
     Refuse, Leaves, AdminInv
<1>3. CASE Expire \/ Stop
  BY <1>3 DEF Expire, Stop, AdminInv
<1>4. CASE UNCHANGED <<password, session, login>> /\ admitted' \subseteq admitted
  BY <1>4 DEF AdminInv
<1>5. \/ Prepare \/ Expire \/ Stop \/ \E r \in Requests : AccountStep(r)
      \/ UNCHANGED <<password, session, login>> /\ admitted' \subseteq admitted
  BY StepOfAdmin
<1> QED BY <1>1, <1>2, <1>3, <1>4, <1>5

\* Nothing is under way, and nothing asked for, while all jobs are down.
LEMMA StepOfSomebody ==
  ASSUME IInv, Down
  PROVE  /\ \A job \in Jobs : ~Proceed(job)
         /\ \A r \in Requests : ~PublicRequest(r) /\ ~AdminRequest(r)
<1>1. \A job \in Jobs : at[job] = "down"
  BY DEF Down
<1>2. ASSUME NEW job \in Jobs, Proceed(job)
      PROVE  FALSE
  BY <1>1, <1>2 DEF Proceed, SubmitRow, SubmitRowFails, Passed, BeginApproval,
     ApprovalFails, InsertApproved, MarkApproved, InsertRow, Commit, Rollback, IInv,
     AtInv, InTx
<1> QED BY <1>1, <1>2 DEF Jobs, PublicRequest, Submit, SubmitBulk, AdminRequest, Create, Import,
        ReadForApproval, Reject, Delete

LEMMA LifeKept == SInv /\ LifeInv /\ [ServerNext]_serverVars => LifeInv'
<1> SUFFICES ASSUME SInv, LifeInv, [ServerNext]_serverVars PROVE LifeInv'
  OBVIOUS
<1>0. /\ step \in [Processes -> Steps] /\ next \in [Processes -> 1 .. Migrations + 1]
      /\ Migrations \in Nat /\ schema.recorded \subseteq All /\ boot \in Processes
      /\ backup # boot
  BY ServerAssumption DEF SInv, SchemaInv, PlaceInv, DraftInv, Schemas, LifeInv,
     Processes, Jobs
<1>1. next' \in [Processes -> 1 .. Migrations + 1]
  <2>1. ASSUME NEW p \in Processes, next[p] \in All, Advance(p)
        PROVE  next' \in [Processes -> 1 .. Migrations + 1]
    <3>1. next[p] + 1 \in 1 .. Migrations + 1
      BY <1>0, <2>1 DEF All
    <3> QED BY <1>0, <2>1, <3>1 DEF Advance
  <2>2. ASSUME NEW p \in Processes, Launch(p)
        PROVE  next' \in [Processes -> 1 .. Migrations + 1]
    <3>1. 1 \in 1 .. Migrations + 1
      BY <1>0
    <3> QED BY <1>0, <2>2, <3>1 DEF Launch
  <2>3. ASSUME NEW p \in Processes, Check(p)
        PROVE  next' \in [Processes -> 1 .. Migrations + 1]
    BY <1>0, <2>1, <2>3 DEF Check
  <2>4. ASSUME NEW p \in Processes, CommitMigration(p)
        PROVE  next' \in [Processes -> 1 .. Migrations + 1]
    BY <2>1, <2>4 DEF CommitMigration, SInv, SchemaInv, PlaceInv
  <2>5. \/ \E p \in Processes : Launch(p) \/ Check(p) \/ CommitMigration(p)
        \/ UNCHANGED next
    BY DEF ServerNext, Execute, Record, Die, BackUp, SeedBank, Prepare, StartServing,
           Stop, BeginLogin, EndLogin, Admit, SetPassword, Refuse, Act, Continue, Expire, serverVars,
           processVars
  <2> QED BY <1>0, <2>2, <2>3, <2>4, <2>5
<1>2. (/\ password \in Passwords \cup {0, 1} /\ session \in BOOLEAN
       /\ login \subseteq Requests /\ admitted \subseteq Requests \ login)'
  <2>1. CASE Prepare
    BY <2>1 DEF Prepare, LoadSigningKey, Bootstrap, LifeInv
  <2>2. CASE \E r \in Requests : AccountStep(r)
    BY <2>2 DEF AccountStep, BeginLogin, EndLogin, Admit, SetPassword, Refuse, Leaves,
                Ready, LifeInv
  <2>3. CASE Expire \/ Stop
    BY <2>3 DEF Expire, Stop, LifeInv
  <2>4. CASE UNCHANGED <<password, session, login>> /\ admitted' \subseteq admitted
    BY <2>4 DEF LifeInv
  <2> QED BY <2>1, <2>2, <2>3, <2>4, StepOfAdmin
<1>3. (~Down => step[boot] \in {"migrated", "ready"})'
  <2>1. ASSUME NEW p \in Processes, Launch(p) \/ Check(p) \/ Execute(p) \/ Record(p)
                                     \/ CommitMigration(p) \/ Die(p)
        PROVE  (~Down => step[boot] \in {"migrated", "ready"})'
    <3>1. Down' = Down /\ \A q \in Processes \ {p} : step'[q] = step[q]
      BY <1>0, <2>1 DEF Launch, Check, Execute, Record, CommitMigration, Die, To, vars, Down
    <3>2. CASE p = boot
      <4>1. step[boot] \notin {"migrated", "ready"} \/ Down
        BY <2>1, <3>2 DEF Launch, Check, Execute, Record, CommitMigration, Die
      <4> QED BY <3>1, <4>1 DEF LifeInv
    <3>3. CASE p # boot
      BY <1>0, <3>1, <3>3 DEF LifeInv
    <3> QED BY <3>2, <3>3
  <2>2. CASE BackUp
    BY <1>0, <2>2 DEF BackUp, To, vars, Down, LifeInv
  <2>3. CASE SeedBank \/ Prepare \/ StartServing
    BY <1>0, <2>3 DEF SeedBank, Prepare, StartServing, To, processVars
  <2>4. CASE Stop
    <3>1. CASE Crash
      BY <3>1 DEF Crash, Down
    <3>2. CASE Rollback(boot)
      <4>1. /\ at \in [Jobs -> Places] /\ boot \in Jobs /\ at[boot] \in InTx
            /\ at' = [at EXCEPT ![boot] = "down"]
        BY <3>2 DEF Rollback, Goes, Failed, SInv, IInv, AtInv, Jobs
      <4>2. \A r \in Requests : at[r] = "down"
        BY <4>1 DEF SInv, IInv, BootInv, InTx
      <4> QED BY <4>1, <4>2 DEF Down, Jobs
    <3> QED BY <2>4, <3>1, <3>2 DEF Stop, Stops
  <2>5. CASE \E r \in Requests : Act(r)
    BY <2>5, StepOfSomebody DEF Act, LifeInv, processVars, SInv
  <2>6. CASE \E job \in Jobs : Continue(job)
    BY <2>6, StepOfSomebody DEF Continue, LifeInv, processVars, SInv
  <2>7. CASE \E r \in Requests : AccountStep(r)
    BY <2>7 DEF AccountStep, BeginLogin, EndLogin, Admit, SetPassword, Refuse, vars,
                processVars, Down, LifeInv
  <2>8. CASE Expire \/ UNCHANGED serverVars
    BY <2>8 DEF Expire, serverVars, vars, processVars, Down, LifeInv
  <2> QED BY <2>1, <2>2, <2>3, <2>4, <2>5, <2>6, <2>7, <2>8 DEF ServerNext, AccountStep
<1> QED BY <1>1, <1>2, <1>3 DEF LifeInv

LEMMA ServerInvariance == ServerSpec => []SInv
<1>1. SInv /\ [ServerNext]_serverVars => SInv'
  <2> SUFFICES ASSUME SInv, [ServerNext]_serverVars PROVE SInv'
    OBVIOUS
  <2>1. [Next]_vars
    BY StepIsModeration
  <2>2. IInv' /\ CountInv'
    BY <2>1, KeepsIInv, KeepsCountInv DEF SInv
  <2> QED BY <2>2, SchemaKept, AdminKept DEF SInv
<1> QED BY <1>1, ServerStartsWell, PTL DEF ServerSpec

LEMMA ServerLives == ServerSpec => []LifeInv
BY ServerStartsWell, ServerInvariance, LifeKept, PTL DEF ServerSpec

-----------------------------------------------------------------------------
\* The server implements the bank and its moderation: start, crash, migration and
\* the admin's session only ever restrict what Moderation.tla allows.
THEOREM ServerModerates == ServerSpec => Spec
<1>1. ServerInit => Init
  BY DEF ServerInit
<1> QED BY <1>1, StepIsModeration, PTL DEF ServerSpec, Spec

\* No question from the queue is in the bank unless its submission was approved and
\* stays so (ApproveSubmission, RejectSubmission), through any overlap of reviews,
\* failures and crashes.
THEOREM BankFollowsReviews == ServerSpec => []OnlyApproved
<1>1. SInv => OnlyApproved
  BY BankIsModerated DEF SInv
<1> QED BY <1>1, ServerInvariance, PTL

\* No submission is marked as approved without its question having been inserted:
\* ApproveSubmission does both in one transaction, or neither.
THEOREM ApprovalsReachTheBank == ServerSpec => []ApprovedIsInserted
<1>1. SInv => ApprovedIsInserted
  BY BankIsModerated DEF SInv
<1> QED BY <1>1, ServerInvariance, PTL

\* A seed or an import has all its questions in the database or none of them
\* (BulkInsert), for batches of any length and whatever fails or crashes in them.
THEOREM BatchesComeWhole == ServerSpec => []BatchesWhole
<1>1. SInv => BatchesWhole
  BY BatchesCounted DEF SInv
<1> QED BY <1>1, ServerInvariance, PTL

\* The type invariant: of the bank, the queue and the transactions, of which there is
\* one at a time, and of main and the backup, of which one at a time is writing, with
\* nothing served while main is not ready.
THEOREM ServerTyped == ServerSpec => []ServerTypeOK
<1>1. SInv /\ LifeInv => ServerTypeOK
  <2> SUFFICES ASSUME SInv, LifeInv PROVE ServerTypeOK
    OBVIOUS
  <2> DEFINE Writers == {p \in Processes : step[p] \in {"executed", "recorded"}}
  <2>1. Cardinality(Writers) <= 1
    <3>1. CASE Writers = {}
      BY <3>1, FS_EmptySet
    <3>2. CASE Writers # {}
      <4>1. PICK p : p \in Writers
        BY <3>2
      <4>2. Writers = {p}
        BY <4>1 DEF SInv, SchemaInv, OneWriter, Writing
      <4>3. Cardinality({p}) = 1
        BY FS_Singleton
      <4> QED BY <4>2, <4>3
    <3> QED BY <3>1, <3>2
  <2>2. TypeOK
    BY CountedIsTyped DEF SInv
  <2> QED BY <2>1, <2>2 DEF ServerTypeOK, SInv, SchemaInv, PlaceInv, DraftInv, LifeInv
<1> QED BY <1>1, ServerInvariance, ServerLives, PTL

\* A migration is applied exactly once if it is recorded, and else not at all: however
\* the statements of the two processes in migrate interleave, whether or not its
\* statements can be repeated, and whichever process is killed at any point of it.
THEOREM MigrationsRecorded == ServerSpec => []SchemaMatchesRecord
<1>1. SInv => SchemaMatchesRecord
  BY DEF SInv, SchemaInv, DraftInv, Exact, SchemaMatchesRecord
<1> QED BY <1>1, ServerInvariance, PTL

\* No session is given out, and no admin's request let in, before Bootstrap has made
\* the account.
THEOREM SessionsNeedAccount == ServerSpec => []NoSessionWithoutAccount
<1>1. SInv => NoSessionWithoutAccount
  BY DEF SInv, AdminInv, NoSessionWithoutAccount
<1> QED BY <1>1, ServerInvariance, PTL

\* Requests are served only by a server whose migrations are all applied and whose
\* bank is not empty: main serves after migrate and seed, each of which may have
\* been cut short by a crash at the last start.
THEOREM ReadyWhenServing == ServerSpec => ServesReady
<1> DEFINE Begins == \E r \in Requests : at[r] = "down" /\ at'[r] = "idle"
<1>1. SInv /\ [ServerNext]_serverVars =>
        [Begins => (\A m \in All : schema.applied[m] = 1) /\ db'.bank # {}]_serverVars
  <2> SUFFICES ASSUME SInv, [ServerNext]_serverVars,
                      NEW r \in Requests, at[r] = "down", at'[r] = "idle"
               PROVE  (\A m \in All : schema.applied[m] = 1) /\ db'.bank # {}
    OBVIOUS
  <2>1. StartServing
    <3>1. at \in [Jobs -> Places] /\ r \in Jobs /\ r # boot
      BY ModerationAssumption DEF SInv, IInv, AtInv, Jobs
    <3>2. \A job \in Jobs : at[job] \in InTx <=> holder = job
      BY DEF SInv, IInv, AtInv
    <3>3. \A job \in Jobs : ~Proceed(job)
      <4> SUFFICES ASSUME NEW job \in Jobs, Proceed(job) PROVE FALSE
        OBVIOUS
      <4>1. job # r
        <5> SUFFICES ASSUME job = r PROVE FALSE
          OBVIOUS
        <5>1. at[r] \notin InTx /\ holder # r
          BY <3>1, <3>2 DEF InTx
        <5> QED BY <5>1 DEF Proceed, SubmitRow, SubmitRowFails, Passed, BeginApproval,
                            ApprovalFails, InsertApproved, MarkApproved, InsertRow,
                            Commit, Rollback
      <4>2. at'[r] = at[r]
        BY <3>1, <4>1 DEF Proceed, SubmitRow, SubmitRowFails, Passed, Queue,
             BeginApproval, Begin, ApprovalFails, InsertApproved, MarkApproved,
             InsertRow, Commit, Rollback, Goes
      <4> QED BY <4>2
    <3>4. \A q \in Requests : ~(PublicRequest(q) \/ AdminRequest(q))
      <4> SUFFICES ASSUME NEW q \in Requests, PublicRequest(q) \/ AdminRequest(q)
                   PROVE  FALSE
        OBVIOUS
      <4>1. at[q] = "idle"
        BY DEF PublicRequest, Submit, SubmitBulk, AdminRequest, Create, Import,
               ReadForApproval, Reject, Delete
      <4>2. at'[r] = at[r]
        BY <3>1, <4>1 DEF PublicRequest, Submit, SubmitBulk, AdminRequest, Create,
             Import, BeginBatch, Begin, ReadForApproval, Reject, Delete, Goes
      <4> QED BY <4>2
    <3>5. ~Seed /\ ~Crash
      <4>1. Seed => at'[r] = at[r]
        BY <3>1 DEF Seed, BeginBatch, Begin, Goes
      <4>2. Crash => at'[r] = "down"
        BY <3>1 DEF Crash
      <4> QED BY <4>1, <4>2
    <3>6. at' # at
      OBVIOUS
    <3>7. ~UNCHANGED vars
      BY <3>6 DEF vars
    <3> QED BY <3>3, <3>4, <3>5, <3>7
            DEF ServerNext, Launch, Check, Execute, Record, CommitMigration, Die, BackUp,
                SeedBank, Prepare, Stop, Stops, BeginLogin, EndLogin, Admit, SetPassword,
                Refuse, Act, Continue, Expire, serverVars, Proceed, Jobs
  <2>2. step[boot] = "ready" /\ Serve
    BY <2>1 DEF StartServing
  <2>3. \A m \in All : schema.applied[m] = 1
    BY <2>2 DEF SInv, SchemaInv, PlaceInv, DraftInv, Exact, Processes
  <2>4. db.bank # {}
    BY <2>2 DEF Serve, Seeded, MustSeed, SInv, IInv, BootInv
  <2> QED BY <2>2, <2>3, <2>4 DEF Serve
<1> QED BY <1>1, ServerInvariance, PTL DEF ServerSpec, ServesReady
=============================================================================
