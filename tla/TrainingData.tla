---------------------------- MODULE TrainingData ----------------------------
(***************************************************************************)
(* The tables a training reads, and the commands that fill them: the two   *)
(* generators (data_generator, generate_50k.py), the features computed     *)
(* locally (main.py) or by retrain_large.py, and the dataset builder.      *)
(* Each is a script an operator starts in a terminal.  It commits as it    *)
(* goes, several times per table, and nothing records how far it came.     *)
(*                                                                         *)
(* The Spark batch is not modelled: compute_customer_segment selects the   *)
(* columns employment_type and industry_sector, which customers lacks, so  *)
(* it raises before it writes, and full-pipeline computes locally.  Nor is *)
(* Kafka, to which data_generator publishes last and whose errors it       *)
(* catches.  The trainings themselves are module ModelFiles.               *)
(***************************************************************************)
EXTENDS Integers, Sequences

CONSTANTS Terminal,  \* where commands run, one at a time each
          Command,   \* the commands operators use
          Size,      \* customers a generator makes
          Borrower,  \* which of them have a loan
          Rows,      \* rows a customer has in a table
          MaxRuns,   \* bound: commands started in a behaviour
          MaxFaults  \* bound: kills and failed accesses in a behaviour

VARIABLES proc,      \* the command each terminal runs, its place and its locals
          run,       \* how many commands have been started
          customers, \* table customers
          rows,      \* the other generated tables: what they hold of each customer
          schema,    \* whose columns payment_events has
          stream,    \* table streaming_features
          batch,     \* table batch_features
          missed,    \* history: customers who missed a payment
          complete,  \* history: runs whose generation has saved all it made
          alone,     \* history: has no command begun beside another?
          faults     \* history: kills and failed accesses so far

generated == <<customers, rows, schema>>
features == <<stream, batch>>
history == <<missed, complete, alone>>
vars == <<proc, run, generated, features, history, faults>>

\* What each command does, as the accesses it makes.
Program ==
  [generate_data |-> <<"customers", "transactions", "balances", "events">>,
   full_pipeline |-> <<"customers", "transactions", "balances", "events",
                       "load", "aggregate", "batch", "stream",
                       "read_stream", "read_batch", "read_events">>,
   train |-> <<"read_stream", "read_batch", "read_events">>,
   retrain_large |-> <<"drop", "load", "aggregate", "stream", "batch",
                       "read_stream", "read_batch", "read_events">>,
   generate_50k |-> <<"create", "truncate",
                      "customers", "transactions", "balances", "events",
                      "sql_stream", "sql_batch", "validate">>]

ASSUME TrainingDataAssumption ==
  /\ Command \subseteq DOMAIN Program
  /\ Size \in Nat \ {0} /\ Borrower \subseteq 1..Size /\ Rows \in Nat \ {0}
  /\ MaxRuns \in Nat /\ MaxFaults \in Nat

Run == 1..MaxRuns
Customer == Run \X (1..Size)
\* How many of the rows of a customer a table holds.
Portion == 0..Rows
Saved == {"transactions", "balances", "events"}
FeatureRow == [cust: Customer, by: Run, saw: Portion]
Table == [made: {"none", "init", "local", "retrain", "sql"}, rows: SUBSET FeatureRow]
\* A row of the dataset; settled: its customer's generation was complete, and the
\* customer still in the table, when the labels were read (history).
DataRow == [cust: Customer, stream: Run, batch: Run, saw: Portion,
            label: BOOLEAN, settled: BOOLEAN]
\* step 0: nothing runs; after the last one: done, with the dataset in hand.
ProcState == [cmd: Command, run: Run, step: Nat \ {0}, part: 1..Size,
              frame: SUBSET FeatureRow, data: SUBSET DataRow]
Idle == [step |-> 0, data |-> {}]

TypeOK ==
  /\ run \in 0..MaxRuns
  /\ proc \in [Terminal -> {Idle} \cup ProcState]
  /\ \A p \in Terminal :
       proc[p] # Idle => proc[p].run <= run /\ proc[p].step <= Len(Program[proc[p].cmd]) + 1
  /\ customers \subseteq Customer
  /\ rows \in [Saved -> [Customer -> Portion]]
  /\ schema \in {"none", "init", "large"}
  /\ stream \in Table /\ batch \in Table
  /\ missed \subseteq Customer /\ complete \subseteq Run
  /\ alone \in BOOLEAN
  /\ faults \in 0..MaxFaults

NoRows == [t \in Saved |-> [c \in Customer |-> 0]]

\* psql runs init_db.sql to its end.  The entry point of the postgres image stops at
\* its first error, in line 311, before the table payment_events.
Init ==
  /\ proc = [p \in Terminal |-> Idle]
  /\ run = 0
  /\ customers = {} /\ rows = NoRows
  /\ schema \in {"none", "init"}
  /\ stream = [made |-> "init", rows |-> {}]
  /\ batch = [made |-> "init", rows |-> {}]
  /\ missed = {} /\ complete = {}
  /\ alone = TRUE
  /\ faults = 0

Running(p) == proc[p] # Idle /\ proc[p].step <= Len(Program[proc[p].cmd])
Done(p) == proc[p] # Idle /\ ~Running(p)
At(p, step) == Running(p) /\ Program[proc[p].cmd][proc[p].step] = step
Fault == faults < MaxFaults /\ faults' = faults + 1

\* p goes n accesses on.
Advance(p, n) == proc' = [proc EXCEPT ![p].step = @ + n]
\* p goes on to the next access with a frame in memory.
Holding(p, frame) == proc' = [proc EXCEPT ![p].step = @ + 1, ![p].frame = frame]

-----------------------------------------------------------------------------
(* The generators.                                                         *)

\* main.py generates all customers at once, generate_50k.py one batch after the
\* other: here of one customer each.
Parts(cmd) == IF cmd = "generate_50k" THEN Size ELSE 1
generate_customers == 1..Size
generate_customer_batch(part) == {part}

\* Ids are random, so those of two runs differ.
Members(p) ==
  {proc[p].run} \X
    (IF proc[p].cmd = "generate_50k" THEN generate_customer_batch(proc[p].part)
     ELSE generate_customers)

Start(p, cmd) ==
  /\ ~Running(p)
  /\ run < MaxRuns
  /\ run' = run + 1
  /\ proc' = [proc EXCEPT ![p] = [cmd |-> cmd, run |-> run + 1, step |-> 1, part |-> 1,
                                  frame |-> {}, data |-> {}]]
  /\ alone' = (alone /\ \A q \in Terminal : ~Running(q))
  /\ UNCHANGED <<generated, features, missed, complete, faults>>

\* Products are drawn with the customer, loans among them.
HasLoan(c) == c[2] \in Borrower

\* Whose months may end with an instalment the balance does not cover.
MayMiss(p) == {c \in Members(p) : HasLoan(c)}

\* Months of days, computed in memory.
Simulate(p) == \E m \in SUBSET MayMiss(p) : missed' = missed \cup m

\* One transaction; then merchant risk goes to Redis, which changes nothing here, and
\* the months are simulated.
SaveCustomers(p) ==
  /\ At(p, "customers")
  /\ customers' = customers \cup Members(p)
  /\ Simulate(p)
  /\ Advance(p, 1)
  /\ UNCHANGED <<run, rows, schema, features, complete, alone, faults>>

\* The customers who have rows for the table; nobody has missed a payment: none.
Listed(p, t) == IF t = "events" THEN Members(p) \cap missed ELSE Members(p)

\* The foreign key on customers, and the columns of payment_events: init_db.sql and
\* generate_50k.py create different ones, and each generator inserts its own.
Accepted(p, t) ==
  \/ Listed(p, t) = {}
  \/ /\ Members(p) \subseteq customers
     /\ t = "events" => schema = (IF proc[p].cmd = "generate_50k" THEN "large" ELSE "init")

\* How far the list of rows is in the table after another chunk.
Progress(p, t) ==
  {new \in [Listed(p, t) -> Portion] :
     /\ \A c \in Listed(p, t) : new[c] >= rows[t][c]
     /\ \A c, d \in Listed(p, t) : c[2] < d[2] /\ new[d] > 0 => new[c] = Rows
     /\ new # [c \in Listed(p, t) |-> rows[t][c]] \/ Listed(p, t) = {}
     /\ t = "events" /\ proc[p].cmd = "generate_50k" => \A c \in Listed(p, t) : new[c] = Rows}

\* Mutant of NextTable: the loop goes round once too often.
OneMore(p, t) ==
  IF t = "events" /\ proc[p].part <= Parts(proc[p].cmd) /\ Parts(proc[p].cmd) > 1
  THEN proc' = [proc EXCEPT ![p].step = @ - 3, ![p].part = @ + 1]
  ELSE Advance(p, 1)

\* The loop of generate_50k.py goes round; otherwise the next access follows.
NextTable(p, t) ==
  IF t = "events" /\ proc[p].part < Parts(proc[p].cmd)
  THEN proc' = [proc EXCEPT ![p].step = @ - 3, ![p].part = @ + 1]
  ELSE Advance(p, 1)

\* A chunk of a table is committed; the last one ends the table, and the events of
\* the last batch the generation.
Save(p, t) ==
  /\ At(p, t)
  /\ Accepted(p, t)
  /\ \E new \in Progress(p, t) :
       LET ended == \A c \in Listed(p, t) : new[c] = Rows IN
       /\ rows' = [rows EXCEPT ![t] =
                     [c \in Customer |-> IF c \in Listed(p, t) THEN new[c] ELSE rows[t][c]]]
       /\ IF ended THEN NextTable(p, t) ELSE UNCHANGED proc
       /\ complete' = IF ended /\ t = "events" /\ proc[p].part = Parts(proc[p].cmd)
                      THEN complete \cup {proc[p].run} ELSE complete
  /\ UNCHANGED <<run, customers, schema, features, missed, alone, faults>>

\* generate_50k.py begins with the table payment_events, if there is none.
Create(p) ==
  /\ At(p, "create")
  /\ schema' = IF schema = "none" THEN "large" ELSE schema
  /\ Advance(p, 1)
  /\ UNCHANGED <<run, customers, rows, features, history, faults>>

\* Mutant of Truncate: each table in a transaction of its own.
TruncateEach(p) ==
  /\ At(p, "truncate")
  /\ \/ customers' = {} /\ UNCHANGED faults
     \/ UNCHANGED customers /\ Fault
  /\ rows' = NoRows
  /\ batch' = [batch EXCEPT !.rows = {}]
  /\ stream' = [stream EXCEPT !.rows = {}]
  /\ Advance(p, 1)
  /\ UNCHANGED <<run, schema, history>>

\* A TRUNCATE of each table in one transaction, customers the last, with all that
\* refers to it.  An error is printed and rolls back the tables emptied so far; the
\* loop goes on.
Truncate(p) ==
  /\ At(p, "truncate")
  /\ LET dropped == {t \in {"stream", "batch"} :
                       (IF t = "stream" THEN stream ELSE batch).made = "none"} IN
     \E failing \in SUBSET {"stream", "batch", "customers"} :
       /\ dropped \subseteq failing
       /\ IF failing = dropped THEN UNCHANGED faults ELSE Fault
       /\ customers' = IF "customers" \in failing THEN customers ELSE {}
       /\ rows' = IF "customers" \in failing THEN rows ELSE NoRows
       /\ batch' = IF failing \cap {"batch", "customers"} # {} THEN batch
                   ELSE [batch EXCEPT !.rows = {}]
       /\ stream' = IF failing # {} THEN stream ELSE [stream EXCEPT !.rows = {}]
  /\ Advance(p, 1)
  /\ UNCHANGED <<run, schema, history>>

-----------------------------------------------------------------------------
(* Features.                                                               *)

\* The customers are read ...
Load(p) ==
  /\ At(p, "load")
  /\ Holding(p, {[cust |-> c, by |-> proc[p].run, saw |-> 0] : c \in customers})
  /\ UNCHANGED <<run, generated, features, history, faults>>

\* ... and then their transactions (retrain_large.py asks three times, for its three
\* windows; once here).  Without any, main.py computes nothing and trains
\* on what is there.
Aggregate(p) ==
  /\ At(p, "aggregate")
  /\ IF proc[p].cmd = "full_pipeline" /\ \A c \in Customer : rows["transactions"][c] = 0
     THEN proc' = [proc EXCEPT ![p].step = @ + 3, ![p].frame = {}]
     ELSE Holding(p, {[f EXCEPT !.saw = rows["transactions"][f.cust]] : f \in proc[p].frame})
  /\ UNCHANGED <<run, generated, features, history, faults>>

\* Mutant of Drop: the streaming features stay.
DropBatch(p) ==
  /\ At(p, "drop")
  /\ batch' = [made |-> "none", rows |-> {}]
  /\ Advance(p, 1)
  /\ UNCHANGED <<run, generated, stream, history, faults>>

\* retrain_large.py drops both tables before it computes.
Drop(p) ==
  /\ At(p, "drop")
  /\ stream' = [made |-> "none", rows |-> {}]
  /\ batch' = [made |-> "none", rows |-> {}]
  /\ Advance(p, 1)
  /\ UNCHANGED <<run, generated, history, faults>>

\* An append needs a table with its columns, or none: those of main.py's batch have
\* other types, and those of generate_50k.py other names.
Fits(table, name) ==
  table.made \in {"none", "retrain"} \/ (name = "stream" /\ table.made = "local")

\* Mutant of Written: main.py appends as well.
Appended(p, table) ==
  [made |-> IF table.made = "none" THEN "retrain" ELSE table.made,
   rows |-> table.rows \cup proc[p].frame]

\* to_sql, one transaction: main.py replaces the table, retrain_large.py appends.
Written(p, table) ==
  IF proc[p].cmd = "full_pipeline" THEN [made |-> "local", rows |-> proc[p].frame]
  ELSE [made |-> IF table.made = "none" THEN "retrain" ELSE table.made,
        rows |-> table.rows \cup proc[p].frame]

WriteStream(p) ==
  /\ At(p, "stream")
  /\ proc[p].cmd = "full_pipeline" \/ Fits(stream, "stream")
  /\ stream' = Written(p, stream)
  /\ Advance(p, 1)
  /\ UNCHANGED <<run, generated, batch, history, faults>>

WriteBatch(p) ==
  /\ At(p, "batch")
  /\ proc[p].cmd = "full_pipeline" \/ Fits(batch, "batch")
  /\ batch' = Written(p, batch)
  /\ Advance(p, 1)
  /\ UNCHANGED <<run, generated, stream, history, faults>>

\* generate_50k.py: DROP, CREATE and INSERT ... SELECT in one transaction per table.
Selected(p) ==
  [made |-> "sql",
   rows |-> {[cust |-> c, by |-> proc[p].run, saw |-> rows["transactions"][c]] : c \in customers}]

SqlFeatures(p) ==
  /\ \/ At(p, "sql_stream") /\ stream' = Selected(p) /\ UNCHANGED batch
     \/ At(p, "sql_batch") /\ batch' = Selected(p) /\ UNCHANGED stream
  /\ Advance(p, 1)
  /\ UNCHANGED <<run, generated, history, faults>>

\* An exception in either is a warning, and the command goes on to its validation.
SqlFails(p) ==
  /\ Fault
  /\ \/ At(p, "sql_stream") /\ Advance(p, 2)
     \/ At(p, "sql_batch") /\ Advance(p, 1)
  /\ UNCHANGED <<run, generated, features, history>>

-----------------------------------------------------------------------------
(* The dataset.                                                            *)

ReadStream(p) ==
  /\ At(p, "read_stream")
  /\ stream.made # "none"
  /\ Holding(p, stream.rows)
  /\ UNCHANGED <<run, generated, features, history, faults>>

\* The inner join of the two.
Merged(frame, other) ==
  {[cust |-> pair[1].cust, stream |-> pair[1].by, batch |-> pair[2].by, saw |-> pair[1].saw,
    label |-> FALSE, settled |-> FALSE] :
     pair \in {q \in frame \X other : q[1].cust = q[2].cust}}

\* Nothing to join: there is no dataset, and the training returns.
ReadBatch(p) ==
  /\ At(p, "read_batch")
  /\ batch.made # "none"
  /\ LET data == Merged(proc[p].frame, batch.rows) IN
     proc' = [proc EXCEPT ![p].step = IF data = {} THEN @ + 2 ELSE @ + 1,
                          ![p].frame = {}, ![p].data = data]
  /\ UNCHANGED <<run, generated, features, history, faults>>

\* Whoever has an event in payment_events is labelled 1, all others 0.
Labelled(d) ==
  [d EXCEPT !.label = rows["events"][d.cust] > 0,
            !.settled = d.cust[1] \in complete /\ d.cust \in customers]

ReadEvents(p) ==
  /\ At(p, "read_events")
  /\ schema # "none"
  /\ proc' = [proc EXCEPT ![p].step = @ + 1, ![p].data = {Labelled(d) : d \in proc[p].data}]
  /\ UNCHANGED <<run, generated, features, history, faults>>

-----------------------------------------------------------------------------
(* Ends.                                                                   *)

\* PostgreSQL refuses an access.  The last query of generate_50k.py always is: it
\* names employment_type.
Refused(p) ==
  \/ \E t \in Saved : At(p, t) /\ ~Accepted(p, t)
  \/ proc[p].cmd = "retrain_large" /\ At(p, "stream") /\ ~Fits(stream, "stream")
  \/ proc[p].cmd = "retrain_large" /\ At(p, "batch") /\ ~Fits(batch, "batch")
  \/ At(p, "read_stream") /\ stream.made = "none"
  \/ At(p, "read_batch") /\ batch.made = "none"
  \/ At(p, "read_events") /\ schema = "none"
  \/ At(p, "validate")

\* Nothing catches it: the command ends, what it has committed stays.
Raise(p) ==
  /\ Running(p) /\ Refused(p)
  /\ proc' = [proc EXCEPT ![p] = Idle]
  /\ UNCHANGED <<run, generated, features, history, faults>>

\* The command is killed, or an access fails.
Die(p) ==
  /\ Running(p)
  /\ Fault
  /\ proc' = [proc EXCEPT ![p] = Idle]
  /\ UNCHANGED <<run, generated, features, history>>

Generate(p) ==
  \/ Create(p) \/ Truncate(p) \/ SaveCustomers(p) \/ \E t \in Saved : Save(p, t)

Compute(p) ==
  \/ Load(p) \/ Aggregate(p) \/ Drop(p) \/ WriteStream(p) \/ WriteBatch(p)
  \/ SqlFeatures(p) \/ SqlFails(p)

Build(p) == ReadStream(p) \/ ReadBatch(p) \/ ReadEvents(p)

Next ==
  \E p \in Terminal :
    \/ \E cmd \in Command : Start(p, cmd)
    \/ Generate(p) \/ Compute(p) \/ Build(p) \/ Raise(p) \/ Die(p)

Spec == Init /\ [][Next]_vars

-----------------------------------------------------------------------------
(* Properties.                                                             *)

\* A customer is trained on with the wrong label only if, when the labels were read,
\* the customer's generation had been cut short or was still running, or the customer
\* had been truncated: however commands overlap, die and are repeated, and whichever
\* columns payment_events has (dataset_builder.py:55, run_generator.py:96-98).
LabelsTrue ==
  \A p \in Terminal : \A d \in proc[p].data :
    Done(p) /\ d.settled => (d.label <=> d.cust \in missed)

\* Commands used one after the other, whatever died before: a full pipeline and a large
\* retraining that reach their training train on every customer there is, on features of
\* their own only, and on the whole history of every customer whose generation is
\* complete (main.py:148-157).
PipelineCovers ==
  \A p \in Terminal :
    (/\ Done(p) /\ proc[p].run = run /\ alone
     /\ proc[p].cmd \in {"full_pipeline", "retrain_large"}) =>
       /\ {d.cust : d \in proc[p].data} = customers
       /\ \A d \in proc[p].data :
            /\ d.stream = run /\ d.batch = run
            /\ d.settled => d.saw = Rows

\* Commands used one after the other, whatever dies in between: no customer is in a
\* dataset twice, although retrain_large.py appends (retrain_large.py:16-19, 89, 108).
EachOnce ==
  \A p \in Terminal : alone /\ Done(p) =>
    \A d, e \in proc[p].data : d.cust = e.cust => d = e

=============================================================================
