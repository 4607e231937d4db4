--------------------------- MODULE TrainingProofs ---------------------------
(***************************************************************************)
(* Theorems about TrainingData, for any numbers of terminals, commands,    *)
(* customers, rows and faults.                                             *)
(***************************************************************************)
EXTENDS TrainingData, TLAPS

-----------------------------------------------------------------------------
(* Where the accesses are in the programs.                                 *)

\* The last access of a generation.
GenEnd == [generate_data |-> 4, full_pipeline |-> 4, train |-> 0, retrain_large |-> 0,
           generate_50k |-> 6]

GenStep == {"create", "truncate", "customers", "transactions", "balances", "events"}

LEMMA Places ==
  ASSUME NEW cmd \in Command, NEW n \in Nat \ {0}, n <= Len(Program[cmd])
  PROVE  /\ Program[cmd][n] \in GenStep <=> n <= GenEnd[cmd]
         /\ Program[cmd][n] = "events" <=> n = GenEnd[cmd]
         /\ Program[cmd][n] = "aggregate" /\ cmd = "full_pipeline" =>
              n + 3 <= Len(Program[cmd]) + 1
         /\ cmd = "retrain_large" =>
              /\ Program[cmd][n] = "drop" <=> n = 1
              /\ Program[cmd][n] = "load" <=> n = 2
              /\ Program[cmd][n] = "aggregate" <=> n = 3
              /\ Program[cmd][n] = "stream" <=> n = 4
              /\ Program[cmd][n] = "batch" <=> n = 5
         /\ cmd \in {"generate_data", "train", "generate_50k"} =>
              Program[cmd][n] \notin {"drop", "load", "aggregate", "stream", "batch"}
         /\ cmd = "full_pipeline" =>
              /\ Program[cmd][n] # "drop"
              /\ Program[cmd][n] = "transactions" <=> n = 2
              /\ Program[cmd][n] = "load" <=> n = 5
              /\ Program[cmd][n] = "aggregate" <=> n = 6
              /\ Program[cmd][n] = "batch" <=> n = 7
              /\ Program[cmd][n] = "stream" <=> n = 8
              /\ Program[cmd][n] = "read_stream" <=> n = 9
         /\ Program[cmd][n] = "sql_stream" => n + 2 <= Len(Program[cmd]) + 1
         /\ Program[cmd][n] = "read_batch" => n + 2 <= Len(Program[cmd]) + 1
<1> cmd \in DOMAIN Program
  BY TrainingDataAssumption
<1>1. CASE cmd = "generate_data"
  <2>1. Program[cmd] = <<"customers", "transactions", "balances", "events">>
    BY <1>1 DEF Program
  <2>2. n \in 1..4
    BY <2>1
  <2> QED
    BY <1>1, <2>1, <2>2 DEF GenEnd, GenStep
<1>2. CASE cmd = "full_pipeline"
  <2>1. Program[cmd] = <<"customers", "transactions", "balances", "events",
                         "load", "aggregate", "batch", "stream",
                         "read_stream", "read_batch", "read_events">>
    BY <1>2 DEF Program
  <2>2. n \in 1..11 /\ Len(Program[cmd]) = 11
    BY <2>1
  <2> QED
    BY <1>2, <2>1, <2>2 DEF GenEnd, GenStep
<1>3. CASE cmd = "train"
  <2>1. Program[cmd] = <<"read_stream", "read_batch", "read_events">>
    BY <1>3 DEF Program
  <2>2. n \in 1..3 /\ Len(Program[cmd]) = 3
    BY <2>1
  <2> QED
    BY <1>3, <2>1, <2>2 DEF GenEnd, GenStep
<1>4. CASE cmd = "retrain_large"
  <2>1. Program[cmd] = <<"drop", "load", "aggregate", "stream", "batch",
                         "read_stream", "read_batch", "read_events">>
    BY <1>4 DEF Program
  <2>2. n \in 1..8 /\ Len(Program[cmd]) = 8
    BY <2>1
  <2> QED
    BY <1>4, <2>1, <2>2 DEF GenEnd, GenStep
<1>5. CASE cmd = "generate_50k"
  <2>1. Program[cmd] = <<"create", "truncate",
                         "customers", "transactions", "balances", "events",
                         "sql_stream", "sql_batch", "validate">>
    BY <1>5 DEF Program
  <2>2. n \in 1..9 /\ Len(Program[cmd]) = 9
    BY <2>1
  <2> QED
    BY <1>5, <2>1, <2>2 DEF GenEnd, GenStep
<1> QED
  BY <1>1, <1>2, <1>3, <1>4, <1>5 DEF Program

LEMMA Lengths ==
  ASSUME NEW cmd \in Command
  PROVE  /\ Len(Program[cmd]) \in Nat \ {0} /\ GenEnd[cmd] \in Nat
         /\ GenEnd[cmd] <= Len(Program[cmd])
         /\ GenEnd[cmd] = 6 <=> cmd = "generate_50k"
<1>1. cmd \in DOMAIN Program
  BY TrainingDataAssumption
<1>2. Len(Program["generate_data"]) = 4
  BY DEF Program
<1>3. Len(Program["full_pipeline"]) = 11
  BY DEF Program
<1>4. Len(Program["train"]) = 3
  BY DEF Program
<1>5. Len(Program["retrain_large"]) = 8
  BY DEF Program
<1>6. Len(Program["generate_50k"]) = 9
  BY DEF Program
<1>7. cmd \in {"generate_data", "full_pipeline", "train", "retrain_large", "generate_50k"}
  BY <1>1 DEF Program
<1>8. CASE cmd = "generate_data"
  BY <1>8, <1>2 DEF GenEnd
<1>9. CASE cmd = "full_pipeline"
  BY <1>9, <1>3 DEF GenEnd
<1>10. CASE cmd = "train"
  BY <1>10, <1>4 DEF GenEnd
<1>11. CASE cmd = "retrain_large"
  BY <1>11, <1>5 DEF GenEnd
<1>12. CASE cmd = "generate_50k"
  BY <1>12, <1>6 DEF GenEnd
<1> QED
  BY <1>7, <1>8, <1>9, <1>10, <1>11, <1>12

-----------------------------------------------------------------------------
(* Type correctness.                                                       *)

LEMMA NotIdle == ASSUME NEW x \in ProcState PROVE x # Idle
<1>1. x.step # 0
  BY DEF ProcState
<1> QED
  BY <1>1 DEF Idle

\* What is known of a terminal whose command is at an access.
LEMMA AtType ==
  ASSUME TypeOK, NEW p \in Terminal, NEW a, At(p, a)
  PROVE  /\ proc[p] \in ProcState /\ proc[p].cmd \in Command
         /\ proc[p].step \in Nat \ {0} /\ proc[p].step <= Len(Program[proc[p].cmd])
         /\ Program[proc[p].cmd][proc[p].step] = a
         /\ proc[p].run \in Run /\ proc[p].run <= run /\ proc[p].part \in 1..Size
         /\ proc[p].frame \subseteq FeatureRow /\ proc[p].data \subseteq DataRow
<1>1. proc[p] # Idle /\ proc[p].step <= Len(Program[proc[p].cmd])
  BY DEF At, Running
<1>2. proc[p] \in ProcState
  BY <1>1 DEF TypeOK
<1>3. proc[p].run <= run
  BY <1>1 DEF TypeOK
<1> QED
  BY <1>1, <1>2, <1>3 DEF At, ProcState

\* A terminal whose state becomes x.
ProcOK(x) ==
  /\ x \in {Idle} \cup ProcState
  /\ x # Idle => x.run <= run /\ x.step <= Len(Program[x.cmd]) + 1

LEMMA ProcType ==
  ASSUME TypeOK, NEW p \in Terminal, NEW x, ProcOK(x),
         proc' = [proc EXCEPT ![p] = x], run' = run
  PROVE  /\ proc' \in [Terminal -> {Idle} \cup ProcState]
         /\ \A q \in Terminal :
              proc'[q] # Idle =>
                proc'[q].run <= run' /\ proc'[q].step <= Len(Program[proc'[q].cmd]) + 1
<1>1. proc \in [Terminal -> {Idle} \cup ProcState]
  BY DEF TypeOK
<1>2. \A q \in Terminal : proc'[q] = IF q = p THEN x ELSE proc[q]
  BY <1>1
<1>3. proc' \in [Terminal -> {Idle} \cup ProcState]
  BY <1>1 DEF ProcOK
<1>4. ASSUME NEW q \in Terminal, proc'[q] # Idle
      PROVE  proc'[q].run <= run' /\ proc'[q].step <= Len(Program[proc'[q].cmd]) + 1
  <2>1. CASE q = p
    BY <2>1, <1>2, <1>4 DEF ProcOK
  <2>2. CASE q # p
    BY <2>2, <1>2, <1>4 DEF TypeOK
  <2> QED
    BY <2>1, <2>2
<1> QED
  BY <1>3, <1>4

LEMMA IdleOK == ProcOK(Idle)
  BY DEF ProcOK

\* The command of p goes on to access n, with these locals.
Moved(p, part, n, frame, data) ==
  /\ proc' \in [Terminal -> {Idle} \cup ProcState]
  /\ \A q \in Terminal :
       proc'[q] # Idle =>
         proc'[q].run <= run' /\ proc'[q].step <= Len(Program[proc'[q].cmd]) + 1
  /\ \A q \in Terminal \ {p} : proc'[q] = proc[q]
  /\ proc'[p] # Idle
  /\ proc'[p].cmd = proc[p].cmd /\ proc'[p].run = proc[p].run
  /\ proc'[p].part = part /\ proc'[p].step = n
  /\ proc'[p].frame = frame /\ proc'[p].data = data

LEMMA Moves ==
  ASSUME TypeOK, NEW p \in Terminal, NEW a, At(p, a), run' = run,
         NEW n \in Nat \ {0}, n <= Len(Program[proc[p].cmd]) + 1,
         NEW frame \in SUBSET FeatureRow, NEW data \in SUBSET DataRow, NEW part \in 1..Size,
         proc' = [proc EXCEPT ![p] = [proc[p] EXCEPT !.step = n, !.part = part,
                                                     !.frame = frame, !.data = data]]
  PROVE  Moved(p, part, n, frame, data)
<1> DEFINE x == [proc[p] EXCEPT !.step = n, !.part = part, !.frame = frame, !.data = data]
<1>1. proc[p] \in ProcState /\ proc[p].run <= run
  BY AtType
<1>2. x \in ProcState /\ x.cmd = proc[p].cmd /\ x.run = proc[p].run /\ x.part = part
      /\ x.step = n /\ x.frame = frame /\ x.data = data
  BY <1>1 DEF ProcState
<1>3. x # Idle
  BY <1>2, NotIdle
<1>4. proc' = [proc EXCEPT ![p] = x]
  OBVIOUS
<1> HIDE DEF x
<1>5. ProcOK(x)
  BY <1>1, <1>2 DEF ProcOK
<1>6. proc' \in [Terminal -> {Idle} \cup ProcState]
      /\ \A q \in Terminal :
           proc'[q] # Idle =>
             proc'[q].run <= run' /\ proc'[q].step <= Len(Program[proc'[q].cmd]) + 1
  BY <1>4, <1>5, ProcType
<1>7. \A q \in Terminal : proc'[q] = IF q = p THEN x ELSE proc[q]
  BY <1>4 DEF TypeOK
<1> QED
  BY <1>2, <1>3, <1>6, <1>7 DEF Moved

LEMMA Advances ==
  ASSUME TypeOK, NEW p \in Terminal, NEW a, At(p, a), run' = run,
         NEW k \in Nat \ {0}, proc[p].step + k <= Len(Program[proc[p].cmd]) + 1,
         Advance(p, k)
  PROVE  Moved(p, proc[p].part, proc[p].step + k, proc[p].frame, proc[p].data)
<1>1. proc[p] \in ProcState /\ proc[p].step \in Nat \ {0} /\ proc[p].part \in 1..Size
      /\ proc[p].frame \in SUBSET FeatureRow /\ proc[p].data \in SUBSET DataRow
  BY AtType
<1>2. [proc[p] EXCEPT !.step = proc[p].step + k]
      = [proc[p] EXCEPT !.step = proc[p].step + k, !.part = proc[p].part,
                        !.frame = proc[p].frame, !.data = proc[p].data]
  BY <1>1 DEF ProcState
<1>3. proc' = [proc EXCEPT ![p] = [proc[p] EXCEPT !.step = proc[p].step + k]]
  BY DEF Advance
<1>4. proc' = [proc EXCEPT ![p] = [proc[p] EXCEPT !.step = proc[p].step + k,
                 !.part = proc[p].part, !.frame = proc[p].frame, !.data = proc[p].data]]
  BY <1>2, <1>3
<1>5. proc[p].step + k \in Nat \ {0}
  BY <1>1
<1> QED
  BY <1>1, <1>4, <1>5, Moves

LEMMA AdvancesOne ==
  ASSUME TypeOK, NEW p \in Terminal, NEW a, At(p, a), run' = run, Advance(p, 1)
  PROVE  Moved(p, proc[p].part, proc[p].step + 1, proc[p].frame, proc[p].data)
<1>1. proc[p].cmd \in Command /\ proc[p].step \in Nat /\ proc[p].step <= Len(Program[proc[p].cmd])
  BY AtType
<1>2. Len(Program[proc[p].cmd]) \in Nat
  BY <1>1, Lengths
<1>3. proc[p].step + 1 <= Len(Program[proc[p].cmd]) + 1
  BY <1>1, <1>2
<1> QED
  BY <1>3, Advances

LEMMA Holds ==
  ASSUME TypeOK, NEW p \in Terminal, NEW a, At(p, a), run' = run,
         NEW f \in SUBSET FeatureRow, Holding(p, f)
  PROVE  Moved(p, proc[p].part, proc[p].step + 1, f, proc[p].data)
<1>1. proc[p] \in ProcState /\ proc[p].step \in Nat \ {0} /\ proc[p].part \in 1..Size
      /\ proc[p].step <= Len(Program[proc[p].cmd]) /\ proc[p].cmd \in Command
      /\ proc[p].frame \in SUBSET FeatureRow /\ proc[p].data \in SUBSET DataRow
  BY AtType
<1>2. [proc[p] EXCEPT !.step = proc[p].step + 1, !.frame = f]
      = [proc[p] EXCEPT !.step = proc[p].step + 1, !.part = proc[p].part,
                        !.frame = f, !.data = proc[p].data]
  BY <1>1 DEF ProcState
<1>3. proc' = [proc EXCEPT ![p] = [proc[p] EXCEPT !.step = proc[p].step + 1, !.frame = f]]
  BY DEF Holding, TypeOK
<1>4. proc' = [proc EXCEPT ![p] = [proc[p] EXCEPT !.step = proc[p].step + 1,
                 !.part = proc[p].part, !.frame = f, !.data = proc[p].data]]
  BY <1>2, <1>3
<1>5. proc[p].step + 1 \in Nat \ {0} /\ proc[p].step + 1 <= Len(Program[proc[p].cmd]) + 1
  BY <1>1, Lengths
<1> QED
  BY <1>1, <1>4, <1>5, Moves

LEMMA FrameType ==
  ASSUME TypeOK, NEW p \in Terminal, NEW a, At(p, a)
  PROVE  /\ {[cust |-> c, by |-> proc[p].run, saw |-> 0] : c \in customers} \in SUBSET FeatureRow
         /\ {[cust |-> c, by |-> proc[p].run, saw |-> rows["transactions"][c]] : c \in customers}
              \in SUBSET FeatureRow
         /\ {[f EXCEPT !.saw = rows["transactions"][f.cust]] : f \in proc[p].frame}
              \in SUBSET FeatureRow
<1>1. proc[p].run \in Run /\ proc[p].frame \subseteq FeatureRow
  BY AtType
<1>2. customers \subseteq Customer
  BY DEF TypeOK
<1>3. ASSUME NEW c \in Customer PROVE rows["transactions"][c] \in Portion
  BY DEF TypeOK, Saved
<1>4. 0 \in Portion
  BY TrainingDataAssumption DEF Portion
<1>5. ASSUME NEW f \in proc[p].frame
      PROVE  [f EXCEPT !.saw = rows["transactions"][f.cust]] \in FeatureRow
  BY <1>1, <1>3 DEF FeatureRow
<1> QED
  BY <1>1, <1>2, <1>3, <1>4, <1>5 DEF FeatureRow

LEMMA MergedType ==
  ASSUME NEW f \in SUBSET FeatureRow, NEW g \in SUBSET FeatureRow
  PROVE  Merged(f, g) \in SUBSET DataRow
<1> DEFINE row(q) == [cust |-> q[1].cust, stream |-> q[1].by, batch |-> q[2].by,
                      saw |-> q[1].saw, label |-> FALSE, settled |-> FALSE]
<1>1. ASSUME NEW q \in f \X g PROVE row(q) \in DataRow
  <2>1. q[1] \in FeatureRow /\ q[2] \in FeatureRow
    BY <1>1
  <2>2. /\ q[1].cust \in Customer /\ q[1].by \in Run /\ q[1].saw \in Portion
        /\ q[2].by \in Run
    BY <2>1 DEF FeatureRow
  <2> QED
    BY <2>2 DEF DataRow
<1>2. Merged(f, g) = {row(q) : q \in {r \in f \X g : r[1].cust = r[2].cust}}
  BY DEF Merged
<1> HIDE DEF row
<1> QED
  BY <1>1, <1>2

LEMMA LabelledType ==
  ASSUME TypeOK, NEW d \in DataRow
  PROVE  /\ Labelled(d) \in DataRow
         /\ Labelled(d).cust = d.cust /\ Labelled(d).stream = d.stream
         /\ Labelled(d).batch = d.batch /\ Labelled(d).saw = d.saw
         /\ Labelled(d).label = (rows["events"][d.cust] > 0)
         /\ Labelled(d).settled = (d.cust[1] \in complete /\ d.cust \in customers)
<1>1. (rows["events"][d.cust] > 0) \in BOOLEAN
  OBVIOUS
<1>2. (d.cust[1] \in complete /\ d.cust \in customers) \in BOOLEAN
  OBVIOUS
<1> DEFINE b == (rows["events"][d.cust] > 0)
<1> DEFINE e == (d.cust[1] \in complete /\ d.cust \in customers)
<1>3. Labelled(d) = [d EXCEPT !.label = b, !.settled = e]
  BY DEF Labelled
<1>4. b \in BOOLEAN /\ e \in BOOLEAN
  OBVIOUS
<1> HIDE DEF b, e
<1>5. /\ [d EXCEPT !.label = b, !.settled = e] \in DataRow
      /\ [d EXCEPT !.label = b, !.settled = e].cust = d.cust
      /\ [d EXCEPT !.label = b, !.settled = e].stream = d.stream
      /\ [d EXCEPT !.label = b, !.settled = e].batch = d.batch
      /\ [d EXCEPT !.label = b, !.settled = e].saw = d.saw
      /\ [d EXCEPT !.label = b, !.settled = e].label = b
      /\ [d EXCEPT !.label = b, !.settled = e].settled = e
  BY <1>4 DEF DataRow
<1> USE DEF b, e
<1> QED
  BY <1>3, <1>5

\* How each access moves its command.
LEMMA LoadMoves ==
  ASSUME TypeOK, NEW p \in Terminal, Load(p)
  PROVE  Moved(p, proc[p].part, proc[p].step + 1,
               {[cust |-> c, by |-> proc[p].run, saw |-> 0] : c \in customers}, proc[p].data)
<1>1. At(p, "load") /\ run' = run
      /\ Holding(p, {[cust |-> c, by |-> proc[p].run, saw |-> 0] : c \in customers})
  BY DEF Load
<1>2. {[cust |-> c, by |-> proc[p].run, saw |-> 0] : c \in customers} \in SUBSET FeatureRow
  BY <1>1, FrameType
<1> QED
  BY <1>1, <1>2, Holds

\* main.py finds no transactions.
Nothing(p) ==
  proc[p].cmd = "full_pipeline" /\ \A c \in Customer : rows["transactions"][c] = 0

Aggregated(p) == {[f EXCEPT !.saw = rows["transactions"][f.cust]] : f \in proc[p].frame}

LEMMA AggregateMoves ==
  ASSUME TypeOK, NEW p \in Terminal, Aggregate(p)
  PROVE  \/ Nothing(p) /\ Moved(p, proc[p].part, proc[p].step + 3, {}, proc[p].data)
         \/ ~Nothing(p) /\ Moved(p, proc[p].part, proc[p].step + 1, Aggregated(p), proc[p].data)
<1>1. At(p, "aggregate") /\ run' = run
  BY DEF Aggregate
<1>2. proc[p] \in ProcState /\ proc[p].step \in Nat \ {0} /\ proc[p].part \in 1..Size
      /\ proc[p].step <= Len(Program[proc[p].cmd]) /\ proc[p].cmd \in Command
      /\ proc[p].data \in SUBSET DataRow
      /\ Program[proc[p].cmd][proc[p].step] = "aggregate"
  BY <1>1, AtType
<1>3. CASE Nothing(p)
  <2>1. proc' = [proc EXCEPT ![p].step = @ + 3, ![p].frame = {}]
    BY <1>3 DEF Aggregate, Nothing
  <2>2. proc[p].step + 3 <= Len(Program[proc[p].cmd]) + 1
    BY <1>2, <1>3, Places DEF Nothing
  <2>3. [proc[p] EXCEPT !.step = proc[p].step + 3, !.frame = {}]
        = [proc[p] EXCEPT !.step = proc[p].step + 3, !.part = proc[p].part,
                          !.frame = {}, !.data = proc[p].data]
    BY <1>2 DEF ProcState
  <2>4. proc' = [proc EXCEPT ![p] = [proc[p] EXCEPT !.step = proc[p].step + 3, !.frame = {}]]
    BY <2>1 DEF TypeOK
  <2>5. proc' = [proc EXCEPT ![p] = [proc[p] EXCEPT !.step = proc[p].step + 3,
                   !.part = proc[p].part, !.frame = {}, !.data = proc[p].data]]
    BY <2>3, <2>4
  <2>6. proc[p].step + 3 \in Nat \ {0} /\ {} \in SUBSET FeatureRow
    BY <1>2
  <2>7. Moved(p, proc[p].part, proc[p].step + 3, {}, proc[p].data)
    BY <1>1, <1>2, <2>2, <2>5, <2>6, Moves
  <2> QED
    BY <1>3, <2>7
<1>4. CASE ~Nothing(p)
  <2>1. Holding(p, Aggregated(p))
    BY <1>4 DEF Aggregate, Nothing, Aggregated
  <2>2. Aggregated(p) \in SUBSET FeatureRow
    BY <1>1, FrameType DEF Aggregated
  <2> QED
    BY <1>1, <1>4, <2>1, <2>2, Holds
<1> QED
  BY <1>3, <1>4

LEMMA ReadStreamMoves ==
  ASSUME TypeOK, NEW p \in Terminal, ReadStream(p)
  PROVE  Moved(p, proc[p].part, proc[p].step + 1, stream.rows, proc[p].data)
<1>1. At(p, "read_stream") /\ run' = run /\ Holding(p, stream.rows)
  BY DEF ReadStream
<1>2. stream.rows \in SUBSET FeatureRow
  BY DEF TypeOK, Table
<1> QED
  BY <1>1, <1>2, Holds

LEMMA ReadBatchMoves ==
  ASSUME TypeOK, NEW p \in Terminal, ReadBatch(p)
  PROVE  \E k \in {1, 2} :
           Moved(p, proc[p].part, proc[p].step + k, {}, Merged(proc[p].frame, batch.rows))
<1>1. At(p, "read_batch") /\ run' = run
  BY DEF ReadBatch
<1>2. proc[p] \in ProcState /\ proc[p].step \in Nat \ {0} /\ proc[p].part \in 1..Size
      /\ proc[p].step <= Len(Program[proc[p].cmd]) /\ proc[p].cmd \in Command
      /\ proc[p].frame \in SUBSET FeatureRow
      /\ Program[proc[p].cmd][proc[p].step] = "read_batch"
  BY <1>1, AtType
<1>3. batch.rows \in SUBSET FeatureRow
  BY DEF TypeOK, Table
<1> DEFINE data == Merged(proc[p].frame, batch.rows)
           k == IF data = {} THEN 2 ELSE 1
<1>4. data \in SUBSET DataRow
  BY <1>2, <1>3, MergedType
<1>5. proc' = [proc EXCEPT ![p].step = IF data = {} THEN @ + 2 ELSE @ + 1,
                           ![p].frame = {}, ![p].data = data]
  BY DEF ReadBatch
<1>6. k \in {1, 2} /\ proc[p].step + k = (IF data = {} THEN proc[p].step + 2 ELSE proc[p].step + 1)
  BY <1>2
<1> HIDE DEF data, k
<1>7. proc' = [proc EXCEPT ![p] = [proc[p] EXCEPT !.step = proc[p].step + k,
                                                  !.frame = {}, !.data = data]]
  <2>1. proc' = [proc EXCEPT ![p] = [proc[p] EXCEPT
                   !.step = IF data = {} THEN proc[p].step + 2 ELSE proc[p].step + 1,
                   !.frame = {}, !.data = data]]
    BY <1>5 DEF TypeOK
  <2> QED
    BY <2>1, <1>6
<1>8. [proc[p] EXCEPT !.step = proc[p].step + k, !.frame = {}, !.data = data]
      = [proc[p] EXCEPT !.step = proc[p].step + k, !.part = proc[p].part,
                        !.frame = {}, !.data = data]
  BY <1>2 DEF ProcState
<1>9. proc[p].step + 2 <= Len(Program[proc[p].cmd]) + 1
  BY <1>2, Places
<1>10. proc[p].step + k <= Len(Program[proc[p].cmd]) + 1 /\ proc[p].step + k \in Nat \ {0}
  BY <1>2, <1>6, <1>9, Lengths
<1>11. Moved(p, proc[p].part, proc[p].step + k, {}, data)
  BY <1>1, <1>2, <1>4, <1>7, <1>8, <1>10, Moves
<1> QED
  BY <1>6, <1>11 DEF data

LEMMA ReadEventsMoves ==
  ASSUME TypeOK, NEW p \in Terminal, ReadEvents(p)
  PROVE  Moved(p, proc[p].part, proc[p].step + 1, proc[p].frame,
               {Labelled(d) : d \in proc[p].data})
<1>1. At(p, "read_events") /\ run' = run
  BY DEF ReadEvents
<1>2. proc[p] \in ProcState /\ proc[p].step \in Nat \ {0} /\ proc[p].part \in 1..Size
      /\ proc[p].step <= Len(Program[proc[p].cmd]) /\ proc[p].cmd \in Command
      /\ proc[p].frame \in SUBSET FeatureRow /\ proc[p].data \subseteq DataRow
  BY <1>1, AtType
<1> DEFINE data == {Labelled(d) : d \in proc[p].data}
<1>3. data \in SUBSET DataRow
  BY <1>2, LabelledType
<1>4. proc' = [proc EXCEPT ![p].step = @ + 1, ![p].data = data]
  BY DEF ReadEvents
<1> HIDE DEF data
<1>5. proc' = [proc EXCEPT ![p] = [proc[p] EXCEPT !.step = proc[p].step + 1, !.data = data]]
  BY <1>4 DEF TypeOK
<1>6. [proc[p] EXCEPT !.step = proc[p].step + 1, !.data = data]
      = [proc[p] EXCEPT !.step = proc[p].step + 1, !.part = proc[p].part,
                        !.frame = proc[p].frame, !.data = data]
  BY <1>2 DEF ProcState
<1>7. proc[p].step + 1 <= Len(Program[proc[p].cmd]) + 1 /\ proc[p].step + 1 \in Nat \ {0}
  BY <1>2, Lengths
<1>8. Moved(p, proc[p].part, proc[p].step + 1, proc[p].frame, data)
  BY <1>1, <1>2, <1>3, <1>5, <1>6, <1>7, Moves
<1> QED
  BY <1>8 DEF data

LEMMA NextTableMoves ==
  ASSUME TypeOK, NEW p \in Terminal, NEW t \in Saved, At(p, t), run' = run, NextTable(p, t)
  PROVE  \/ /\ t = "events" /\ proc[p].part < Parts(proc[p].cmd)
            /\ proc[p].cmd = "generate_50k" /\ proc[p].part + 1 \in 1..Size
            /\ Moved(p, proc[p].part + 1, 3, proc[p].frame, proc[p].data)
         \/ /\ ~(t = "events" /\ proc[p].part < Parts(proc[p].cmd))
            /\ Moved(p, proc[p].part, proc[p].step + 1, proc[p].frame, proc[p].data)
<1>1. proc[p] \in ProcState /\ proc[p].step \in Nat \ {0} /\ proc[p].part \in 1..Size
      /\ proc[p].step <= Len(Program[proc[p].cmd]) /\ proc[p].cmd \in Command
      /\ proc[p].frame \in SUBSET FeatureRow /\ proc[p].data \in SUBSET DataRow
      /\ Program[proc[p].cmd][proc[p].step] = t
  BY AtType
<1>2. CASE t = "events" /\ proc[p].part < Parts(proc[p].cmd)
  <2>1. proc[p].cmd = "generate_50k" /\ proc[p].part + 1 \in 1..Size
    BY <1>1, <1>2, TrainingDataAssumption DEF Parts
  <2>2. proc[p].step = 6
    <3>1. proc[p].step = GenEnd[proc[p].cmd]
      BY <1>1, <1>2, Places
    <3> QED
      BY <3>1, <2>1, <1>1, Lengths
  <2>3. 3 <= Len(Program[proc[p].cmd]) + 1
    BY <1>1, <2>2, Lengths
  <2>4. proc' = [proc EXCEPT ![p].step = @ - 3, ![p].part = @ + 1]
    BY <1>2 DEF NextTable
  <2>5. proc' = [proc EXCEPT ![p] = [proc[p] EXCEPT !.step = 3, !.part = proc[p].part + 1]]
    <3>1. proc' = [proc EXCEPT ![p] = [proc[p] EXCEPT !.step = proc[p].step - 3,
                                                      !.part = proc[p].part + 1]]
      BY <2>4 DEF TypeOK
    <3>2. proc[p].step - 3 = 3
      BY <2>2
    <3> QED
      BY <3>1, <3>2
  <2>6. [proc[p] EXCEPT !.step = 3, !.part = proc[p].part + 1]
        = [proc[p] EXCEPT !.step = 3, !.part = proc[p].part + 1,
                          !.frame = proc[p].frame, !.data = proc[p].data]
    BY <1>1 DEF ProcState
  <2>7. proc' = [proc EXCEPT ![p] = [proc[p] EXCEPT !.step = 3, !.part = proc[p].part + 1,
                   !.frame = proc[p].frame, !.data = proc[p].data]]
    BY <2>5, <2>6
  <2>8. Moved(p, proc[p].part + 1, 3, proc[p].frame, proc[p].data)
    <3>1. 3 \in Nat \ {0}
      OBVIOUS
    <3> QED
      BY <1>1, <2>1, <2>3, <2>7, <3>1, Moves
  <2> QED
    BY <1>2, <2>1, <2>8
<1>3. CASE ~(t = "events" /\ proc[p].part < Parts(proc[p].cmd))
  <2>1. Advance(p, 1)
    BY <1>3 DEF NextTable
  <2> QED
    BY <1>3, <2>1, AdvancesOne
<1> QED
  BY <1>2, <1>3

LEMMA MembersType ==
  ASSUME TypeOK, NEW p \in Terminal, NEW a, At(p, a)
  PROVE  /\ Members(p) \subseteq Customer
         /\ \A c \in Members(p) : c[1] = proc[p].run
         /\ \A c \in Customer : c[1] = proc[p].run =>
              (c \in Members(p) <=> proc[p].cmd # "generate_50k" \/ c[2] = proc[p].part)
<1>1. proc[p].run \in Run /\ proc[p].part \in 1..Size
  BY AtType
<1>2. CASE proc[p].cmd = "generate_50k"
  BY <1>1, <1>2 DEF Members, generate_customers, generate_customer_batch, Customer
<1>3. CASE proc[p].cmd # "generate_50k"
  BY <1>1, <1>3 DEF Members, generate_customers, generate_customer_batch, Customer
<1> QED
  BY <1>2, <1>3

\* The step of Save, with the new rows named.
Chunk(p, t, new) ==
  /\ rows' = [rows EXCEPT ![t] =
                [c \in Customer |-> IF c \in Listed(p, t) THEN new[c] ELSE rows[t][c]]]
  /\ IF \A c \in Listed(p, t) : new[c] = Rows THEN NextTable(p, t) ELSE UNCHANGED proc
  /\ complete' = IF /\ \A c \in Listed(p, t) : new[c] = Rows
                    /\ t = "events" /\ proc[p].part = Parts(proc[p].cmd)
                 THEN complete \cup {proc[p].run} ELSE complete

LEMMA SaveChunk ==
  ASSUME NEW p \in Terminal, NEW t \in Saved, Save(p, t)
  PROVE  \E new \in [Listed(p, t) -> Portion] :
           /\ \A c \in Listed(p, t) : new[c] >= rows[t][c]
           /\ Chunk(p, t, new)
<1>1. PICK new \in Progress(p, t) : Chunk(p, t, new)
  BY DEF Save, Chunk
<1>2. new \in [Listed(p, t) -> Portion] /\ \A c \in Listed(p, t) : new[c] >= rows[t][c]
  BY DEF Progress
<1> QED
  BY <1>1, <1>2

\* Everything but the commands, typed.
DataOK ==
  /\ run \in 0..MaxRuns
  /\ customers \subseteq Customer
  /\ rows \in [Saved -> [Customer -> Portion]]
  /\ schema \in {"none", "init", "large"}
  /\ stream \in Table /\ batch \in Table
  /\ missed \subseteq Customer /\ complete \subseteq Run
  /\ alone \in BOOLEAN
  /\ faults \in 0..MaxFaults

ProcsOK ==
  /\ proc \in [Terminal -> {Idle} \cup ProcState]
  /\ \A p \in Terminal :
       proc[p] # Idle => proc[p].run <= run /\ proc[p].step <= Len(Program[proc[p].cmd]) + 1

LEMMA TypeParts == TypeOK <=> DataOK /\ ProcsOK
  BY DEF TypeOK, DataOK, ProcsOK

LEMMA FaultType ==
  ASSUME DataOK, Fault PROVE faults' \in 0..MaxFaults
  BY TrainingDataAssumption DEF Fault, DataOK

\* A running command ends without a dataset.
Ended(p) ==
  /\ proc' \in [Terminal -> {Idle} \cup ProcState]
  /\ proc'[p] = Idle
  /\ \A q \in Terminal \ {p} : proc'[q] = proc[q]

LEMMA Ends ==
  ASSUME TypeOK, NEW p \in Terminal, run' = run, proc' = [proc EXCEPT ![p] = Idle]
  PROVE  Ended(p) /\ ProcsOK'
<1>1. ProcsOK'
  BY IdleOK, ProcType DEF ProcsOK
<1>2. Ended(p)
  BY <1>1 DEF Ended, ProcsOK, TypeOK
<1> QED
  BY <1>1, <1>2

LEMMA MovedOK ==
  ASSUME NEW p, NEW part, NEW n, NEW f, NEW d, Moved(p, part, n, f, d) PROVE ProcsOK'
  BY DEF Moved, ProcsOK

LEMMA StartType ==
  ASSUME TypeOK, NEW p \in Terminal, NEW cmd \in Command, Start(p, cmd)
  PROVE  /\ proc' \in [Terminal -> {Idle} \cup ProcState]
         /\ \A q \in Terminal \ {p} : proc'[q] = proc[q]
         /\ proc'[p] = [cmd |-> cmd, run |-> run + 1, step |-> 1, part |-> 1,
                        frame |-> {}, data |-> {}]
         /\ proc'[p] # Idle
         /\ ProcsOK' /\ run' = run + 1 /\ run' \in 0..MaxRuns /\ run \in Nat
<1> DEFINE x == [cmd |-> cmd, run |-> run + 1, step |-> 1, part |-> 1, frame |-> {}, data |-> {}]
<1>1. run \in 0..MaxRuns /\ run < MaxRuns /\ run' = run + 1
  BY DEF Start, TypeOK
<1>2. run + 1 \in Run /\ 1 \in 1..Size /\ run' \in 0..MaxRuns /\ run \in Nat
  BY <1>1, TrainingDataAssumption DEF Run
<1>3. x \in ProcState /\ x.run = run + 1 /\ x.step = 1 /\ x.cmd = cmd
  BY <1>2 DEF ProcState
<1>4. proc' = [proc EXCEPT ![p] = x]
  BY DEF Start
<1>5. x # Idle
  BY <1>3, NotIdle
<1>6. 1 <= Len(Program[cmd]) + 1
  BY Lengths
<1> HIDE DEF x
<1>7. \A q \in Terminal : proc'[q] = IF q = p THEN x ELSE proc[q]
  BY <1>4 DEF TypeOK
<1>8. proc' \in [Terminal -> {Idle} \cup ProcState]
  BY <1>4, <1>3 DEF TypeOK
<1>9. ASSUME NEW q \in Terminal, proc'[q] # Idle
      PROVE  proc'[q].run <= run' /\ proc'[q].step <= Len(Program[proc'[q].cmd]) + 1
  <2>1. CASE q = p
    BY <2>1, <1>1, <1>2, <1>3, <1>6, <1>7
  <2>2. CASE q # p
    <3>1. proc[q] # Idle /\ proc'[q] = proc[q]
      BY <2>2, <1>7, <1>9
    <3>2. proc[q] \in ProcState /\ proc[q].run <= run
             /\ proc[q].step <= Len(Program[proc[q].cmd]) + 1
      BY <3>1 DEF TypeOK
    <3>3. proc[q].run \in Nat
      BY <3>2 DEF ProcState, Run
    <3> QED
      BY <3>1, <3>2, <3>3, <1>1, <1>2
  <2> QED
    BY <2>1, <2>2
<1>10. ProcsOK'
  BY <1>8, <1>9 DEF ProcsOK
<1>11. proc'[p] = x
  BY <1>7
<1> QED
  BY <1>1, <1>2, <1>5, <1>7, <1>8, <1>10, <1>11 DEF x

LEMMA SaveRows ==
  ASSUME TypeOK, NEW p \in Terminal, NEW t \in Saved,
         NEW new \in [Listed(p, t) -> Portion],
         rows' = [rows EXCEPT ![t] =
                    [c \in Customer |-> IF c \in Listed(p, t) THEN new[c] ELSE rows[t][c]]]
  PROVE  /\ rows' \in [Saved -> [Customer -> Portion]]
         /\ \A u \in Saved \ {t} : rows'[u] = rows[u]
         /\ \A c \in Customer :
              rows'[t][c] = IF c \in Listed(p, t) THEN new[c] ELSE rows[t][c]
<1> DEFINE x == [c \in Customer |-> IF c \in Listed(p, t) THEN new[c] ELSE rows[t][c]]
<1>1. rows \in [Saved -> [Customer -> Portion]]
  BY DEF TypeOK
<1>2. x \in [Customer -> Portion]
  BY <1>1
<1>3. \A c \in Customer : x[c] = IF c \in Listed(p, t) THEN new[c] ELSE rows[t][c]
  OBVIOUS
<1> HIDE DEF x
<1>4. rows' = [rows EXCEPT ![t] = x]
  BY DEF x
<1> QED
  BY <1>1, <1>2, <1>3, <1>4

LEMMA SaveMoves ==
  ASSUME TypeOK, NEW p \in Terminal, NEW t \in Saved, Save(p, t)
  PROVE  ProcsOK'
<1>1. PICK new \in [Listed(p, t) -> Portion] : Chunk(p, t, new)
  BY SaveChunk
<1>2. At(p, t) /\ run' = run
  BY DEF Save
<1>3. CASE \A c \in Listed(p, t) : new[c] = Rows
  <2>1. NextTable(p, t)
    BY <1>1, <1>3 DEF Chunk
  <2> QED
    BY <2>1, <1>2, NextTableMoves, MovedOK
<1>4. CASE ~\A c \in Listed(p, t) : new[c] = Rows
  <2>1. proc' = proc
    BY <1>1, <1>4 DEF Chunk
  <2> QED
    BY <2>1, <1>2 DEF TypeOK, ProcsOK
<1> QED
  BY <1>3, <1>4

LEMMA WrittenType ==
  ASSUME TypeOK, NEW p \in Terminal, NEW a, At(p, a), NEW table \in Table
  PROVE  Written(p, table) \in Table
<1>1. proc[p].frame \subseteq FeatureRow
  BY AtType
<1>2. table.rows \subseteq FeatureRow /\ table.made \in {"none", "init", "local", "retrain", "sql"}
  BY DEF Table
<1>3. CASE proc[p].cmd = "full_pipeline"
  BY <1>1, <1>3 DEF Written, Table
<1>4. CASE proc[p].cmd # "full_pipeline"
  <2>1. table.rows \cup proc[p].frame \in SUBSET FeatureRow
    BY <1>1, <1>2
  <2> QED
    BY <1>2, <1>4, <2>1 DEF Written, Table
<1> QED
  BY <1>3, <1>4

\* A command that stays with its locals and goes k accesses on.
Passes(p, k) == Moved(p, proc[p].part, proc[p].step + k, proc[p].frame, proc[p].data)

LEMMA SqlMoves ==
  ASSUME TypeOK, NEW p \in Terminal, SqlFeatures(p)
  PROVE  /\ Passes(p, 1) /\ (At(p, "sql_stream") \/ At(p, "sql_batch"))
         /\ Selected(p) \in Table
<1>1. run' = run /\ Advance(p, 1) /\ (At(p, "sql_stream") \/ At(p, "sql_batch"))
  BY DEF SqlFeatures
<1>2. Passes(p, 1)
  BY <1>1, AdvancesOne DEF Passes
<1>3. {[cust |-> c, by |-> proc[p].run, saw |-> rows["transactions"][c]] : c \in customers}
        \in SUBSET FeatureRow
  BY <1>1, FrameType
<1> QED
  BY <1>1, <1>2, <1>3 DEF Selected, Table

LEMMA SqlFailsMoves ==
  ASSUME TypeOK, NEW p \in Terminal, SqlFails(p)
  PROVE  \E k \in {1, 2} : Passes(p, k)
<1>1. run' = run
  BY DEF SqlFails
<1>2. CASE At(p, "sql_stream") /\ Advance(p, 2)
  <2>1. proc[p].step \in Nat \ {0} /\ proc[p].step <= Len(Program[proc[p].cmd])
        /\ proc[p].cmd \in Command /\ Program[proc[p].cmd][proc[p].step] = "sql_stream"
    BY <1>2, AtType
  <2>2. proc[p].step + 2 <= Len(Program[proc[p].cmd]) + 1
    BY <2>1, Places
  <2>3. 2 \in Nat \ {0}
    OBVIOUS
  <2> QED
    BY <1>1, <1>2, <2>2, <2>3, Advances DEF Passes
<1>3. CASE At(p, "sql_batch") /\ Advance(p, 1)
  BY <1>1, <1>3, AdvancesOne DEF Passes
<1> QED
  BY <1>2, <1>3 DEF SqlFails

LEMMA PassesOK ==
  ASSUME NEW p, NEW k, Passes(p, k) PROVE ProcsOK'
  BY MovedOK DEF Passes

LEMMA TruncateEffect ==
  ASSUME TypeOK, NEW p \in Terminal, Truncate(p)
  PROVE  /\ \/ customers' = {} /\ rows' = NoRows
            \/ customers' = customers /\ rows' = rows
         /\ batch' = batch \/ batch' = [batch EXCEPT !.rows = {}]
         /\ stream' = stream \/ stream' = [stream EXCEPT !.rows = {}]
         /\ batch' \in Table /\ stream' \in Table
         /\ batch'.rows = batch.rows \/ batch'.rows = {}
         /\ stream'.rows = stream.rows \/ stream'.rows = {}
         /\ faults' \in 0..MaxFaults
<1>1. PICK failing \in SUBSET {"stream", "batch", "customers"} :
        /\ UNCHANGED faults \/ Fault
        /\ customers' = IF "customers" \in failing THEN customers ELSE {}
        /\ rows' = IF "customers" \in failing THEN rows ELSE NoRows
        /\ batch' = IF failing \cap {"batch", "customers"} # {} THEN batch
                    ELSE [batch EXCEPT !.rows = {}]
        /\ stream' = IF failing # {} THEN stream ELSE [stream EXCEPT !.rows = {}]
  BY DEF Truncate
<1>2. faults' \in 0..MaxFaults
  BY <1>1, TypeParts, FaultType DEF DataOK
<1>3. /\ \/ customers' = {} /\ rows' = NoRows
         \/ customers' = customers /\ rows' = rows
      /\ batch' = batch \/ batch' = [batch EXCEPT !.rows = {}]
      /\ stream' = stream \/ stream' = [stream EXCEPT !.rows = {}]
  BY <1>1
<1>4. batch \in Table /\ stream \in Table
  BY DEF TypeOK
<1>5. batch' \in Table /\ (batch'.rows = batch.rows \/ batch'.rows = {})
  BY <1>3, <1>4 DEF Table
<1>6. stream' \in Table /\ (stream'.rows = stream.rows \/ stream'.rows = {})
  BY <1>3, <1>4 DEF Table
<1> QED
  BY <1>2, <1>3, <1>5, <1>6

LEMMA NoRowsType == NoRows \in [Saved -> [Customer -> Portion]]
<1>1. 0 \in Portion
  BY TrainingDataAssumption DEF Portion
<1> QED
  BY <1>1 DEF NoRows

LEMMA TypeInit == ASSUME Init PROVE TypeOK
<1>1. DataOK
  BY NoRowsType, TrainingDataAssumption DEF Init, DataOK, Table
<1>2. ProcsOK
  BY DEF Init, ProcsOK
<1> QED
  BY <1>1, <1>2, TypeParts

LEMMA TypeStep == ASSUME TypeOK, [Next]_vars PROVE TypeOK'
<1> USE DEF generated, features, history
<1>0. DataOK /\ ProcsOK
  BY TypeParts
<1>1. ASSUME NEW p \in Terminal, NEW cmd \in Command, Start(p, cmd)
      PROVE  DataOK' /\ ProcsOK'
  <2>1. ProcsOK' /\ run' \in 0..MaxRuns
    BY <1>1, StartType
  <2>2. alone' \in BOOLEAN
    BY <1>1, <1>0 DEF Start, DataOK
  <2> QED
    BY <1>0, <1>1, <2>1, <2>2 DEF Start, DataOK
<1>2. ASSUME NEW p \in Terminal, Create(p) PROVE DataOK' /\ ProcsOK'
  <2>1. ProcsOK'
    BY <1>2, AdvancesOne, MovedOK DEF Create
  <2> QED
    BY <1>0, <1>2, <2>1 DEF Create, DataOK
<1>3. ASSUME NEW p \in Terminal, Truncate(p) PROVE DataOK' /\ ProcsOK'
  <2>1. ProcsOK'
    BY <1>3, AdvancesOne, MovedOK DEF Truncate
  <2>2. run' = run /\ schema' = schema /\ missed' = missed /\ complete' = complete
        /\ alone' = alone
    BY <1>3 DEF Truncate
  <2>3. customers' \subseteq Customer /\ rows' \in [Saved -> [Customer -> Portion]]
    BY <1>0, <1>3, TruncateEffect, NoRowsType DEF DataOK
  <2>4. batch' \in Table /\ stream' \in Table /\ faults' \in 0..MaxFaults
    BY <1>3, TruncateEffect
  <2> QED
    BY <1>0, <2>1, <2>2, <2>3, <2>4 DEF DataOK
<1>4. ASSUME NEW p \in Terminal, SaveCustomers(p) PROVE DataOK' /\ ProcsOK'
  <2>1. ProcsOK'
    BY <1>4, AdvancesOne, MovedOK DEF SaveCustomers
  <2>2. Members(p) \subseteq Customer
    BY <1>4, MembersType DEF SaveCustomers
  <2>3. missed' \subseteq Customer
    BY <1>0, <1>4, <2>2 DEF SaveCustomers, Simulate, MayMiss, HasLoan, DataOK
  <2> QED
    BY <1>0, <1>4, <2>1, <2>2, <2>3 DEF SaveCustomers, DataOK
<1>5. ASSUME NEW p \in Terminal, NEW t \in Saved, Save(p, t) PROVE DataOK' /\ ProcsOK'
  <2>1. PICK new \in [Listed(p, t) -> Portion] : Chunk(p, t, new)
    BY <1>5, SaveChunk
  <2>2. rows' \in [Saved -> [Customer -> Portion]]
    BY <2>1, SaveRows DEF Chunk
  <2>3. proc[p].run \in Run
    BY <1>5, AtType DEF Save
  <2>4. complete' \subseteq Run
    BY <1>0, <2>1, <2>3 DEF Chunk, DataOK
  <2>5. ProcsOK'
    BY <1>5, SaveMoves
  <2> QED
    BY <1>0, <1>5, <2>2, <2>4, <2>5 DEF Save, DataOK
<1>6. ASSUME NEW p \in Terminal, Load(p) \/ Aggregate(p) PROVE DataOK' /\ ProcsOK'
  <2>1. ProcsOK'
    BY <1>6, LoadMoves, AggregateMoves, MovedOK
  <2> QED
    BY <1>0, <1>6, <2>1 DEF Load, Aggregate, DataOK
<1>7. ASSUME NEW p \in Terminal, Drop(p) PROVE DataOK' /\ ProcsOK'
  <2>1. ProcsOK'
    BY <1>7, AdvancesOne, MovedOK DEF Drop
  <2> QED
    BY <1>0, <1>7, <2>1 DEF Drop, DataOK, Table
<1>8. ASSUME NEW p \in Terminal, WriteStream(p) PROVE DataOK' /\ ProcsOK'
  <2>1. ProcsOK'
    BY <1>8, AdvancesOne, MovedOK DEF WriteStream
  <2>2. stream' \in Table
    BY <1>0, <1>8, WrittenType DEF WriteStream, DataOK
  <2> QED
    BY <1>0, <1>8, <2>1, <2>2 DEF WriteStream, DataOK
<1>9. ASSUME NEW p \in Terminal, WriteBatch(p) PROVE DataOK' /\ ProcsOK'
  <2>1. ProcsOK'
    BY <1>9, AdvancesOne, MovedOK DEF WriteBatch
  <2>2. batch' \in Table
    BY <1>0, <1>9, WrittenType DEF WriteBatch, DataOK
  <2> QED
    BY <1>0, <1>9, <2>1, <2>2 DEF WriteBatch, DataOK
<1>10. ASSUME NEW p \in Terminal, SqlFeatures(p) PROVE DataOK' /\ ProcsOK'
  <2>1. ProcsOK'
    BY <1>10, SqlMoves, PassesOK
  <2>2. Selected(p) \in Table
    BY <1>10, SqlMoves
  <2> QED
    BY <1>0, <1>10, <2>1, <2>2 DEF SqlFeatures, DataOK
<1>11. ASSUME NEW p \in Terminal, SqlFails(p) PROVE DataOK' /\ ProcsOK'
  <2>1. ProcsOK'
    BY <1>11, SqlFailsMoves, PassesOK
  <2>2. faults' \in 0..MaxFaults
    BY <1>0, <1>11, FaultType DEF SqlFails
  <2> QED
    BY <1>0, <1>11, <2>1, <2>2 DEF SqlFails, DataOK
<1>12. ASSUME NEW p \in Terminal, Build(p) PROVE DataOK' /\ ProcsOK'
  <2>1. ASSUME ReadStream(p) PROVE ProcsOK'
    BY <2>1, ReadStreamMoves, MovedOK
  <2>2. ASSUME ReadBatch(p) PROVE ProcsOK'
    BY <2>2, ReadBatchMoves, MovedOK
  <2>3. ASSUME ReadEvents(p) PROVE ProcsOK'
    BY <2>3, ReadEventsMoves, MovedOK
  <2>4. ProcsOK'
    BY <1>12, <2>1, <2>2, <2>3 DEF Build
  <2> QED
    BY <1>0, <1>12, <2>4 DEF Build, ReadStream, ReadBatch, ReadEvents, DataOK
<1>13. ASSUME NEW p \in Terminal, Raise(p) PROVE DataOK' /\ ProcsOK'
  <2>1. ProcsOK'
    BY <1>13, Ends DEF Raise
  <2> QED
    BY <1>0, <1>13, <2>1 DEF Raise, DataOK
<1>14. ASSUME NEW p \in Terminal, Die(p) PROVE DataOK' /\ ProcsOK'
  <2>1. ProcsOK'
    BY <1>14, Ends DEF Die
  <2>2. faults' \in 0..MaxFaults
    BY <1>0, <1>14, FaultType DEF Die
  <2> QED
    BY <1>0, <1>14, <2>1, <2>2 DEF Die, DataOK
<1>15. ASSUME UNCHANGED vars PROVE DataOK' /\ ProcsOK'
  BY <1>0, <1>15 DEF vars, DataOK, ProcsOK
<1>16. ASSUME Next PROVE DataOK' /\ ProcsOK'
  <2>1. PICK p \in Terminal :
          \/ \E cmd \in Command : Start(p, cmd)
          \/ Generate(p) \/ Compute(p) \/ Build(p) \/ Raise(p) \/ Die(p)
    BY <1>16 DEF Next
  <2>2. CASE Generate(p)
    BY <2>2, <1>2, <1>3, <1>4, <1>5 DEF Generate
  <2>3. CASE Compute(p)
    BY <2>3, <1>6, <1>7, <1>8, <1>9, <1>10, <1>11 DEF Compute
  <2> QED
    BY <2>1, <2>2, <2>3, <1>1, <1>12, <1>13, <1>14
<1>17. DataOK' /\ ProcsOK'
  BY <1>15, <1>16
<1> QED
  BY <1>17 DEF TypeOK, DataOK, ProcsOK

\* The tables, the commands' places and locals and the counters keep to their types.
THEOREM TypeCorrect == Spec => []TypeOK
  BY TypeInit, TypeStep, PTL DEF Spec

-----------------------------------------------------------------------------
(* The labels.                                                             *)

\* The command of p has not yet ended its generation.
Generating(p) == proc[p] # Idle /\ proc[p].step <= GenEnd[proc[p].cmd]

Hit(c) == rows["events"][c] > 0

RunsApart ==
  \A p, q \in Terminal : p # q /\ proc[p] # Idle /\ proc[q] # Idle => proc[p].run # proc[q].run

Past == (\A c \in missed : c[1] <= run) /\ (\A r \in complete : r <= run)

\* The batches of generate_50k.py before the current one are saved.
Unfinished ==
  \A p \in Terminal : Generating(p) =>
    /\ proc[p].run \notin complete
    /\ proc[p].cmd = "generate_50k" =>
         \A c \in customers \cap missed :
           c[1] = proc[p].run /\ c[2] < proc[p].part => Hit(c)

Evented ==
  /\ \A c \in Customer : Hit(c) => c \in missed
  /\ \A c \in customers \cap missed : c[1] \in complete => Hit(c)

TrueRow(d) == d.settled => d.cust[1] \in complete /\ (d.label <=> d.cust \in missed)

Truth == \A p \in Terminal : \A d \in proc[p].data : TrueRow(d)

LabelInv == RunsApart /\ Past /\ Unfinished /\ Evented /\ Truth

LEMMA RunsKept ==
  ASSUME RunsApart, NEW p \in Terminal, proc[p] # Idle,
         NEW part, NEW n, NEW f, NEW d, Moved(p, part, n, f, d)
  PROVE  RunsApart'
<1> SUFFICES ASSUME NEW q \in Terminal, NEW r \in Terminal, q # r,
                    proc'[q] # Idle, proc'[r] # Idle
             PROVE  proc'[q].run # proc'[r].run
  BY DEF RunsApart
<1>1. \A s \in Terminal : proc'[s] # Idle => proc[s] # Idle /\ proc'[s].run = proc[s].run
  BY DEF Moved
<1> QED
  BY <1>1 DEF RunsApart

\* An access of p that generates nothing, but may empty the generated tables.
LEMMA QuietStep ==
  ASSUME TypeOK, LabelInv, NEW p \in Terminal, proc[p] # Idle, NEW k \in Nat,
         NEW f, NEW d, Moved(p, proc[p].part, proc[p].step + k, f, d),
         run' = run, missed' = missed, complete' = complete,
         \/ customers' = customers /\ rows' = rows
         \/ customers' = {} /\ rows' = NoRows,
         \A x \in d : TrueRow(x)
  PROVE  LabelInv'
<1>1. RunsApart'
  BY RunsKept DEF LabelInv
<1>2. Past'
  BY DEF LabelInv, Past
<1>3. \A q \in Terminal : Generating(q)' =>
        Generating(q) /\ proc'[q].run = proc[q].run /\ proc'[q].cmd = proc[q].cmd
        /\ proc'[q].part = proc[q].part
  <2> SUFFICES ASSUME NEW q \in Terminal, Generating(q)'
               PROVE  Generating(q) /\ proc'[q].run = proc[q].run /\ proc'[q].cmd = proc[q].cmd
                      /\ proc'[q].part = proc[q].part
    OBVIOUS
  <2>1. CASE q = p
    <3>1. proc[p] \in ProcState
      BY DEF TypeOK
    <3>2. proc[p].step \in Nat /\ GenEnd[proc[p].cmd] \in Nat
      BY <3>1, Lengths DEF ProcState
    <3>3. proc[p].step + k <= GenEnd[proc[p].cmd]
      BY <2>1 DEF Generating, Moved
    <3> QED
      BY <2>1, <3>2, <3>3 DEF Generating, Moved
  <2>2. CASE q # p
    BY <2>2 DEF Generating, Moved
  <2> QED
    BY <2>1, <2>2
<1>4. customers' \subseteq customers
  OBVIOUS
<1>5. \A c \in Customer : Hit(c)' => Hit(c)
  BY DEF Hit, NoRows, Saved
<1>6. \A c \in customers' : Hit(c) => Hit(c)'
  BY DEF Hit
<1>7. Unfinished'
  BY <1>3, <1>4, <1>6 DEF LabelInv, Unfinished
<1>8. Evented'
  BY <1>4, <1>5, <1>6 DEF LabelInv, Evented
<1>9. Truth'
  <2> SUFFICES ASSUME NEW q \in Terminal, NEW x \in proc'[q].data PROVE TrueRow(x)'
    BY DEF Truth
  <2>1. TrueRow(x)
    BY DEF Moved, LabelInv, Truth
  <2> QED
    BY <2>1 DEF TrueRow
<1> QED
  BY <1>1, <1>2, <1>7, <1>8, <1>9 DEF LabelInv

LEMMA StartLabels ==
  ASSUME TypeOK, LabelInv, NEW p \in Terminal, NEW cmd \in Command, Start(p, cmd)
  PROVE  LabelInv'
<1> DEFINE x == [cmd |-> cmd, run |-> run + 1, step |-> 1, part |-> 1, frame |-> {}, data |-> {}]
<1>1. /\ proc'[p] = x /\ run' = run + 1 /\ run \in Nat
      /\ \A q \in Terminal \ {p} : proc'[q] = proc[q]
  BY StartType
<1>2. x.run = run + 1 /\ x.part = 1 /\ x.data = {} /\ x.cmd = cmd
  OBVIOUS
<1> HIDE DEF x
<1>3. customers' = customers /\ rows' = rows /\ missed' = missed /\ complete' = complete
  BY DEF Start, generated
<1>4. missed \subseteq Customer /\ complete \subseteq Run /\ customers \subseteq Customer
  BY DEF TypeOK
<1>5. \A q \in Terminal : proc[q] # Idle => proc[q].run \in Nat /\ proc[q].run <= run
  <2> SUFFICES ASSUME NEW q \in Terminal, proc[q] # Idle
               PROVE  proc[q].run \in Nat /\ proc[q].run <= run
    OBVIOUS
  <2>1. proc[q] \in ProcState /\ proc[q].run <= run
    BY DEF TypeOK
  <2> QED
    BY <2>1 DEF ProcState, Run
<1>6. \A q \in Terminal \ {p} : proc[q] # Idle => proc[q].run # run + 1
  BY <1>1, <1>5
<1>7. RunsApart'
  <2> SUFFICES ASSUME NEW q \in Terminal, NEW r \in Terminal, q # r,
                      proc'[q] # Idle, proc'[r] # Idle
               PROVE  proc'[q].run # proc'[r].run
    BY DEF RunsApart
  <2>1. CASE q = p
    BY <2>1, <1>1, <1>2, <1>6
  <2>2. CASE r = p
    BY <2>2, <1>1, <1>2, <1>6
  <2>3. CASE q # p /\ r # p
    BY <2>3, <1>1 DEF LabelInv, RunsApart
  <2> QED
    BY <2>1, <2>2, <2>3
<1>8. (\A c \in missed : c[1] \in Nat /\ c[1] <= run) /\ (\A r \in complete : r \in Nat /\ r <= run)
  <2>1. \A c \in missed : c[1] \in Run
    BY <1>4 DEF Customer
  <2> QED
    BY <2>1, <1>4 DEF LabelInv, Past, Run
<1>9. Past'
  BY <1>1, <1>3, <1>8 DEF Past
<1>10. Unfinished'
  <2> SUFFICES ASSUME NEW q \in Terminal, Generating(q)'
               PROVE  /\ proc'[q].run \notin complete
                      /\ proc'[q].cmd = "generate_50k" =>
                           \A c \in customers \cap missed :
                             c[1] = proc'[q].run /\ c[2] < proc'[q].part => Hit(c)
    BY <1>3 DEF Unfinished, Hit
  <2>1. CASE q = p
    <3>1. run + 1 \notin complete /\ \A c \in missed : c[1] # run + 1
      BY <1>8, <1>1
    <3> QED
      BY <2>1, <3>1, <1>1, <1>2
  <2>2. CASE q # p
    BY <2>2, <1>1 DEF LabelInv, Unfinished, Generating
  <2> QED
    BY <2>1, <2>2
<1>11. Evented'
  BY <1>3 DEF LabelInv, Evented, Hit
<1>12. Truth'
  BY <1>1, <1>2, <1>3 DEF LabelInv, Truth, TrueRow
<1> QED
  BY <1>7, <1>9, <1>10, <1>11, <1>12 DEF LabelInv

LEMMA EndLabels ==
  ASSUME TypeOK, LabelInv, NEW p \in Terminal, Ended(p),
         run' = run, UNCHANGED generated, missed' = missed, complete' = complete
  PROVE  LabelInv'
<1>1. proc'[p] = Idle /\ (\A q \in Terminal \ {p} : proc'[q] = proc[q])
      /\ customers' = customers /\ rows' = rows
  BY DEF Ended, generated
<1>2. RunsApart'
  BY <1>1 DEF LabelInv, RunsApart
<1>3. Past'
  BY DEF LabelInv, Past
<1>4. Unfinished'
  BY <1>1 DEF LabelInv, Unfinished, Generating, Hit
<1>5. Evented'
  BY <1>1 DEF LabelInv, Evented, Hit
<1>6. Idle.data = {}
  BY DEF Idle
<1>7. Truth'
  BY <1>1, <1>6 DEF LabelInv, Truth, TrueRow
<1> QED
  BY <1>2, <1>3, <1>4, <1>5, <1>7 DEF LabelInv

\* A terminal at an access of its generator.
LEMMA AtGenerating ==
  ASSUME TypeOK, NEW p \in Terminal, NEW a \in GenStep, At(p, a)
  PROVE  /\ Generating(p) /\ proc[p] # Idle
         /\ a = "events" => proc[p].step = GenEnd[proc[p].cmd]
<1>1. proc[p].cmd \in Command /\ proc[p].step \in Nat \ {0}
      /\ proc[p].step <= Len(Program[proc[p].cmd]) /\ Program[proc[p].cmd][proc[p].step] = a
  BY AtType
<1> QED
  BY <1>1, Places DEF Generating, At, Running

LEMMA CustomersLabels ==
  ASSUME TypeOK, LabelInv, NEW p \in Terminal, SaveCustomers(p)
  PROVE  LabelInv'
<1>1. At(p, "customers") /\ run' = run /\ Advance(p, 1)
      /\ customers' = customers \cup Members(p) /\ rows' = rows /\ complete' = complete
  BY DEF SaveCustomers
<1>2. Generating(p) /\ proc[p] # Idle
  BY <1>1, AtGenerating DEF GenStep
<1>3. Moved(p, proc[p].part, proc[p].step + 1, proc[p].frame, proc[p].data)
  BY <1>1, AdvancesOne
<1>4. proc[p] \in ProcState /\ proc[p].run <= run /\ proc[p].run \in Nat
      /\ proc[p].step \in Nat /\ proc[p].cmd \in Command /\ proc[p].part \in 1..Size
  BY <1>1, AtType DEF ProcState, Run
<1>5. /\ Members(p) \subseteq Customer
      /\ \A c \in Members(p) : c[1] = proc[p].run
      /\ \A c \in Customer : c[1] = proc[p].run =>
           (c \in Members(p) <=> proc[p].cmd # "generate_50k" \/ c[2] = proc[p].part)
  BY <1>1, MembersType
<1>6. missed \subseteq missed' /\ missed' \subseteq missed \cup Members(p)
  BY DEF SaveCustomers, Simulate, MayMiss, HasLoan
<1>7. customers \subseteq Customer /\ missed \subseteq Customer
  BY DEF TypeOK
<1>8. proc[p].run \notin complete
  BY <1>2 DEF LabelInv, Unfinished
<1>9. RunsApart'
  BY <1>2, <1>3, RunsKept DEF LabelInv
<1>10. Past'
  BY <1>1, <1>4, <1>5, <1>6 DEF LabelInv, Past
<1>11. Unfinished'
  <2> SUFFICES ASSUME NEW q \in Terminal, Generating(q)'
               PROVE  /\ proc'[q].run \notin complete
                      /\ proc'[q].cmd = "generate_50k" =>
                           \A c \in customers' \cap missed' :
                             c[1] = proc'[q].run /\ c[2] < proc'[q].part => Hit(c)
    BY <1>1 DEF Unfinished, Hit
  <2>1. proc[q] # Idle /\ Generating(q) /\ proc'[q].run = proc[q].run
        /\ proc'[q].cmd = proc[q].cmd /\ proc'[q].part = proc[q].part
    BY <1>2, <1>3 DEF Generating, Moved
  <2>2. proc[q].run \notin complete
    BY <2>1 DEF LabelInv, Unfinished
  <2>3. ASSUME proc[q].cmd = "generate_50k", NEW c \in customers' \cap missed',
               c[1] = proc[q].run, c[2] < proc[q].part
        PROVE  Hit(c)
    <3>1. c \notin Members(p)
      <4>1. CASE q = p
        <5>1. c \in Members(p) => c[2] = proc[p].part
          BY <1>5, <2>3, <4>1
        <5>2. proc[p].part \in Nat
          BY <1>4
        <5> QED
          BY <5>1, <5>2, <2>3, <4>1
      <4>2. CASE q # p
        <5>1. proc[q].run # proc[p].run
          BY <2>1, <1>2, <4>2 DEF LabelInv, RunsApart
        <5> QED
          BY <5>1, <1>5, <2>3
      <4> QED
        BY <4>1, <4>2
    <3>2. c \in customers \cap missed
      BY <3>1, <2>3, <1>1, <1>6
    <3> QED
      BY <3>2, <2>1, <2>3 DEF LabelInv, Unfinished
  <2> QED
    BY <2>1, <2>2, <2>3
<1>12. Evented'
  <2>1. ASSUME NEW c \in customers' \cap missed', c[1] \in complete PROVE Hit(c)
    <3>1. c \in customers \cap missed
      BY <2>1, <1>1, <1>5, <1>6, <1>8
    <3> QED
      BY <3>1, <2>1 DEF LabelInv, Evented
  <2> QED
    BY <2>1, <1>1, <1>6 DEF LabelInv, Evented, Hit
<1>13. Truth'
  <2> SUFFICES ASSUME NEW q \in Terminal, NEW x \in proc'[q].data PROVE TrueRow(x)'
    BY DEF Truth
  <2>1. TrueRow(x)
    BY <1>3 DEF Moved, LabelInv, Truth
  <2>2. ASSUME x.settled
        PROVE  x.cust[1] \in complete /\ (x.label <=> x.cust \in missed')
    BY <2>1, <2>2, <1>5, <1>6, <1>8 DEF TrueRow
  <2> QED
    BY <2>2, <1>1 DEF TrueRow
<1> QED
  BY <1>9, <1>10, <1>11, <1>12, <1>13 DEF LabelInv

LEMMA SaveLabels ==
  ASSUME TypeOK, LabelInv, NEW p \in Terminal, NEW t \in Saved, Save(p, t)
  PROVE  LabelInv'
<1>1. At(p, t) /\ run' = run /\ customers' = customers /\ missed' = missed
  BY DEF Save
<1>2. PICK new \in [Listed(p, t) -> Portion] :
        (\A c \in Listed(p, t) : new[c] >= rows[t][c]) /\ Chunk(p, t, new)
  BY SaveChunk
<1>3. Generating(p) /\ proc[p] # Idle /\ (t = "events" => proc[p].step = GenEnd[proc[p].cmd])
  BY <1>1, AtGenerating DEF GenStep, Saved
<1>4. proc[p] \in ProcState /\ proc[p].run <= run /\ proc[p].run \in Run
      /\ proc[p].step \in Nat /\ proc[p].cmd \in Command /\ proc[p].part \in 1..Size
      /\ GenEnd[proc[p].cmd] \in Nat
  BY <1>1, AtType, Lengths
<1>5. /\ Members(p) \subseteq Customer
      /\ \A c \in Members(p) : c[1] = proc[p].run
      /\ \A c \in Customer : c[1] = proc[p].run =>
           (c \in Members(p) <=> proc[p].cmd # "generate_50k" \/ c[2] = proc[p].part)
  BY <1>1, MembersType
<1>6. customers \subseteq Customer /\ missed \subseteq Customer
      /\ rows \in [Saved -> [Customer -> Portion]]
  BY DEF TypeOK
<1>7. /\ rows' \in [Saved -> [Customer -> Portion]]
      /\ \A u \in Saved \ {t} : rows'[u] = rows[u]
      /\ \A c \in Customer :
           rows'[t][c] = IF c \in Listed(p, t) THEN new[c] ELSE rows[t][c]
  BY <1>2, SaveRows DEF Chunk
<1>8. \A c \in Customer : rows["events"][c] \in Nat
  BY <1>6 DEF Saved, Portion
<1> DEFINE ended == \A c \in Listed(p, t) : new[c] = Rows
           over == ended /\ t = "events" /\ proc[p].part = Parts(proc[p].cmd)
<1>9. /\ IF ended THEN NextTable(p, t) ELSE UNCHANGED proc
      /\ complete' = IF over THEN complete \cup {proc[p].run} ELSE complete
  BY <1>2 DEF Chunk
<1>10. \A c \in Customer : Hit(c) => Hit(c)'
  <2> SUFFICES ASSUME NEW c \in Customer, Hit(c) PROVE Hit(c)'
    OBVIOUS
  <2>1. CASE t = "events" /\ c \in Listed(p, t)
    <3>1. new[c] \in Nat /\ new[c] >= rows["events"][c] /\ rows'["events"][c] = new[c]
      BY <2>1, <1>2, <1>7 DEF Portion
    <3> QED
      BY <3>1, <1>8 DEF Hit
  <2>2. CASE t = "events" /\ c \notin Listed(p, t)
    BY <2>2, <1>7 DEF Hit
  <2>3. CASE t # "events"
    BY <2>3, <1>7 DEF Hit, Saved
  <2> QED
    BY <2>1, <2>2, <2>3
<1>11. \A c \in Customer : Hit(c)' => Hit(c) \/ (t = "events" /\ c \in Listed(p, t))
  BY <1>7 DEF Hit, Saved
<1>12. ASSUME ended, t = "events", NEW c \in Members(p) \cap missed
       PROVE  Hit(c)'
  <2>1. c \in Listed(p, t) /\ c \in Customer
    BY <1>12, <1>5 DEF Listed
  <2>2. rows'["events"][c] = Rows
    BY <2>1, <1>7, <1>12
  <2> QED
    BY <2>2, TrainingDataAssumption DEF Hit
<1> HIDE DEF ended
<1>13. \/ /\ ~ended /\ proc' = proc
       \/ /\ ended /\ t = "events" /\ proc[p].part < Parts(proc[p].cmd)
          /\ Moved(p, proc[p].part + 1, 3, proc[p].frame, proc[p].data)
       \/ /\ ended /\ ~(t = "events" /\ proc[p].part < Parts(proc[p].cmd))
          /\ Moved(p, proc[p].part, proc[p].step + 1, proc[p].frame, proc[p].data)
  <2>1. CASE ended
    BY <2>1, <1>1, <1>9, NextTableMoves
  <2>2. CASE ~ended
    BY <2>2, <1>9
  <2> QED
    BY <2>1, <2>2
<1>14. \A q \in Terminal : proc'[q] # Idle =>
         proc[q] # Idle /\ proc'[q].run = proc[q].run /\ proc'[q].cmd = proc[q].cmd
         /\ proc'[q].data = proc[q].data
  BY <1>13, <1>3 DEF Moved
<1>15. RunsApart'
  BY <1>14 DEF LabelInv, RunsApart
<1>16. complete \subseteq complete' /\ complete' \subseteq complete \cup {proc[p].run}
  BY <1>9
<1>17. Past'
  BY <1>1, <1>4, <1>16 DEF LabelInv, Past
<1>18. Evented'
  <2>1. ASSUME NEW c \in Customer, Hit(c)' PROVE c \in missed
    <3>1. CASE Hit(c)
      BY <3>1 DEF LabelInv, Evented
    <3>2. CASE t = "events" /\ c \in Listed(p, t)
      BY <3>2 DEF Listed
    <3> QED
      BY <2>1, <1>11, <3>1, <3>2
  <2>2. ASSUME NEW c \in customers \cap missed, c[1] \in complete' PROVE Hit(c)'
    <3>1. CASE c[1] \in complete
      BY <3>1, <1>6, <1>10 DEF LabelInv, Evented
    <3>2. CASE c[1] \notin complete
      <4>1. over /\ c[1] = proc[p].run
        BY <2>2, <3>2, <1>9
      <4>2. CASE c \in Members(p)
        BY <4>1, <4>2, <1>12
      <4>3. CASE c \notin Members(p)
        <5>1. proc[p].cmd = "generate_50k" /\ c[2] # proc[p].part
          BY <4>1, <4>3, <1>5, <1>6
        <5>2. proc[p].part = Size
          BY <4>1, <5>1 DEF Parts
        <5>3. c[2] \in 1..Size
          BY <1>6 DEF Customer
        <5>4. c[2] < proc[p].part
          BY <5>1, <5>2, <5>3, TrainingDataAssumption
        <5>5. Hit(c)
          BY <4>1, <5>1, <5>4, <1>3 DEF LabelInv, Unfinished
        <5> QED
          BY <5>5, <1>6, <1>10
      <4> QED
        BY <4>2, <4>3
    <3> QED
      BY <3>1, <3>2
  <2> QED
    BY <1>1, <2>1, <2>2 DEF Evented
<1>19. Unfinished'
  <2> SUFFICES ASSUME NEW q \in Terminal, Generating(q)'
               PROVE  /\ proc'[q].run \notin complete'
                      /\ proc'[q].cmd = "generate_50k" =>
                           \A c \in customers \cap missed :
                             c[1] = proc'[q].run /\ c[2] < proc'[q].part => Hit(c)'
    BY <1>1 DEF Unfinished
  <2>1. proc[q] # Idle /\ proc'[q].run = proc[q].run /\ proc'[q].cmd = proc[q].cmd
    BY <1>14 DEF Generating
  <2>2. CASE q # p
    <3>1. proc'[q] = proc[q]
      BY <2>2, <1>13 DEF Moved
    <3>2. proc[q].run # proc[p].run
      BY <2>1, <2>2, <1>3 DEF LabelInv, RunsApart
    <3>3. Generating(q)
      BY <3>1 DEF Generating
    <3> QED
      BY <3>1, <3>2, <3>3, <1>6, <1>10, <1>16 DEF LabelInv, Unfinished
  <2>3. CASE q = p /\ ~ended
    <3>1. proc' = proc /\ complete' = complete
      BY <2>3, <1>13, <1>9
    <3> QED
      BY <3>1, <2>3, <1>3, <1>6, <1>10 DEF LabelInv, Unfinished
  <2>4. CASE /\ q = p /\ ended /\ t = "events" /\ proc[p].part < Parts(proc[p].cmd)
    <3>1. complete' = complete /\ proc'[p].part = proc[p].part + 1
      <4>1. ~over
        BY <2>4, <1>4, TrainingDataAssumption DEF Parts
      <4>2. Moved(p, proc[p].part + 1, 3, proc[p].frame, proc[p].data)
        BY <2>4, <1>13
      <4> QED
        BY <4>1, <4>2, <1>9 DEF Moved
    <3>2. ASSUME proc[p].cmd = "generate_50k", NEW c \in customers \cap missed,
                 c[1] = proc[p].run, c[2] < proc[p].part + 1
          PROVE  Hit(c)'
      <4>1. c \in Customer /\ c[2] \in Nat /\ proc[p].part \in Nat
        BY <1>4, <1>6 DEF Customer
      <4>2. CASE c[2] = proc[p].part
        <5>1. c \in Members(p)
          BY <4>1, <4>2, <3>2, <1>5
        <5> QED
          BY <5>1, <2>4, <1>12
      <4>3. CASE c[2] # proc[p].part
        <5>1. c[2] < proc[p].part
          BY <4>1, <4>3, <3>2
        <5>2. Hit(c)
          BY <5>1, <3>2, <1>3 DEF LabelInv, Unfinished
        <5> QED
          BY <5>2, <4>1, <1>10
      <4> QED
        BY <4>2, <4>3
    <3>3. proc[p].run \notin complete
      BY <1>3 DEF LabelInv, Unfinished
    <3> QED
      BY <2>1, <2>4, <3>1, <3>2, <3>3
  <2>5. CASE /\ q = p /\ ended /\ t = "events" /\ ~(proc[p].part < Parts(proc[p].cmd))
    <3>1. Moved(p, proc[p].part, proc[p].step + 1, proc[p].frame, proc[p].data)
      BY <2>5, <1>13
    <3>2. proc'[p].step = GenEnd[proc[p].cmd] + 1 /\ proc'[p].cmd = proc[p].cmd
      BY <3>1, <2>5, <1>3 DEF Moved
    <3>3. ~Generating(p)'
      BY <3>2, <1>4 DEF Generating
    <3> QED
      BY <3>3, <2>5
  <2>6. CASE q = p /\ ended /\ t # "events"
    <3>1. complete' = complete /\ proc'[p].part = proc[p].part
      BY <2>6, <1>9, <1>13 DEF Moved
    <3> QED
      BY <3>1, <2>1, <2>6, <1>3, <1>6, <1>10 DEF LabelInv, Unfinished
  <2> QED
    BY <2>2, <2>3, <2>4, <2>5, <2>6
<1>20. Truth'
  <2> SUFFICES ASSUME NEW q \in Terminal, NEW x \in proc'[q].data PROVE TrueRow(x)'
    BY DEF Truth
  <2>1. proc'[q].data = proc[q].data
    BY <1>13 DEF Moved
  <2>2. TrueRow(x)
    BY <2>1 DEF LabelInv, Truth
  <2> QED
    BY <2>2, <1>1, <1>16 DEF TrueRow
<1> QED
  BY <1>15, <1>17, <1>18, <1>19, <1>20 DEF LabelInv

\* The datasets at hand are true, and so is a join before its labels are read.
LEMMA TrueData ==
  ASSUME LabelInv, NEW p \in Terminal
  PROVE  \A x \in proc[p].data : TrueRow(x)
  BY DEF LabelInv, Truth

LEMMA TrueMerged ==
  ASSUME NEW f, NEW g
  PROVE  \A x \in Merged(f, g) : TrueRow(x)
<1>1. \A x \in Merged(f, g) : x.settled = FALSE
  BY DEF Merged
<1> QED
  BY <1>1 DEF TrueRow

LEMMA TrueLabelled ==
  ASSUME TypeOK, LabelInv, NEW p \in Terminal, proc[p] \in ProcState
  PROVE  \A x \in {Labelled(d) : d \in proc[p].data} : TrueRow(x)
<1> SUFFICES ASSUME NEW d \in proc[p].data PROVE TrueRow(Labelled(d))
  OBVIOUS
<1>1. d \in DataRow /\ d.cust \in Customer
  BY DEF ProcState, DataRow
<1>2. /\ Labelled(d).cust = d.cust
      /\ Labelled(d).label = (rows["events"][d.cust] > 0)
      /\ Labelled(d).settled = (d.cust[1] \in complete /\ d.cust \in customers)
  BY <1>1, LabelledType
<1>3. d.cust[1] \in complete /\ d.cust \in customers
        => (rows["events"][d.cust] > 0 <=> d.cust \in missed)
  BY <1>1 DEF LabelInv, Evented, Hit
<1> QED
  BY <1>2, <1>3 DEF TrueRow

LEMMA BuildLabels ==
  ASSUME TypeOK, LabelInv, NEW p \in Terminal, Build(p)
  PROVE  LabelInv'
<1>1. run' = run /\ customers' = customers /\ rows' = rows /\ missed' = missed
      /\ complete' = complete
  BY DEF Build, ReadStream, ReadBatch, ReadEvents, generated, history
<1>2. CASE ReadStream(p)
  <2>1. proc[p] # Idle
    BY <1>2 DEF ReadStream, At, Running
  <2>2. Moved(p, proc[p].part, proc[p].step + 1, stream.rows, proc[p].data)
    BY <1>2, ReadStreamMoves
  <2> QED
    BY <1>1, <2>1, <2>2, TrueData, QuietStep
<1>3. CASE ReadBatch(p)
  <2>1. proc[p] # Idle
    BY <1>3 DEF ReadBatch, At, Running
  <2>2. PICK k \in {1, 2} :
          Moved(p, proc[p].part, proc[p].step + k, {}, Merged(proc[p].frame, batch.rows))
    BY <1>3, ReadBatchMoves
  <2>3. k \in Nat
    OBVIOUS
  <2> QED
    BY <1>1, <2>1, <2>2, <2>3, TrueMerged, QuietStep
<1>4. CASE ReadEvents(p)
  <2>1. proc[p] # Idle /\ proc[p] \in ProcState
    BY <1>4, AtType DEF ReadEvents, At, Running
  <2>2. Moved(p, proc[p].part, proc[p].step + 1, proc[p].frame, {Labelled(d) : d \in proc[p].data})
    BY <1>4, ReadEventsMoves
  <2> QED
    BY <1>1, <2>1, <2>2, TrueLabelled, QuietStep
<1> QED
  BY <1>2, <1>3, <1>4 DEF Build

LEMMA ComputeLabels ==
  ASSUME TypeOK, LabelInv, NEW p \in Terminal, Compute(p)
  PROVE  LabelInv'
<1>1. run' = run /\ customers' = customers /\ rows' = rows /\ missed' = missed
      /\ complete' = complete /\ proc[p] # Idle
  BY DEF Compute, Load, Aggregate, Drop, WriteStream, WriteBatch, SqlFeatures, SqlFails,
         generated, history, At, Running
<1>2. \A x \in proc[p].data : TrueRow(x)
  BY TrueData
<1>3. CASE Load(p)
  BY <1>1, <1>2, <1>3, LoadMoves, QuietStep
<1>4. CASE Aggregate(p)
  <2>1. CASE Moved(p, proc[p].part, proc[p].step + 3, {}, proc[p].data)
    BY <1>1, <1>2, <2>1, QuietStep
  <2>2. CASE Moved(p, proc[p].part, proc[p].step + 1, Aggregated(p), proc[p].data)
    BY <1>1, <1>2, <2>2, QuietStep
  <2> QED
    BY <1>4, <2>1, <2>2, AggregateMoves
<1>5. ASSUME NEW k \in {1, 2}, Passes(p, k) PROVE LabelInv'
  <2>1. k \in Nat
    OBVIOUS
  <2> QED
    BY <1>1, <1>2, <1>5, <2>1, QuietStep DEF Passes
<1>6. CASE Drop(p) \/ WriteStream(p) \/ WriteBatch(p)
  <2>1. Passes(p, 1)
    BY <1>6, AdvancesOne DEF Drop, WriteStream, WriteBatch, Passes
  <2> QED
    BY <2>1, <1>5
<1>7. CASE SqlFeatures(p) \/ SqlFails(p)
  BY <1>5, <1>7, SqlMoves, SqlFailsMoves
<1> QED
  BY <1>3, <1>4, <1>6, <1>7 DEF Compute

LEMMA GenerateLabels ==
  ASSUME TypeOK, LabelInv, NEW p \in Terminal, Generate(p)
  PROVE  LabelInv'
<1>1. \A x \in proc[p].data : TrueRow(x)
  BY TrueData
<1>2. CASE Create(p)
  <2>1. Passes(p, 1) /\ proc[p] # Idle
    BY <1>2, AdvancesOne DEF Create, Passes, At, Running
  <2>2. run' = run /\ customers' = customers /\ rows' = rows /\ missed' = missed
        /\ complete' = complete
    BY <1>2 DEF Create, history
  <2> QED
    BY <1>1, <2>1, <2>2, QuietStep DEF Passes
<1>3. CASE Truncate(p)
  <2>1. Passes(p, 1) /\ proc[p] # Idle
    BY <1>3, AdvancesOne DEF Truncate, Passes, At, Running
  <2>2. run' = run /\ missed' = missed /\ complete' = complete
    BY <1>3 DEF Truncate, history
  <2>3. \/ customers' = {} /\ rows' = NoRows
        \/ customers' = customers /\ rows' = rows
    BY <1>3, TruncateEffect
  <2> QED
    BY <1>1, <2>1, <2>2, <2>3, QuietStep DEF Passes
<1> QED
  BY <1>2, <1>3, CustomersLabels, SaveLabels DEF Generate

LEMMA LabelStep == ASSUME TypeOK, LabelInv, [Next]_vars PROVE LabelInv'
<1>1. ASSUME NEW p \in Terminal, Raise(p) \/ Die(p) PROVE LabelInv'
  <2>1. run' = run /\ proc' = [proc EXCEPT ![p] = Idle] /\ UNCHANGED <<generated, history>>
    BY <1>1 DEF Raise, Die
  <2>2. Ended(p)
    BY <2>1, Ends
  <2> QED
    BY <2>1, <2>2, EndLabels DEF history
<1>2. CASE UNCHANGED vars
  BY <1>2 DEF vars, generated, history, LabelInv, RunsApart, Past, Unfinished, Generating, Hit,
              Evented, Truth, TrueRow
<1>3. CASE Next
  <2>1. PICK p \in Terminal :
          \/ \E cmd \in Command : Start(p, cmd)
          \/ Generate(p) \/ Compute(p) \/ Build(p) \/ Raise(p) \/ Die(p)
    BY <1>3 DEF Next
  <2> QED
    BY <2>1, <1>1, StartLabels, GenerateLabels, ComputeLabels, BuildLabels
<1> QED
  BY <1>2, <1>3

LEMMA LabelInit == ASSUME Init PROVE LabelInv
<1>1. \A p \in Terminal : proc[p] = Idle
  BY DEF Init
<1>2. \A c \in Customer : rows["events"][c] = 0
  BY DEF Init, NoRows, Saved
<1>3. Idle.data = {}
  BY DEF Idle
<1>4. RunsApart /\ Unfinished /\ Truth
  BY <1>1, <1>3 DEF RunsApart, Unfinished, Generating, Truth
<1>5. Past /\ Evented
  BY <1>2 DEF Init, Past, Evented, Hit
<1> QED
  BY <1>4, <1>5 DEF LabelInv

\* Whatever overlaps and dies, a customer whose generation was complete, and who was
\* still there, when the labels were read, is trained on with the true label.
THEOREM TrueLabels == Spec => []LabelsTrue
<1>1. Init => TypeOK /\ LabelInv
  BY TypeInit, LabelInit
<1>2. TypeOK /\ LabelInv /\ [Next]_vars => TypeOK' /\ LabelInv'
  BY TypeStep, LabelStep
<1>3. LabelInv => LabelsTrue
  BY DEF LabelInv, Truth, TrueRow, LabelsTrue
<1> QED
  BY <1>1, <1>2, <1>3, PTL DEF Spec

-----------------------------------------------------------------------------
(* No customer twice.                                                      *)

EachIn(S) == \A d, e \in S : d.cust = e.cust => d = e

\* One command at a time; each table and frame names a customer once; from its drop to
\* its appends retrain_large.py finds the tables empty.
Lone ==
  /\ \A p, q \in Terminal : Running(p) /\ Running(q) => p = q
  /\ EachIn(stream.rows) /\ EachIn(batch.rows)
  /\ \A p \in Terminal : proc[p] # Idle => EachIn(proc[p].frame) /\ EachIn(proc[p].data)
  /\ \A p \in Terminal : Running(p) /\ proc[p].cmd = "retrain_large" =>
       /\ proc[p].step \in 2..4 => stream.rows = {}
       /\ proc[p].step \in 2..5 => batch.rows = {}

OnceInv == alone => Lone

\* An access of p, alone, after which frame and dataset name nobody twice.
LEMMA LoneStep ==
  ASSUME Lone, NEW p \in Terminal, Running(p),
         NEW part, NEW n, NEW f, NEW d, Moved(p, part, n, f, d),
         EachIn(f), EachIn(d), EachIn(stream'.rows), EachIn(batch'.rows),
         proc[p].cmd = "retrain_large" =>
           /\ n \in 2..4 => stream'.rows = {}
           /\ n \in 2..5 => batch'.rows = {}
  PROVE  Lone'
<1>1. \A q \in Terminal \ {p} : proc'[q] = proc[q]
  BY DEF Moved
<1>2. proc'[p].cmd = proc[p].cmd /\ proc'[p].step = n
      /\ proc'[p].frame = f /\ proc'[p].data = d
  BY DEF Moved
<1>3. \A q \in Terminal : Running(q)' => q = p
  BY <1>1 DEF Running, Lone
<1>4. \A q \in Terminal : proc'[q] # Idle => EachIn(proc'[q].frame) /\ EachIn(proc'[q].data)
  BY <1>1, <1>2 DEF Lone
<1> QED
  BY <1>2, <1>3, <1>4 DEF Lone, EachIn

LEMMA RetrainPlace ==
  ASSUME TypeOK, NEW p \in Terminal, NEW a, At(p, a), proc[p].cmd = "retrain_large"
  PROVE  /\ proc[p].step \in Nat \ {0} /\ Running(p)
         /\ a = "drop" <=> proc[p].step = 1
         /\ a = "load" <=> proc[p].step = 2
         /\ a = "aggregate" <=> proc[p].step = 3
         /\ a = "stream" <=> proc[p].step = 4
         /\ a = "batch" <=> proc[p].step = 5
<1>1. proc[p].cmd \in Command /\ proc[p].step \in Nat \ {0}
      /\ proc[p].step <= Len(Program[proc[p].cmd]) /\ Program[proc[p].cmd][proc[p].step] = a
  BY AtType
<1> QED
  BY <1>1, Places DEF At

\* Any access but the five: the tables are what they were, or fewer rows, or new ones.
LEMMA LonePasses ==
  ASSUME TypeOK, Lone, NEW p \in Terminal, NEW a, At(p, a),
         a \notin {"drop", "load", "aggregate", "stream", "batch"},
         NEW part, NEW n, NEW f, NEW d, Moved(p, part, n, f, d),
         n > proc[p].step \/ proc[p].cmd # "retrain_large", n \in Nat,
         EachIn(f), EachIn(d), EachIn(stream'.rows), EachIn(batch'.rows)
  PROVE  Lone'
<1>1. proc[p].cmd = "retrain_large" => n \notin 2..5
  BY RetrainPlace
<1>2. Running(p)
  BY DEF At
<1>3. \A m \in 2..4 : m \in 2..5
  OBVIOUS
<1>4. proc[p].cmd = "retrain_large" =>
        /\ n \in 2..4 => stream'.rows = {}
        /\ n \in 2..5 => batch'.rows = {}
  BY <1>1, <1>3
<1> QED
  BY <1>2, <1>4, LoneStep

LEMMA MineEach ==
  ASSUME TypeOK, Lone, NEW p \in Terminal, NEW a, At(p, a)
  PROVE  EachIn(proc[p].frame) /\ EachIn(proc[p].data) /\ proc[p].step \in Nat
         /\ EachIn(stream.rows) /\ EachIn(batch.rows)
<1>1. proc[p].step \in Nat \ {0}
  BY AtType
<1> QED
  BY <1>1 DEF At, Running, Lone

LEMMA EachMade ==
  ASSUME TypeOK, NEW p \in Terminal
  PROVE  /\ EachIn({[cust |-> c, by |-> proc[p].run, saw |-> 0] : c \in customers})
         /\ EachIn(Selected(p).rows)
         /\ proc[p].frame \subseteq FeatureRow /\ EachIn(proc[p].frame) => EachIn(Aggregated(p))
<1>1. EachIn({[cust |-> c, by |-> proc[p].run, saw |-> 0] : c \in customers})
  BY DEF EachIn
<1>2. EachIn(Selected(p).rows)
  BY DEF EachIn, Selected
<1>3. ASSUME proc[p].frame \subseteq FeatureRow, EachIn(proc[p].frame)
      PROVE  EachIn(Aggregated(p))
  <2> SUFFICES ASSUME NEW d \in Aggregated(p), NEW e \in Aggregated(p), d.cust = e.cust
               PROVE  d = e
    BY DEF EachIn
  <2>1. PICK f \in proc[p].frame : d = [f EXCEPT !.saw = rows["transactions"][f.cust]]
    BY DEF Aggregated
  <2>2. PICK g \in proc[p].frame : e = [g EXCEPT !.saw = rows["transactions"][g.cust]]
    BY DEF Aggregated
  <2>3. d.cust = f.cust /\ e.cust = g.cust
    BY <1>3, <2>1, <2>2 DEF FeatureRow
  <2>4. f = g
    BY <1>3, <2>3 DEF EachIn
  <2> QED
    BY <2>1, <2>2, <2>4
<1> QED
  BY <1>1, <1>2, <1>3

LEMMA EachMerged ==
  ASSUME NEW f \in SUBSET FeatureRow, NEW g \in SUBSET FeatureRow, EachIn(f), EachIn(g)
  PROVE  EachIn(Merged(f, g))
<1> SUFFICES ASSUME NEW d \in Merged(f, g), NEW e \in Merged(f, g), d.cust = e.cust
             PROVE  d = e
  BY DEF EachIn
<1>1. PICK q \in f \X g : q[1].cust = q[2].cust /\
        d = [cust |-> q[1].cust, stream |-> q[1].by, batch |-> q[2].by,
             saw |-> q[1].saw, label |-> FALSE, settled |-> FALSE]
  BY DEF Merged
<1>2. PICK r \in f \X g : r[1].cust = r[2].cust /\
        e = [cust |-> r[1].cust, stream |-> r[1].by, batch |-> r[2].by,
             saw |-> r[1].saw, label |-> FALSE, settled |-> FALSE]
  BY DEF Merged
<1>3. q[1] \in f /\ r[1] \in f /\ q[2] \in g /\ r[2] \in g
  OBVIOUS
<1>4. q[1].cust = r[1].cust /\ q[2].cust = r[2].cust
  BY <1>1, <1>2
<1>5. q[1] = r[1] /\ q[2] = r[2]
  BY <1>3, <1>4 DEF EachIn
<1> QED
  BY <1>1, <1>2, <1>5

LEMMA EachLabelled ==
  ASSUME TypeOK, NEW data \in SUBSET DataRow, EachIn(data)
  PROVE  EachIn({Labelled(d) : d \in data})
<1> SUFFICES ASSUME NEW d \in data, NEW e \in data, Labelled(d).cust = Labelled(e).cust
             PROVE  Labelled(d) = Labelled(e)
  BY DEF EachIn
<1>1. d.cust = e.cust
  BY LabelledType
<1> QED
  BY <1>1 DEF EachIn

LEMMA LoneStart ==
  ASSUME TypeOK, Lone, NEW p \in Terminal, NEW cmd \in Command, Start(p, cmd),
         \A q \in Terminal : ~Running(q)
  PROVE  Lone'
<1> DEFINE x == [cmd |-> cmd, run |-> run + 1, step |-> 1, part |-> 1, frame |-> {}, data |-> {}]
<1>1. proc'[p] = x /\ \A q \in Terminal \ {p} : proc'[q] = proc[q]
  BY StartType
<1>2. x.frame = {} /\ x.data = {} /\ x.step = 1
  OBVIOUS
<1> HIDE DEF x
<1>3. stream' = stream /\ batch' = batch
  BY DEF Start, features
<1>4. \A q \in Terminal : Running(q)' => q = p
  BY <1>1 DEF Running
<1>5. \A q \in Terminal : proc'[q] # Idle => EachIn(proc'[q].frame) /\ EachIn(proc'[q].data)
  BY <1>1, <1>2 DEF Lone, EachIn
<1>6. proc'[p].step \notin 2..4 /\ proc'[p].step \notin 2..5
  BY <1>1, <1>2
<1> QED
  BY <1>3, <1>4, <1>5, <1>6 DEF Lone, EachIn

LEMMA LoneGenerate ==
  ASSUME TypeOK, Lone, NEW p \in Terminal, Generate(p)
  PROVE  Lone'
<1>1. CASE Create(p)
  <2>1. At(p, "create") /\ stream' = stream /\ batch' = batch
        /\ Moved(p, proc[p].part, proc[p].step + 1, proc[p].frame, proc[p].data)
    BY <1>1, AdvancesOne DEF Create, features
  <2> QED
    BY <2>1, MineEach, LonePasses
<1>2. CASE Truncate(p)
  <2>1. At(p, "truncate")
        /\ Moved(p, proc[p].part, proc[p].step + 1, proc[p].frame, proc[p].data)
    BY <1>2, AdvancesOne DEF Truncate
  <2>2. EachIn(stream'.rows) /\ EachIn(batch'.rows)
    BY <1>2, <2>1, MineEach, TruncateEffect DEF EachIn
  <2> QED
    BY <2>1, <2>2, MineEach, LonePasses
<1>3. CASE SaveCustomers(p)
  <2>1. At(p, "customers") /\ stream' = stream /\ batch' = batch
        /\ Moved(p, proc[p].part, proc[p].step + 1, proc[p].frame, proc[p].data)
    BY <1>3, AdvancesOne DEF SaveCustomers, features
  <2> QED
    BY <2>1, MineEach, LonePasses
<1>4. ASSUME NEW t \in Saved, Save(p, t) PROVE Lone'
  <2>1. At(p, t) /\ stream' = stream /\ batch' = batch /\ run' = run
    BY <1>4 DEF Save, features
  <2>2. t \notin {"drop", "load", "aggregate", "stream", "batch"}
    BY DEF Saved
  <2>3. proc' = proc \/ NextTable(p, t)
    BY <1>4 DEF Save
  <2>4. CASE proc' = proc
    BY <2>1, <2>4 DEF Lone, Running, EachIn
  <2>5. CASE NextTable(p, t)
    <3>1. CASE proc[p].cmd = "generate_50k"
               /\ Moved(p, proc[p].part + 1, 3, proc[p].frame, proc[p].data)
      BY <2>1, <2>2, <3>1, MineEach, LonePasses
    <3>2. CASE Moved(p, proc[p].part, proc[p].step + 1, proc[p].frame, proc[p].data)
      BY <2>1, <2>2, <3>2, MineEach, LonePasses
    <3> QED
      BY <2>1, <2>5, <3>1, <3>2, NextTableMoves
  <2> QED
    BY <2>3, <2>4, <2>5
<1> QED
  BY <1>1, <1>2, <1>3, <1>4 DEF Generate

\* What retrain_large.py knows between its drop and its appends.
LEMMA Emptied ==
  ASSUME Lone, NEW p \in Terminal, Running(p), proc[p].cmd = "retrain_large"
  PROVE  /\ proc[p].step \in 2..4 => stream.rows = {}
         /\ proc[p].step \in 2..5 => batch.rows = {}
  BY DEF Lone

LEMMA LoneCompute ==
  ASSUME TypeOK, Lone, NEW p \in Terminal, Compute(p)
  PROVE  Lone'
<1>1. CASE Load(p)
  <2>1. At(p, "load") /\ stream' = stream /\ batch' = batch /\ Running(p)
        /\ Moved(p, proc[p].part, proc[p].step + 1,
                 {[cust |-> c, by |-> proc[p].run, saw |-> 0] : c \in customers}, proc[p].data)
    BY <1>1, LoadMoves DEF Load, features, At
  <2>2. proc[p].cmd = "retrain_large" => proc[p].step = 2 /\ stream.rows = {} /\ batch.rows = {}
    BY <2>1, RetrainPlace, Emptied
  <2> QED
    BY <2>1, <2>2, MineEach, EachMade, LoneStep
<1>2. CASE Aggregate(p)
  <2>1. At(p, "aggregate") /\ stream' = stream /\ batch' = batch /\ Running(p)
    BY <1>2 DEF Aggregate, features, At
  <2>2. proc[p].cmd = "retrain_large" => proc[p].step = 3 /\ stream.rows = {} /\ batch.rows = {}
    BY <2>1, RetrainPlace, Emptied
  <2>3. EachIn(Aggregated(p)) /\ EachIn({})
    BY <2>1, AtType, MineEach, EachMade DEF EachIn
  <2>4. CASE Nothing(p) /\ Moved(p, proc[p].part, proc[p].step + 3, {}, proc[p].data)
    BY <2>1, <2>3, <2>4, MineEach, LoneStep DEF Nothing
  <2>5. CASE Moved(p, proc[p].part, proc[p].step + 1, Aggregated(p), proc[p].data)
    BY <2>1, <2>2, <2>3, <2>5, MineEach, LoneStep
  <2> QED
    BY <1>2, <2>4, <2>5, AggregateMoves
<1>3. CASE Drop(p)
  <2>1. At(p, "drop") /\ stream'.rows = {} /\ batch'.rows = {} /\ Running(p)
        /\ Moved(p, proc[p].part, proc[p].step + 1, proc[p].frame, proc[p].data)
    BY <1>3, AdvancesOne DEF Drop, At
  <2> QED
    BY <2>1, MineEach, LoneStep DEF EachIn
<1>4. CASE WriteStream(p)
  <2>1. At(p, "stream") /\ stream' = Written(p, stream) /\ batch' = batch /\ Running(p)
        /\ Moved(p, proc[p].part, proc[p].step + 1, proc[p].frame, proc[p].data)
    BY <1>4, AdvancesOne DEF WriteStream, At
  <2>2. proc[p].cmd = "retrain_large" => proc[p].step = 4 /\ stream.rows = {} /\ batch.rows = {}
    BY <2>1, RetrainPlace, Emptied
  <2>3. proc[p].cmd \in {"full_pipeline", "retrain_large"}
    <3>1. proc[p].cmd \in Command /\ proc[p].step \in Nat \ {0}
          /\ proc[p].step <= Len(Program[proc[p].cmd])
          /\ Program[proc[p].cmd][proc[p].step] = "stream"
      BY <2>1, AtType
    <3>2. proc[p].cmd \notin {"generate_data", "train", "generate_50k"}
      BY <3>1, Places
    <3> QED
      BY <3>1, <3>2, TrainingDataAssumption DEF Program
  <2>4. stream'.rows = proc[p].frame
    BY <2>1, <2>2, <2>3 DEF Written
  <2> QED
    BY <2>1, <2>2, <2>4, MineEach, LoneStep
<1>5. CASE WriteBatch(p)
  <2>1. At(p, "batch") /\ batch' = Written(p, batch) /\ stream' = stream /\ Running(p)
        /\ Moved(p, proc[p].part, proc[p].step + 1, proc[p].frame, proc[p].data)
    BY <1>5, AdvancesOne DEF WriteBatch, At
  <2>2. proc[p].cmd = "retrain_large" => proc[p].step = 5 /\ batch.rows = {}
    BY <2>1, RetrainPlace, Emptied
  <2>3. proc[p].cmd \in {"full_pipeline", "retrain_large"}
    <3>1. proc[p].cmd \in Command /\ proc[p].step \in Nat \ {0}
          /\ proc[p].step <= Len(Program[proc[p].cmd])
          /\ Program[proc[p].cmd][proc[p].step] = "batch"
      BY <2>1, AtType
    <3>2. proc[p].cmd \notin {"generate_data", "train", "generate_50k"}
      BY <3>1, Places
    <3> QED
      BY <3>1, <3>2, TrainingDataAssumption DEF Program
  <2>4. batch'.rows = proc[p].frame
    BY <2>1, <2>2, <2>3 DEF Written
  <2> QED
    BY <2>1, <2>2, <2>4, MineEach, LoneStep
<1>6. CASE SqlFeatures(p)
  <2>1. PICK a \in {"sql_stream", "sql_batch"} : At(p, a)
    BY <1>6 DEF SqlFeatures
  <2>2. Passes(p, 1)
    BY <1>6, SqlMoves
  <2>3. (stream' = Selected(p) /\ batch' = batch) \/ (batch' = Selected(p) /\ stream' = stream)
    BY <1>6 DEF SqlFeatures
  <2>4. EachIn(stream'.rows) /\ EachIn(batch'.rows)
    BY <2>1, <2>3, MineEach, EachMade
  <2> QED
    BY <2>1, <2>2, <2>4, MineEach, LonePasses DEF Passes
<1>7. CASE SqlFails(p)
  <2>1. PICK a \in {"sql_stream", "sql_batch"} : At(p, a)
    BY <1>7 DEF SqlFails
  <2>2. PICK k \in {1, 2} : Passes(p, k)
    BY <1>7, SqlFailsMoves
  <2>3. stream' = stream /\ batch' = batch
    BY <1>7 DEF SqlFails, features
  <2> QED
    BY <2>1, <2>2, <2>3, MineEach, LonePasses DEF Passes
<1> QED
  BY <1>1, <1>2, <1>3, <1>4, <1>5, <1>6, <1>7 DEF Compute

LEMMA LoneBuild ==
  ASSUME TypeOK, Lone, NEW p \in Terminal, Build(p)
  PROVE  Lone'
<1>1. stream' = stream /\ batch' = batch
  BY DEF Build, ReadStream, ReadBatch, ReadEvents, features
<1>2. CASE ReadStream(p)
  <2>1. At(p, "read_stream")
        /\ Moved(p, proc[p].part, proc[p].step + 1, stream.rows, proc[p].data)
    BY <1>2, ReadStreamMoves DEF ReadStream
  <2> QED
    BY <1>1, <2>1, MineEach, LonePasses
<1>3. CASE ReadBatch(p)
  <2>1. At(p, "read_batch")
    BY <1>3 DEF ReadBatch
  <2>2. PICK k \in {1, 2} :
          Moved(p, proc[p].part, proc[p].step + k, {}, Merged(proc[p].frame, batch.rows))
    BY <1>3, ReadBatchMoves
  <2>3. EachIn(Merged(proc[p].frame, batch.rows)) /\ EachIn({})
    <3>1. proc[p].frame \in SUBSET FeatureRow /\ batch.rows \in SUBSET FeatureRow
      BY <2>1, AtType DEF TypeOK, Table
    <3> QED
      BY <2>1, <3>1, MineEach, EachMerged DEF EachIn
  <2> QED
    BY <1>1, <2>1, <2>2, <2>3, MineEach, LonePasses
<1>4. CASE ReadEvents(p)
  <2>1. At(p, "read_events")
        /\ Moved(p, proc[p].part, proc[p].step + 1, proc[p].frame,
                 {Labelled(d) : d \in proc[p].data})
    BY <1>4, ReadEventsMoves DEF ReadEvents
  <2>2. EachIn({Labelled(d) : d \in proc[p].data})
    BY <2>1, AtType, MineEach, EachLabelled
  <2> QED
    BY <1>1, <2>1, <2>2, MineEach, LonePasses
<1> QED
  BY <1>2, <1>3, <1>4 DEF Build

LEMMA OnceStep == ASSUME TypeOK, OnceInv, [Next]_vars PROVE OnceInv'
<1> SUFFICES ASSUME alone' PROVE Lone'
  BY DEF OnceInv
<1>1. CASE UNCHANGED vars
  BY <1>1 DEF vars, features, history, OnceInv, Lone, Running, EachIn
<1>2. ASSUME NEW p \in Terminal, NEW cmd \in Command, Start(p, cmd) PROVE Lone'
  BY <1>2, LoneStart DEF Start, OnceInv
<1>3. ASSUME NEW p \in Terminal, Generate(p) \/ Compute(p) \/ Build(p) PROVE Lone'
  <2>1. alone
    BY <1>3 DEF Generate, Create, Truncate, SaveCustomers, Save, Compute, Load, Aggregate, Drop,
         WriteStream, WriteBatch, SqlFeatures, SqlFails, Build, ReadStream, ReadBatch,
         ReadEvents, history
  <2> QED
    BY <1>3, <2>1, LoneGenerate, LoneCompute, LoneBuild DEF OnceInv
<1>4. ASSUME NEW p \in Terminal, Raise(p) \/ Die(p) PROVE Lone'
  <2>1. alone /\ run' = run /\ stream' = stream /\ batch' = batch
        /\ proc' = [proc EXCEPT ![p] = Idle]
    BY <1>4 DEF Raise, Die, history, features
  <2>2. Ended(p)
    BY <2>1, Ends
  <2>3. ~Running(p)' /\ proc'[p] = Idle /\ \A q \in Terminal \ {p} : proc'[q] = proc[q]
    BY <2>2 DEF Ended, Running
  <2> QED
    BY <2>1, <2>3 DEF OnceInv, Lone, Running, EachIn
<1> QED
  BY <1>1, <1>2, <1>3, <1>4 DEF Next

LEMMA OnceInit == ASSUME Init PROVE OnceInv
<1>1. \A p \in Terminal : proc[p] = Idle
  BY DEF Init
<1> QED
  BY <1>1 DEF Init, OnceInv, Lone, Running, EachIn

\* Commands used one after the other never train on a customer twice, whatever died
\* between them.
THEOREM NobodyTwice == Spec => []EachOnce
<1>1. Init => TypeOK /\ OnceInv
  BY TypeInit, OnceInit
<1>2. TypeOK /\ OnceInv /\ [Next]_vars => TypeOK' /\ OnceInv'
  BY TypeStep, OnceStep
<1>3. OnceInv => EachOnce
  BY DEF OnceInv, Lone, EachIn, EachOnce, Done
<1> QED
  BY <1>1, <1>2, <1>3, PTL DEF Spec

-----------------------------------------------------------------------------
(* Histories are whole.                                                    *)

\* The access that saves the transactions.
TransEnd == [generate_data |-> 2, full_pipeline |-> 2, train |-> 0, retrain_large |-> 0,
             generate_50k |-> 4]

LEMMA TransPlaces ==
  ASSUME NEW cmd \in Command, NEW n \in Nat \ {0}, n <= Len(Program[cmd])
  PROVE  /\ TransEnd[cmd] \in Nat
         /\ Program[cmd][n] = "transactions" <=> n = TransEnd[cmd]
         /\ Program[cmd][n] \in {"create", "truncate", "customers"} => n + 1 <= TransEnd[cmd]
         /\ Program[cmd][n] \in {"balances", "events"} => n > TransEnd[cmd]
         /\ cmd = "generate_50k" => TransEnd[cmd] = 4
<1> cmd \in DOMAIN Program
  BY TrainingDataAssumption
<1>1. CASE cmd = "generate_data"
  <2>1. Program[cmd] = <<"customers", "transactions", "balances", "events">>
    BY <1>1 DEF Program
  <2>2. n \in 1..4
    BY <2>1
  <2> QED
    BY <1>1, <2>1, <2>2 DEF TransEnd
<1>2. CASE cmd = "full_pipeline"
  <2>1. Program[cmd] = <<"customers", "transactions", "balances", "events",
                         "load", "aggregate", "batch", "stream",
                         "read_stream", "read_batch", "read_events">>
    BY <1>2 DEF Program
  <2>2. n \in 1..11
    BY <2>1
  <2> QED
    BY <1>2, <2>1, <2>2 DEF TransEnd
<1>3. CASE cmd = "train"
  <2>1. Program[cmd] = <<"read_stream", "read_batch", "read_events">>
    BY <1>3 DEF Program
  <2>2. n \in 1..3
    BY <2>1
  <2> QED
    BY <1>3, <2>1, <2>2 DEF TransEnd
<1>4. CASE cmd = "retrain_large"
  <2>1. Program[cmd] = <<"drop", "load", "aggregate", "stream", "batch",
                         "read_stream", "read_batch", "read_events">>
    BY <1>4 DEF Program
  <2>2. n \in 1..8
    BY <2>1
  <2> QED
    BY <1>4, <2>1, <2>2 DEF TransEnd
<1>5. CASE cmd = "generate_50k"
  <2>1. Program[cmd] = <<"create", "truncate",
                         "customers", "transactions", "balances", "events",
                         "sql_stream", "sql_batch", "validate">>
    BY <1>5 DEF Program
  <2>2. n \in 1..9
    BY <2>1
  <2> QED
    BY <1>5, <2>1, <2>2 DEF TransEnd
<1> QED
  BY <1>1, <1>2, <1>3, <1>4, <1>5 DEF Program

Whole(c) == rows["transactions"][c] = Rows

\* Of the customers of a generation that are in the table, those it has passed.
Passed(p, c) ==
  /\ c[1] = proc[p].run
  /\ \/ c \in Members(p) /\ proc[p].step > TransEnd[proc[p].cmd]
     \/ c \notin Members(p) /\ c[2] < proc[p].part

WholeInv ==
  /\ \A p \in Terminal : Generating(p) => \A c \in customers : Passed(p, c) => Whole(c)
  /\ \A c \in customers : c[1] \in complete => Whole(c)

LEMMA SameMembers ==
  ASSUME NEW p \in Terminal, proc'[p].run = proc[p].run, proc'[p].cmd = proc[p].cmd,
         proc'[p].part = proc[p].part
  PROVE  Members(p)' = Members(p)
  BY DEF Members, generate_customers, generate_customer_batch

\* An access of p that saves nothing.
LEMMA WholeQuiet ==
  ASSUME TypeOK, WholeInv, NEW p \in Terminal, NEW a, At(p, a),
         a \notin {"customers", "transactions", "balances", "events"},
         NEW k \in Nat \ {0}, a \in {"create", "truncate"} => k = 1,
         NEW f, NEW d, Moved(p, proc[p].part, proc[p].step + k, f, d),
         complete' = complete,
         \/ customers' = customers /\ rows' = rows
         \/ customers' = {} /\ rows' = NoRows
  PROVE  WholeInv'
<1>1. proc[p].cmd \in Command /\ proc[p].step \in Nat \ {0} /\ proc[p].step \in Nat
      /\ proc[p].step <= Len(Program[proc[p].cmd]) /\ Program[proc[p].cmd][proc[p].step] = a
  BY AtType
<1>2. TransEnd[proc[p].cmd] \in Nat /\ GenEnd[proc[p].cmd] \in Nat
      /\ (a \in {"create", "truncate"} => proc[p].step + 1 <= TransEnd[proc[p].cmd])
      /\ (a \in GenStep <=> proc[p].step <= GenEnd[proc[p].cmd])
  BY <1>1, TransPlaces, Places, Lengths
<1>3. /\ \A q \in Terminal \ {p} : proc'[q] = proc[q]
      /\ proc'[p].run = proc[p].run /\ proc'[p].cmd = proc[p].cmd
      /\ proc'[p].part = proc[p].part /\ proc'[p].step = proc[p].step + k
  BY DEF Moved
<1>4. Members(p)' = Members(p)
  BY <1>3, SameMembers
<1>5. ASSUME Generating(p)' PROVE a \in {"create", "truncate"} /\ Generating(p)
  <2>1. proc[p].step + k <= GenEnd[proc[p].cmd]
    BY <1>3, <1>5 DEF Generating
  <2>2. proc[p].step <= GenEnd[proc[p].cmd]
    BY <2>1, <1>1, <1>2
  <2>3. a \in GenStep
    BY <2>2, <1>2
  <2> QED
    BY <2>2, <2>3 DEF GenStep, Generating, At, Running
<1>6. \A c \in customers' : c \in customers /\ (Whole(c) => Whole(c)')
  BY DEF Whole
<1>7. ASSUME NEW q \in Terminal, Generating(q)', NEW c \in customers', Passed(q, c)'
      PROVE  Whole(c)'
  <2>1. CASE q = p
    <3>1. proc'[p].step <= TransEnd[proc[p].cmd]
      BY <2>1, <1>2, <1>3, <1>5, <1>7
    <3>2. ~(proc'[p].step > TransEnd[proc[p].cmd])
      BY <3>1, <1>1, <1>2, <1>3
    <3>3. Passed(p, c)
      BY <2>1, <3>2, <1>3, <1>4, <1>7 DEF Passed
    <3> QED
      BY <2>1, <3>3, <1>5, <1>6, <1>7 DEF WholeInv
  <2>2. CASE q # p
    <3>1. Generating(q) /\ Passed(q, c)
      BY <2>2, <1>3, <1>7 DEF Generating, Passed, Members, generate_customers, generate_customer_batch
    <3> QED
      BY <3>1, <1>6 DEF WholeInv
  <2> QED
    BY <2>1, <2>2
<1> QED
  BY <1>6, <1>7 DEF WholeInv

LEMMA WholeStart ==
  ASSUME TypeOK, LabelInv, WholeInv, NEW p \in Terminal, NEW cmd \in Command, Start(p, cmd)
  PROVE  WholeInv'
<1> DEFINE x == [cmd |-> cmd, run |-> run + 1, step |-> 1, part |-> 1, frame |-> {}, data |-> {}]
<1>1. proc'[p] = x /\ run \in Nat /\ \A q \in Terminal \ {p} : proc'[q] = proc[q]
  BY StartType
<1>2. x.run = run + 1 /\ x.part = 1 /\ x.step = 1 /\ x.cmd = cmd
  OBVIOUS
<1> HIDE DEF x
<1>3. customers' = customers /\ rows' = rows /\ complete' = complete
  BY DEF Start, generated
<1>4. customers \subseteq Customer
  BY DEF TypeOK
<1>5. ASSUME NEW q \in Terminal, Generating(q)', NEW c \in customers, Passed(q, c)'
      PROVE  Whole(c)
  <2>1. CASE q = p
    <3>1. Len(Program[cmd]) \in Nat \ {0} /\ GenEnd[cmd] \in Nat /\ GenEnd[cmd] <= Len(Program[cmd])
      BY Lengths
    <3>2. 1 <= GenEnd[cmd]
      BY <2>1, <1>1, <1>2, <1>5 DEF Generating
    <3>3. cmd \in {"generate_data", "full_pipeline", "generate_50k"}
      <4>1. cmd \in {"generate_data", "full_pipeline", "train", "retrain_large", "generate_50k"}
        BY TrainingDataAssumption DEF Program
      <4>2. cmd # "train"
        BY <3>2 DEF GenEnd
      <4>3. cmd # "retrain_large"
        BY <3>2 DEF GenEnd
      <4> QED
        BY <4>1, <4>2, <4>3
    <3>4. TransEnd[cmd] \in {2, 4}
      <4>1. CASE cmd = "generate_data"
        BY <4>1 DEF TransEnd
      <4>2. CASE cmd = "full_pipeline"
        BY <4>2 DEF TransEnd
      <4>3. CASE cmd = "generate_50k"
        BY <4>3 DEF TransEnd
      <4> QED
        BY <3>3, <4>1, <4>2, <4>3
    <3>5. c[2] \in 1..Size
      BY <1>4 DEF Customer
    <3> QED
      BY <2>1, <3>4, <3>5, <1>1, <1>2, <1>5 DEF Passed
  <2>2. CASE q # p
    <3>1. Generating(q) /\ Passed(q, c)
      BY <2>2, <1>1, <1>5 DEF Generating, Passed, Members, generate_customers, generate_customer_batch
    <3> QED
      BY <3>1 DEF WholeInv
  <2> QED
    BY <2>1, <2>2
<1> QED
  BY <1>3, <1>5 DEF WholeInv, Whole

LEMMA WholeCustomers ==
  ASSUME TypeOK, LabelInv, WholeInv, NEW p \in Terminal, SaveCustomers(p)
  PROVE  WholeInv'
<1>1. At(p, "customers") /\ run' = run /\ Advance(p, 1)
      /\ customers' = customers \cup Members(p) /\ rows' = rows /\ complete' = complete
  BY DEF SaveCustomers
<1>2. Generating(p) /\ proc[p] # Idle /\ proc[p].run \notin complete
  BY <1>1, AtGenerating DEF GenStep, LabelInv, Unfinished
<1>3. Moved(p, proc[p].part, proc[p].step + 1, proc[p].frame, proc[p].data)
  BY <1>1, AdvancesOne
<1>4. proc[p].cmd \in Command /\ proc[p].step \in Nat \ {0}
      /\ proc[p].step <= Len(Program[proc[p].cmd])
      /\ Program[proc[p].cmd][proc[p].step] = "customers"
  BY <1>1, AtType
<1>5. \A c \in Members(p) : c[1] = proc[p].run
  BY <1>1, MembersType
<1>6. TransEnd[proc[p].cmd] \in Nat /\ proc[p].step + 1 <= TransEnd[proc[p].cmd]
  BY <1>4, TransPlaces
<1>7. /\ \A q \in Terminal \ {p} : proc'[q] = proc[q]
      /\ proc'[p].run = proc[p].run /\ proc'[p].cmd = proc[p].cmd
      /\ proc'[p].part = proc[p].part /\ proc'[p].step = proc[p].step + 1
  BY <1>3 DEF Moved
<1>8. Members(p)' = Members(p)
  BY <1>7, SameMembers
<1>9. ASSUME NEW q \in Terminal, Generating(q)', NEW c \in customers', Passed(q, c)'
      PROVE  Whole(c)
  <2>1. CASE q = p
    <3>1. ~(proc'[p].step > TransEnd[proc[p].cmd])
      BY <1>4, <1>6, <1>7
    <3>2. c \notin Members(p) /\ Passed(p, c)
      BY <2>1, <3>1, <1>7, <1>8, <1>9 DEF Passed
    <3> QED
      BY <3>2, <1>1, <1>2, <1>9 DEF WholeInv
  <2>2. CASE q # p
    <3>1. Generating(q) /\ Passed(q, c) /\ proc[q] # Idle
      BY <2>2, <1>7, <1>9 DEF Generating, Passed, Members, generate_customers, generate_customer_batch
    <3>2. proc[q].run # proc[p].run
      BY <3>1, <2>2, <1>2 DEF LabelInv, RunsApart
    <3>3. c \notin Members(p)
      BY <3>1, <3>2, <1>5 DEF Passed
    <3> QED
      BY <3>1, <3>3, <1>1, <1>9 DEF WholeInv
  <2> QED
    BY <2>1, <2>2
<1>10. ASSUME NEW c \in customers', c[1] \in complete PROVE Whole(c)
  BY <1>1, <1>2, <1>5, <1>10 DEF WholeInv
<1> QED
  BY <1>1, <1>9, <1>10 DEF WholeInv, Whole

\* What a chunk does to the transactions.
LEMMA WholeChunk ==
  ASSUME TypeOK, NEW p \in Terminal, NEW t \in Saved, At(p, t),
         NEW new \in [Listed(p, t) -> Portion],
         \A c \in Listed(p, t) : new[c] >= rows[t][c], Chunk(p, t, new)
  PROVE  /\ \A c \in Customer : Whole(c) => Whole(c)'
         /\ t = "transactions" /\ (\A c \in Listed(p, t) : new[c] = Rows) =>
              \A c \in Members(p) : Whole(c)'
<1>1. Members(p) \subseteq Customer /\ rows \in [Saved -> [Customer -> Portion]]
  BY MembersType DEF TypeOK
<1>2. /\ \A u \in Saved \ {t} : rows'[u] = rows[u]
      /\ \A c \in Customer :
           rows'[t][c] = IF c \in Listed(p, t) THEN new[c] ELSE rows[t][c]
  BY SaveRows DEF Chunk
<1>3. CASE t = "transactions"
  <2>1. Listed(p, t) = Members(p)
    BY <1>3 DEF Listed
  <2>2. \A c \in Members(p) : new[c] \in Portion
    BY <2>1
  <2>3. ASSUME NEW c \in Customer, Whole(c) PROVE Whole(c)'
    <3>1. CASE c \in Members(p)
      <4>1. new[c] \in Portion /\ new[c] >= Rows
        BY <2>1, <2>2, <2>3, <3>1, <1>3 DEF Whole
      <4>2. new[c] = Rows
        BY <4>1, TrainingDataAssumption DEF Portion
      <4> QED
        BY <4>2, <2>1, <3>1, <1>2, <1>3 DEF Whole
    <3>2. CASE c \notin Members(p)
      BY <2>1, <2>3, <3>2, <1>2, <1>3 DEF Whole
    <3> QED
      BY <3>1, <3>2
  <2> QED
    BY <2>1, <2>3, <1>1, <1>2, <1>3 DEF Whole
<1>4. CASE t # "transactions"
  BY <1>2, <1>4 DEF Whole, Saved
<1> QED
  BY <1>3, <1>4

LEMMA WholeSave ==
  ASSUME TypeOK, LabelInv, WholeInv, NEW p \in Terminal, NEW t \in Saved, Save(p, t)
  PROVE  WholeInv'
<1>1. At(p, t) /\ run' = run /\ customers' = customers
  BY DEF Save
<1>2. PICK new \in [Listed(p, t) -> Portion] :
        (\A c \in Listed(p, t) : new[c] >= rows[t][c]) /\ Chunk(p, t, new)
  BY SaveChunk
<1>3. Generating(p) /\ proc[p] # Idle /\ (t = "events" => proc[p].step = GenEnd[proc[p].cmd])
  BY <1>1, AtGenerating DEF GenStep, Saved
<1>4. proc[p].step \in Nat \ {0} /\ proc[p].step \in Nat /\ proc[p].cmd \in Command
      /\ proc[p].step <= Len(Program[proc[p].cmd]) /\ Program[proc[p].cmd][proc[p].step] = t
      /\ proc[p].part \in 1..Size /\ proc[p].part \in Nat /\ GenEnd[proc[p].cmd] \in Nat
  BY <1>1, AtType, Lengths
<1>5. \A c \in Customer : c[1] = proc[p].run =>
        (c \in Members(p) <=> proc[p].cmd # "generate_50k" \/ c[2] = proc[p].part)
  BY <1>1, MembersType
<1>6. customers \subseteq Customer
  BY DEF TypeOK
<1>7. TransEnd[proc[p].cmd] \in Nat
      /\ (t = "transactions" => proc[p].step = TransEnd[proc[p].cmd])
      /\ (t \in {"balances", "events"} => proc[p].step > TransEnd[proc[p].cmd])
      /\ (proc[p].cmd = "generate_50k" => TransEnd[proc[p].cmd] = 4)
  BY <1>4, TransPlaces
<1> DEFINE ended == \A c \in Listed(p, t) : new[c] = Rows
           over == ended /\ t = "events" /\ proc[p].part = Parts(proc[p].cmd)
<1>8. /\ IF ended THEN NextTable(p, t) ELSE UNCHANGED proc
      /\ complete' = IF over THEN complete \cup {proc[p].run} ELSE complete
  BY <1>2 DEF Chunk
<1>9. \A c \in Customer : Whole(c) => Whole(c)'
  BY <1>1, <1>2, WholeChunk
<1>10. t = "transactions" /\ ended => \A c \in Members(p) : Whole(c)'
  BY <1>1, <1>2, WholeChunk
<1> HIDE DEF ended
<1>11. \/ /\ ~ended /\ proc' = proc
       \/ /\ ended /\ t = "events" /\ proc[p].part < Parts(proc[p].cmd)
          /\ proc[p].cmd = "generate_50k"
          /\ Moved(p, proc[p].part + 1, 3, proc[p].frame, proc[p].data)
       \/ /\ ended /\ ~(t = "events" /\ proc[p].part < Parts(proc[p].cmd))
          /\ Moved(p, proc[p].part, proc[p].step + 1, proc[p].frame, proc[p].data)
  <2>1. CASE ended
    BY <2>1, <1>1, <1>8, NextTableMoves
  <2>2. CASE ~ended
    BY <2>2, <1>8
  <2> QED
    BY <2>1, <2>2
\* All it has passed before, and after this access its current members.
<1>12. ASSUME NEW c \in customers, Passed(p, c) PROVE Whole(c)'
  BY <1>3, <1>6, <1>9, <1>12 DEF WholeInv
<1>13. ASSUME NEW c \in customers \cap Members(p), t = "events" PROVE Whole(c)'
  <2>1. c[1] = proc[p].run
    BY <1>1, MembersType
  <2> QED
    BY <2>1, <1>7, <1>12, <1>13 DEF Passed
<1>14. ASSUME NEW c \in customers, c[1] \in complete' PROVE Whole(c)'
  <2>1. CASE c[1] \in complete
    BY <2>1, <1>6, <1>9 DEF WholeInv
  <2>2. CASE c[1] \notin complete
    <3>1. over /\ c[1] = proc[p].run
      BY <2>2, <1>8, <1>14
    <3>2. CASE c \in Members(p)
      BY <3>1, <3>2, <1>13
    <3>3. CASE c \notin Members(p)
      <4>1. proc[p].cmd = "generate_50k" /\ c[2] # proc[p].part
        BY <3>1, <3>3, <1>5, <1>6
      <4>2. proc[p].part = Size
        BY <3>1, <4>1 DEF Parts
      <4>3. c[2] \in 1..Size
        BY <1>6 DEF Customer
      <4>4. c[2] < proc[p].part
        BY <4>1, <4>2, <4>3, TrainingDataAssumption
      <4> QED
        BY <3>1, <3>3, <4>4, <1>12 DEF Passed
    <3> QED
      BY <3>2, <3>3
  <2> QED
    BY <2>1, <2>2
<1>15. ASSUME NEW q \in Terminal, Generating(q)', NEW c \in customers, Passed(q, c)'
       PROVE  Whole(c)'
  <2>1. CASE q # p
    <3>1. proc'[q] = proc[q]
      BY <2>1, <1>11 DEF Moved
    <3>2. Generating(q) /\ Passed(q, c)
      BY <3>1, <1>15 DEF Generating, Passed, Members, generate_customers, generate_customer_batch
    <3> QED
      BY <3>2, <1>6, <1>9 DEF WholeInv
  <2>2. CASE q = p /\ ~ended
    <3>1. Passed(p, c)
      BY <2>2, <1>11, <1>15 DEF Passed, Members, generate_customers, generate_customer_batch
    <3> QED
      BY <3>1, <1>12
  <2>3. CASE q = p /\ ended /\ t = "events" /\ proc[p].part < Parts(proc[p].cmd)
    <3>1. proc[p].cmd = "generate_50k"
          /\ Moved(p, proc[p].part + 1, 3, proc[p].frame, proc[p].data)
      BY <2>3, <1>11
    <3>2. proc'[p].part = proc[p].part + 1 /\ proc'[p].step = 3
          /\ proc'[p].cmd = proc[p].cmd /\ proc'[p].run = proc[p].run
      BY <3>1 DEF Moved
    <3>3. ~(proc'[p].step > TransEnd[proc'[p].cmd])
      BY <3>1, <3>2, <1>7
    <3>4. c[1] = proc[p].run /\ c[2] < proc[p].part + 1
      BY <2>3, <3>2, <3>3, <1>15 DEF Passed
    <3>5. CASE c \in Members(p)
      BY <2>3, <3>5, <1>13
    <3>6. CASE c \notin Members(p)
      <4>1. c[2] # proc[p].part /\ c[2] \in 1..Size
        BY <3>4, <3>6, <1>5, <1>6 DEF Customer
      <4>2. c[2] < proc[p].part
        BY <3>4, <4>1, <1>4
      <4> QED
        BY <3>4, <3>6, <4>2, <1>12 DEF Passed
    <3> QED
      BY <3>5, <3>6
  <2>4. CASE q = p /\ ended /\ ~(t = "events" /\ proc[p].part < Parts(proc[p].cmd))
    <3>1. Moved(p, proc[p].part, proc[p].step + 1, proc[p].frame, proc[p].data)
      BY <2>4, <1>11
    <3>2. proc'[p].part = proc[p].part /\ proc'[p].cmd = proc[p].cmd
          /\ proc'[p].run = proc[p].run
      BY <3>1 DEF Moved
    <3>3. Members(p)' = Members(p)
      BY <3>2, SameMembers
    <3>4. CASE c \in Members(p)
      <4>1. CASE t = "transactions"
        BY <2>4, <3>4, <4>1, <1>10
      <4>2. CASE t # "transactions"
        <5>1. t \in {"balances", "events"}
          BY <4>2 DEF Saved
        <5>2. c[1] = proc[p].run
          BY <3>4, <1>1, MembersType
        <5> QED
          BY <3>4, <5>1, <5>2, <1>7, <1>12 DEF Passed
      <4> QED
        BY <4>1, <4>2
    <3>5. CASE c \notin Members(p)
      BY <2>4, <3>2, <3>3, <3>5, <1>12, <1>15 DEF Passed
    <3> QED
      BY <3>4, <3>5
  <2> QED
    BY <2>1, <2>2, <2>3, <2>4
<1> QED
  BY <1>1, <1>14, <1>15 DEF WholeInv

LEMMA WholeStep == ASSUME TypeOK, LabelInv, WholeInv, [Next]_vars PROVE WholeInv'
<1>1. ASSUME NEW p \in Terminal, Generate(p) PROVE WholeInv'
  <2>1. CASE Create(p)
    <3>1. At(p, "create") /\ complete' = complete /\ customers' = customers /\ rows' = rows
          /\ Passes(p, 1)
      BY <2>1, AdvancesOne DEF Create, history, Passes
    <3> QED
      BY <3>1, WholeQuiet DEF Passes
  <2>2. CASE Truncate(p)
    <3>1. At(p, "truncate") /\ complete' = complete /\ Passes(p, 1)
      BY <2>2, AdvancesOne DEF Truncate, history, Passes
    <3>2. \/ customers' = {} /\ rows' = NoRows
          \/ customers' = customers /\ rows' = rows
      BY <2>2, TruncateEffect
    <3> QED
      BY <3>1, <3>2, WholeQuiet DEF Passes
  <2> QED
    BY <1>1, <2>1, <2>2, WholeCustomers, WholeSave DEF Generate
<1>2. ASSUME NEW p \in Terminal, Compute(p) \/ Build(p) PROVE WholeInv'
  <2>1. complete' = complete /\ customers' = customers /\ rows' = rows
    BY <1>2 DEF Compute, Load, Aggregate, Drop, WriteStream, WriteBatch, SqlFeatures, SqlFails,
         Build, ReadStream, ReadBatch, ReadEvents, generated, history
  <2>2. ASSUME NEW a \in {"load", "aggregate", "drop", "stream", "batch", "sql_stream",
                          "sql_batch", "read_stream", "read_batch", "read_events"},
               At(p, a), NEW k \in {1, 2, 3}, NEW f, NEW d,
               Moved(p, proc[p].part, proc[p].step + k, f, d)
        PROVE  WholeInv'
    <3>1. k \in Nat \ {0} /\ a \notin {"create", "truncate"}
          /\ a \notin {"customers", "transactions", "balances", "events"}
      OBVIOUS
    <3> QED
      BY <2>1, <2>2, <3>1, WholeQuiet
  <2>3. CASE Load(p)
    <3>1. At(p, "load") /\ \E f, d : Moved(p, proc[p].part, proc[p].step + 1, f, d)
      BY <2>3, LoadMoves DEF Load
    <3> QED
      BY <2>2, <3>1
  <2>4. CASE Aggregate(p)
    <3>1. At(p, "aggregate")
          /\ \E k \in {1, 3} : \E f, d : Moved(p, proc[p].part, proc[p].step + k, f, d)
      BY <2>4, AggregateMoves DEF Aggregate
    <3> QED
      BY <2>2, <3>1
  <2>5. CASE Drop(p) \/ WriteStream(p) \/ WriteBatch(p)
    <3>1. PICK a \in {"drop", "stream", "batch"} : At(p, a)
      BY <2>5 DEF Drop, WriteStream, WriteBatch
    <3>2. \E f, d : Moved(p, proc[p].part, proc[p].step + 1, f, d)
      BY <2>5, AdvancesOne DEF Drop, WriteStream, WriteBatch
    <3> QED
      BY <2>2, <3>1, <3>2
  <2>6. CASE SqlFeatures(p) \/ SqlFails(p)
    <3>1. PICK a \in {"sql_stream", "sql_batch"} : At(p, a)
      BY <2>6 DEF SqlFeatures, SqlFails
    <3>2. \E k \in {1, 2} : \E f, d : Moved(p, proc[p].part, proc[p].step + k, f, d)
      BY <2>6, SqlMoves, SqlFailsMoves DEF Passes
    <3> QED
      BY <2>2, <3>1, <3>2
  <2>7. CASE ReadStream(p)
    <3>1. At(p, "read_stream") /\ \E f, d : Moved(p, proc[p].part, proc[p].step + 1, f, d)
      BY <2>7, ReadStreamMoves DEF ReadStream
    <3> QED
      BY <2>2, <3>1
  <2>8. CASE ReadBatch(p)
    <3>1. At(p, "read_batch")
          /\ \E k \in {1, 2} : \E f, d : Moved(p, proc[p].part, proc[p].step + k, f, d)
      BY <2>8, ReadBatchMoves DEF ReadBatch
    <3> QED
      BY <2>2, <3>1
  <2>9. CASE ReadEvents(p)
    <3>1. At(p, "read_events") /\ \E f, d : Moved(p, proc[p].part, proc[p].step + 1, f, d)
      BY <2>9, ReadEventsMoves DEF ReadEvents
    <3> QED
      BY <2>2, <3>1
  <2> QED
    BY <1>2, <2>3, <2>4, <2>5, <2>6, <2>7, <2>8, <2>9 DEF Compute, Build
<1>3. ASSUME NEW p \in Terminal, Raise(p) \/ Die(p) PROVE WholeInv'
  <2>1. run' = run /\ complete' = complete /\ customers' = customers /\ rows' = rows
        /\ proc' = [proc EXCEPT ![p] = Idle]
    BY <1>3 DEF Raise, Die, history, generated
  <2>2. proc'[p] = Idle /\ \A q \in Terminal \ {p} : proc'[q] = proc[q]
    BY <2>1, Ends DEF Ended
  <2> QED
    BY <2>1, <2>2 DEF WholeInv, Generating, Passed, Members, generate_customers, generate_customer_batch, Whole
<1>4. CASE UNCHANGED vars
  BY <1>4 DEF vars, generated, history, WholeInv, Generating, Passed, Members, generate_customers, generate_customer_batch, Whole
<1> QED
  BY <1>1, <1>2, <1>3, <1>4, WholeStart DEF Next

LEMMA WholeInit == ASSUME Init PROVE WholeInv
  BY DEF Init, WholeInv

-----------------------------------------------------------------------------
(* A pipeline and a retraining, from the customers to the dataset.         *)

\* Where the customers are loaded; the dataset is complete seven accesses later.
Base(cmd) == IF cmd = "full_pipeline" THEN 5 ELSE 2

LEMMA CoverPlaces ==
  ASSUME NEW cmd \in {"full_pipeline", "retrain_large"}, NEW n \in Nat \ {0}
  PROVE  /\ Len(Program[cmd]) = Base(cmd) + 6
         /\ n <= Len(Program[cmd]) =>
              /\ cmd = "full_pipeline" =>
                   /\ Program[cmd][n] = "customers" <=> n = 1
                   /\ Program[cmd][n] = "transactions" <=> n = 2
                   /\ Program[cmd][n] = "balances" <=> n = 3
                   /\ Program[cmd][n] = "events" <=> n = 4
                   /\ Program[cmd][n] = "batch" <=> n = Base(cmd) + 2
                   /\ Program[cmd][n] = "stream" <=> n = Base(cmd) + 3
                   /\ Program[cmd][n] # "drop"
              /\ cmd = "retrain_large" =>
                   /\ Program[cmd][n] = "stream" <=> n = Base(cmd) + 2
                   /\ Program[cmd][n] = "batch" <=> n = Base(cmd) + 3
                   /\ Program[cmd][n] = "drop" <=> n = 1
                   /\ Program[cmd][n] \notin GenStep
              /\ Program[cmd][n] = "load" <=> n = Base(cmd)
              /\ Program[cmd][n] = "aggregate" <=> n = Base(cmd) + 1
              /\ Program[cmd][n] = "read_stream" <=> n = Base(cmd) + 4
              /\ Program[cmd][n] = "read_batch" <=> n = Base(cmd) + 5
              /\ Program[cmd][n] = "read_events" <=> n = Base(cmd) + 6
              /\ Program[cmd][n] \notin {"create", "truncate", "sql_stream", "sql_batch"}
<1>1. CASE cmd = "full_pipeline"
  <2>1. Program[cmd] = <<"customers", "transactions", "balances", "events",
                         "load", "aggregate", "batch", "stream",
                         "read_stream", "read_batch", "read_events">>
    BY <1>1 DEF Program
  <2>2. n <= Len(Program[cmd]) => n \in 1..11
    BY <2>1
  <2> QED
    BY <1>1, <2>1, <2>2 DEF Base
<1>2. CASE cmd = "retrain_large"
  <2>1. Program[cmd] = <<"drop", "load", "aggregate", "stream", "batch",
                         "read_stream", "read_batch", "read_events">>
    BY <1>2 DEF Program
  <2>2. n <= Len(Program[cmd]) => n \in 1..8
    BY <2>1
  <2> QED
    BY <1>2, <2>1, <2>2 DEF Base, GenStep
<1> QED
  BY <1>1, <1>2

FeatureCmd == {"full_pipeline", "retrain_large"}

\* Rows of run r for each of the customers cs; what they saw; a dataset of both.
FullOf(S, cs, r) == {f.cust : f \in S} = cs /\ \A f \in S : f.by = r
SawOf(S, tr) == \A f \in S : f.saw = tr[f.cust]
DataOf(S, cs, tr, r) ==
  /\ {d.cust : d \in S} = cs
  /\ \A d \in S : d.stream = r /\ d.batch = r /\ d.saw = tr[d.cust]

\* Command cmd with members mem is before access n, with frame f and dataset d; the
\* customers are cs, their transactions tr, the run r, the tables st and ba.
StageAt(cmd, mem, n, f, d, cs, tr, r, st, ba) ==
  /\ cmd = "full_pipeline" =>
       /\ n >= 2 => mem \subseteq cs
       /\ n >= 3 => \A c \in mem : tr[c] = Rows
  /\ n \in (Base(cmd) + 1)..(Base(cmd) + 3) => FullOf(f, cs, r)
  /\ n \in (Base(cmd) + 2)..(Base(cmd) + 3) => SawOf(f, tr)
  /\ n >= Base(cmd) + 4 \/ (cmd = "full_pipeline" /\ n >= Base(cmd) + 3) => FullOf(ba, cs, r)
  /\ n >= Base(cmd) + 4 \/ (cmd = "retrain_large" /\ n >= Base(cmd) + 3) =>
       FullOf(st, cs, r) /\ SawOf(st, tr)
  /\ n = Base(cmd) + 5 => FullOf(f, cs, r) /\ SawOf(f, tr)
  /\ n >= Base(cmd) + 6 => DataOf(d, cs, tr, r)

Stage(p) ==
  StageAt(proc[p].cmd, Members(p), proc[p].step, proc[p].frame, proc[p].data,
          customers, rows["transactions"], run, stream.rows, batch.rows)

\* The latest command is the one that runs; if it computes features, it is at its stage.
CoverBody ==
  /\ \A q \in Terminal : Running(q) => proc[q].run = run
  /\ \A p \in Terminal :
       proc[p] # Idle /\ proc[p].run = run /\ proc[p].cmd \in FeatureCmd => Stage(p)

CoverInv == alone => CoverBody

LEMMA CoverMove ==
  ASSUME RunsApart, CoverBody, NEW p \in Terminal, Running(p), run' = run,
         NEW part, NEW n, NEW f, NEW d, Moved(p, part, n, f, d),
         proc[p].cmd \in FeatureCmd =>
           /\ part = proc[p].part
           /\ StageAt(proc[p].cmd, Members(p), n, f, d,
                      customers', rows'["transactions"], run, stream'.rows, batch'.rows)
  PROVE  CoverBody'
<1>1. /\ \A q \in Terminal \ {p} : proc'[q] = proc[q]
      /\ proc'[p].cmd = proc[p].cmd /\ proc'[p].run = proc[p].run
      /\ proc'[p].part = part /\ proc'[p].step = n
      /\ proc'[p].frame = f /\ proc'[p].data = d
  BY DEF Moved
<1>2. proc[p].run = run /\ proc[p] # Idle
  BY DEF CoverBody, Running
<1>3. ASSUME NEW q \in Terminal, Running(q)' PROVE proc'[q].run = run'
  <2>1. CASE q = p
    BY <2>1, <1>1, <1>2
  <2>2. CASE q # p
    BY <2>2, <1>1, <1>3 DEF CoverBody, Running
  <2> QED
    BY <2>1, <2>2
<1>4. ASSUME NEW q \in Terminal, proc'[q] # Idle, proc'[q].run = run',
             proc'[q].cmd \in FeatureCmd
      PROVE  Stage(q)'
  <2>1. q = p
    <3>1. CASE q # p
      BY <3>1, <1>1, <1>2, <1>4 DEF RunsApart
    <3> QED
      BY <3>1
  <2>2. proc[p].cmd \in FeatureCmd
    BY <2>1, <1>1, <1>4
  <2>3. Members(p)' = Members(p)
    BY <2>2, <1>1, SameMembers
  <2> QED
    BY <2>1, <2>2, <2>3, <1>1 DEF Stage
<1> QED
  BY <1>3, <1>4 DEF CoverBody

\* What a command that computes features knows at an access.
LEMMA AtStage ==
  ASSUME TypeOK, CoverBody, NEW p \in Terminal, NEW a, At(p, a)
  PROVE  /\ Running(p) /\ proc[p].run = run /\ proc[p].run \in Run
         /\ proc[p].step \in Nat \ {0} /\ proc[p].step <= Len(Program[proc[p].cmd])
         /\ Program[proc[p].cmd][proc[p].step] = a
         /\ proc[p].part \in 1..Size
         /\ proc[p].cmd \in FeatureCmd => Stage(p)
<1>1. proc[p].step \in Nat \ {0} /\ proc[p].step <= Len(Program[proc[p].cmd])
      /\ Program[proc[p].cmd][proc[p].step] = a
      /\ proc[p].run \in Run /\ proc[p].part \in 1..Size
  BY AtType
<1>2. Running(p) /\ proc[p] # Idle
  BY DEF At, Running
<1> QED
  BY <1>1, <1>2 DEF CoverBody

\* Other accesses belong to no such command.
LEMMA CoverOther ==
  ASSUME TypeOK, RunsApart, CoverBody, NEW p \in Terminal,
         NEW a \in {"create", "truncate", "sql_stream", "sql_batch"}, At(p, a), run' = run,
         NEW n, NEW f, NEW d, NEW part, Moved(p, part, n, f, d)
  PROVE  CoverBody'
<1>1. Running(p) /\ proc[p].step \in Nat \ {0} /\ proc[p].step <= Len(Program[proc[p].cmd])
      /\ Program[proc[p].cmd][proc[p].step] = a
  BY AtStage
<1>2. proc[p].cmd \notin FeatureCmd
  BY <1>1, CoverPlaces DEF FeatureCmd
<1> QED
  BY <1>1, <1>2, CoverMove

LEMMA CoverCustomers ==
  ASSUME TypeOK, RunsApart, CoverBody, NEW p \in Terminal, SaveCustomers(p)
  PROVE  CoverBody'
<1>1. At(p, "customers") /\ run' = run /\ Advance(p, 1)
      /\ customers' = customers \cup Members(p)
  BY DEF SaveCustomers
<1>2. Moved(p, proc[p].part, proc[p].step + 1, proc[p].frame, proc[p].data)
  BY <1>1, AdvancesOne
<1>3. Running(p) /\ proc[p].step \in Nat \ {0} /\ proc[p].step <= Len(Program[proc[p].cmd])
      /\ Program[proc[p].cmd][proc[p].step] = "customers"
  BY <1>1, AtStage
<1>4. ASSUME proc[p].cmd \in FeatureCmd
      PROVE  StageAt(proc[p].cmd, Members(p), proc[p].step + 1, proc[p].frame, proc[p].data,
                     customers', rows'["transactions"], run, stream'.rows, batch'.rows)
  <2>1. proc[p].cmd = "full_pipeline"
    BY <1>3, <1>4, CoverPlaces DEF FeatureCmd, GenStep
  <2>2. proc[p].step = 1 /\ Base(proc[p].cmd) = 5
    BY <1>3, <1>4, <2>1, CoverPlaces DEF FeatureCmd, Base
  <2> QED
    BY <1>1, <2>1, <2>2 DEF StageAt
<1> QED
  BY <1>1, <1>2, <1>3, <1>4, CoverMove

LEMMA CoverSave ==
  ASSUME TypeOK, RunsApart, CoverBody, NEW p \in Terminal, NEW t \in Saved, Save(p, t)
  PROVE  CoverBody'
<1>1. At(p, t) /\ run' = run /\ customers' = customers /\ stream' = stream /\ batch' = batch
  BY DEF Save, features
<1>2. PICK new \in [Listed(p, t) -> Portion] :
        (\A c \in Listed(p, t) : new[c] >= rows[t][c]) /\ Chunk(p, t, new)
  BY SaveChunk
<1>3. Running(p) /\ proc[p].step \in Nat \ {0} /\ proc[p].step <= Len(Program[proc[p].cmd])
      /\ Program[proc[p].cmd][proc[p].step] = t /\ proc[p].part \in 1..Size
      /\ (proc[p].cmd \in FeatureCmd => Stage(p)) /\ proc[p].run = run /\ proc[p] # Idle
  BY <1>1, AtStage DEF Running
<1> DEFINE ended == \A c \in Listed(p, t) : new[c] = Rows
<1>4. IF ended THEN NextTable(p, t) ELSE UNCHANGED proc
  BY <1>2 DEF Chunk
<1>5. (\A c \in Customer : Whole(c) => Whole(c)') /\ Members(p) \subseteq Customer
      /\ (t = "transactions" /\ ended => \A c \in Members(p) : Whole(c)')
  BY <1>1, <1>2, WholeChunk, MembersType
<1> HIDE DEF ended
<1>6. ASSUME proc[p].cmd \in FeatureCmd
      PROVE  /\ proc[p].cmd = "full_pipeline" /\ Base(proc[p].cmd) = 5
             /\ proc[p].step \in 2..4 /\ (proc[p].step = 2 <=> t = "transactions")
             /\ Members(p) \subseteq customers
             /\ proc[p].step >= 3 => \A c \in Members(p) : Whole(c)'
  <2>1. proc[p].cmd = "full_pipeline"
    BY <1>3, <1>6, CoverPlaces DEF FeatureCmd, GenStep, Saved
  <2>2. Base(proc[p].cmd) = 5
    BY <2>1 DEF Base
  <2>3. proc[p].step \in 2..4 /\ (proc[p].step = 2 <=> t = "transactions")
    BY <1>3, <1>6, <2>1, CoverPlaces DEF FeatureCmd, Saved
  <2>4. Members(p) \subseteq customers
        /\ (proc[p].step >= 3 => \A c \in Members(p) : rows["transactions"][c] = Rows)
    BY <1>3, <1>6, <2>1, <2>3 DEF Stage, StageAt
  <2>5. proc[p].step >= 3 => \A c \in Members(p) : Whole(c)'
    BY <2>4, <1>5 DEF Whole
  <2> QED
    BY <2>1, <2>2, <2>3, <2>4, <2>5
<1>7. CASE ~ended
  <2>1. proc' = proc
    BY <1>4, <1>7
  <2>2. ASSUME proc[p].cmd \in FeatureCmd
        PROVE  Stage(p)'
    <3>1. Members(p)' = Members(p)
      BY <2>1 DEF Members, generate_customers, generate_customer_batch
    <3>2. StageAt(proc[p].cmd, Members(p), proc[p].step, proc[p].frame, proc[p].data,
                  customers', rows'["transactions"], run, stream'.rows, batch'.rows)
      BY <1>1, <2>2, <1>6 DEF StageAt, Whole
    <3> QED
      BY <2>1, <3>1, <3>2, <1>1 DEF Stage
  <2>3. \A q \in Terminal \ {p} : proc[q] # Idle => proc[q].run # run
    BY <1>3 DEF RunsApart
  <2> QED
    BY <1>1, <2>1, <2>2, <2>3 DEF CoverBody, Running
<1>8. CASE ended
  <2>1. NextTable(p, t)
    BY <1>4, <1>8
  <2>2. CASE proc[p].cmd = "generate_50k"
             /\ Moved(p, proc[p].part + 1, 3, proc[p].frame, proc[p].data)
    BY <1>1, <1>3, <2>2, CoverMove DEF FeatureCmd
  <2>3. CASE Moved(p, proc[p].part, proc[p].step + 1, proc[p].frame, proc[p].data)
    <3>1. ASSUME proc[p].cmd \in FeatureCmd
          PROVE  StageAt(proc[p].cmd, Members(p), proc[p].step + 1, proc[p].frame, proc[p].data,
                         customers', rows'["transactions"], run, stream'.rows, batch'.rows)
      <4>1. \A c \in Members(p) : Whole(c)'
        BY <1>5, <1>6, <1>8, <3>1
      <4> QED
        BY <1>1, <1>6, <3>1, <4>1 DEF StageAt, Whole
    <3> QED
      BY <1>1, <1>3, <2>3, <3>1, CoverMove
  <2> QED
    BY <1>1, <2>1, <2>2, <2>3, NextTableMoves
<1> QED
  BY <1>7, <1>8

LEMMA FullMade ==
  ASSUME TypeOK, NEW p \in Terminal, proc[p].run = run
  PROVE  /\ FullOf({[cust |-> c, by |-> proc[p].run, saw |-> 0] : c \in customers}, customers, run)
         /\ proc[p].frame \subseteq FeatureRow /\ FullOf(proc[p].frame, customers, run) =>
              FullOf(Aggregated(p), customers, run) /\ SawOf(Aggregated(p), rows["transactions"])
<1>1. FullOf({[cust |-> c, by |-> proc[p].run, saw |-> 0] : c \in customers}, customers, run)
  <2> DEFINE g(c) == [cust |-> c, by |-> proc[p].run, saw |-> 0]
             S == {g(c) : c \in customers}
  <2>1. \A c \in customers : g(c).cust = c /\ g(c).by = run
    OBVIOUS
  <2> HIDE DEF g
  <2>2. (\A f \in S : f.cust \in customers /\ f.by = run) /\ \A c \in customers : c = g(c).cust
    BY <2>1
  <2>3. {f.cust : f \in S} = customers
    BY <2>1, <2>2
  <2>4. FullOf(S, customers, run)
    BY <2>2, <2>3 DEF FullOf
  <2> QED
    BY <2>4 DEF g
<1>2. ASSUME proc[p].frame \subseteq FeatureRow, FullOf(proc[p].frame, customers, run)
      PROVE  /\ FullOf(Aggregated(p), customers, run)
             /\ SawOf(Aggregated(p), rows["transactions"])
  <2> DEFINE g(f) == [f EXCEPT !.saw = rows["transactions"][f.cust]]
  <2>1. \A f \in proc[p].frame :
          g(f).cust = f.cust /\ g(f).by = f.by /\ g(f).saw = rows["transactions"][f.cust]
    BY <1>2 DEF FeatureRow
  <2>2. Aggregated(p) = {g(f) : f \in proc[p].frame}
    BY DEF Aggregated
  <2> HIDE DEF g
  <2>3. {f.cust : f \in Aggregated(p)} = {f.cust : f \in proc[p].frame}
    BY <2>1, <2>2
  <2>4. \A f \in Aggregated(p) : f.by = run /\ f.saw = rows["transactions"][f.cust]
    BY <1>2, <2>1, <2>2 DEF FullOf
  <2> QED
    BY <1>2, <2>3, <2>4 DEF FullOf, SawOf
<1> QED
  BY <1>1, <1>2

LEMMA CoverLoad ==
  ASSUME TypeOK, RunsApart, CoverBody, NEW p \in Terminal, Load(p)
  PROVE  CoverBody'
<1> DEFINE f == {[cust |-> c, by |-> proc[p].run, saw |-> 0] : c \in customers}
<1>1. At(p, "load") /\ run' = run /\ customers' = customers /\ rows' = rows
      /\ stream' = stream /\ batch' = batch
      /\ Moved(p, proc[p].part, proc[p].step + 1, f, proc[p].data)
  BY LoadMoves DEF Load, generated, features
<1>2. Running(p) /\ proc[p].step \in Nat \ {0} /\ proc[p].step <= Len(Program[proc[p].cmd])
      /\ Program[proc[p].cmd][proc[p].step] = "load" /\ proc[p].run = run
      /\ (proc[p].cmd \in FeatureCmd => Stage(p))
  BY <1>1, AtStage
<1>3. FullOf(f, customers, run)
  BY <1>2, FullMade
<1> HIDE DEF f
<1>4. ASSUME proc[p].cmd \in FeatureCmd
      PROVE  StageAt(proc[p].cmd, Members(p), proc[p].step + 1, f, proc[p].data,
                     customers', rows'["transactions"], run, stream'.rows, batch'.rows)
  <2>1. proc[p].step = Base(proc[p].cmd) /\ Base(proc[p].cmd) \in {2, 5}
        /\ (proc[p].cmd = "full_pipeline" => proc[p].step = 5)
    BY <1>2, <1>4, CoverPlaces DEF FeatureCmd, Base
  <2>2. proc[p].cmd = "full_pipeline" => Members(p) \subseteq customers
                                         /\ \A c \in Members(p) : rows["transactions"][c] = Rows
    BY <1>2, <1>4, <2>1 DEF Stage, StageAt
  <2> QED
    BY <1>1, <1>3, <2>1, <2>2 DEF StageAt
<1> QED
  BY <1>1, <1>2, <1>4, CoverMove

LEMMA CoverAggregate ==
  ASSUME TypeOK, RunsApart, CoverBody, NEW p \in Terminal, Aggregate(p)
  PROVE  CoverBody'
<1>1. At(p, "aggregate") /\ run' = run /\ customers' = customers /\ rows' = rows
      /\ stream' = stream /\ batch' = batch
  BY DEF Aggregate, generated, features
<1>2. Running(p) /\ proc[p].step \in Nat \ {0} /\ proc[p].step <= Len(Program[proc[p].cmd])
      /\ Program[proc[p].cmd][proc[p].step] = "aggregate" /\ proc[p].run = run
      /\ proc[p].run \in Run /\ (proc[p].cmd \in FeatureCmd => Stage(p))
      /\ proc[p].frame \subseteq FeatureRow
  BY <1>1, AtStage, AtType
<1>3. ASSUME proc[p].cmd \in FeatureCmd
      PROVE  /\ proc[p].step = Base(proc[p].cmd) + 1 /\ Base(proc[p].cmd) \in {2, 5}
             /\ proc[p].cmd = "full_pipeline" =>
                  Members(p) \subseteq customers
                  /\ \A c \in Members(p) : rows["transactions"][c] = Rows
             /\ FullOf(proc[p].frame, customers, run)
  <2>1. proc[p].step = Base(proc[p].cmd) + 1 /\ Base(proc[p].cmd) \in {2, 5}
        /\ (proc[p].cmd = "full_pipeline" => proc[p].step = 6)
    BY <1>2, <1>3, CoverPlaces DEF FeatureCmd, Base
  <2>2. proc[p].step \in (Base(proc[p].cmd) + 1)..(Base(proc[p].cmd) + 3)
    BY <2>1
  <2> QED
    BY <1>2, <1>3, <2>1, <2>2 DEF Stage, StageAt
\* The pipeline has saved transactions of its own.
<1>4. proc[p].cmd \in FeatureCmd => ~Nothing(p)
  <2> SUFFICES ASSUME proc[p].cmd = "full_pipeline",
                      \A c \in Customer : rows["transactions"][c] = 0
               PROVE  FALSE
    BY DEF Nothing
  <2>1. \A c \in Members(p) : rows["transactions"][c] = Rows
    BY <1>3 DEF FeatureCmd
  <2>2. <<proc[p].run, 1>> \in Members(p) /\ <<proc[p].run, 1>> \in Customer
    BY <1>2, TrainingDataAssumption DEF Members, generate_customers, generate_customer_batch, Customer
  <2> QED
    BY <2>1, <2>2, TrainingDataAssumption
<1>5. CASE proc[p].cmd \notin FeatureCmd
  <2>1. \E n, f : Moved(p, proc[p].part, n, f, proc[p].data)
    BY AggregateMoves
  <2> QED
    BY <1>1, <1>2, <1>5, <2>1, CoverMove
<1>6. CASE proc[p].cmd \in FeatureCmd
  <2>1. Moved(p, proc[p].part, proc[p].step + 1, Aggregated(p), proc[p].data)
    BY <1>4, <1>6, AggregateMoves
  <2>2. FullOf(Aggregated(p), customers, run) /\ SawOf(Aggregated(p), rows["transactions"])
    BY <1>2, <1>3, <1>6, FullMade
  <2>3. StageAt(proc[p].cmd, Members(p), proc[p].step + 1, Aggregated(p), proc[p].data,
                customers', rows'["transactions"], run, stream'.rows, batch'.rows)
    BY <1>1, <1>3, <1>6, <2>2 DEF StageAt
  <2> QED
    BY <1>1, <1>2, <2>1, <2>3, CoverMove
<1> QED
  BY <1>5, <1>6

LEMMA CoverDrop ==
  ASSUME TypeOK, RunsApart, CoverBody, NEW p \in Terminal, Drop(p)
  PROVE  CoverBody'
<1>1. At(p, "drop") /\ run' = run
      /\ Moved(p, proc[p].part, proc[p].step + 1, proc[p].frame, proc[p].data)
  BY AdvancesOne DEF Drop
<1>2. Running(p) /\ proc[p].step \in Nat \ {0} /\ proc[p].step <= Len(Program[proc[p].cmd])
      /\ Program[proc[p].cmd][proc[p].step] = "drop"
  BY <1>1, AtStage
<1>3. ASSUME proc[p].cmd \in FeatureCmd
      PROVE  StageAt(proc[p].cmd, Members(p), proc[p].step + 1, proc[p].frame, proc[p].data,
                     customers', rows'["transactions"], run, stream'.rows, batch'.rows)
  <2>1. proc[p].cmd = "retrain_large" /\ proc[p].step = 1 /\ Base(proc[p].cmd) = 2
    BY <1>2, <1>3, CoverPlaces DEF FeatureCmd, Base
  <2> QED
    BY <2>1 DEF StageAt
<1> QED
  BY <1>1, <1>2, <1>3, CoverMove

\* Before either write: the frame is ready, and so is what the first write has written.
LEMMA CoverWrites ==
  ASSUME TypeOK, RunsApart, CoverBody, Lone, NEW p \in Terminal, WriteStream(p) \/ WriteBatch(p)
  PROVE  CoverBody'
<1>1. run' = run /\ customers' = customers /\ rows' = rows
      /\ Moved(p, proc[p].part, proc[p].step + 1, proc[p].frame, proc[p].data)
      /\ \/ At(p, "stream") /\ stream' = Written(p, stream) /\ batch' = batch
         \/ At(p, "batch") /\ batch' = Written(p, batch) /\ stream' = stream
  BY AdvancesOne DEF WriteStream, WriteBatch, generated
<1>2. PICK a \in {"stream", "batch"} :
        /\ At(p, a)
        /\ a = "stream" => stream' = Written(p, stream) /\ batch' = batch
        /\ a = "batch" => batch' = Written(p, batch) /\ stream' = stream
  BY <1>1
<1>3. Running(p) /\ proc[p].step \in Nat \ {0} /\ proc[p].step <= Len(Program[proc[p].cmd])
      /\ Program[proc[p].cmd][proc[p].step] = a /\ proc[p].run = run
      /\ (proc[p].cmd \in FeatureCmd => Stage(p))
  BY <1>2, AtStage
<1>4. CASE proc[p].cmd = "full_pipeline"
  <2>1. Base(proc[p].cmd) = 5 /\ (a = "batch" <=> proc[p].step = 7)
        /\ (a = "stream" <=> proc[p].step = 8)
    BY <1>3, <1>4, CoverPlaces DEF Base
  <2>2. Written(p, stream).rows = proc[p].frame /\ Written(p, batch).rows = proc[p].frame
    BY <1>4 DEF Written
  <2>3. /\ Members(p) \subseteq customers
        /\ \A c \in Members(p) : rows["transactions"][c] = Rows
        /\ FullOf(proc[p].frame, customers, run)
        /\ SawOf(proc[p].frame, rows["transactions"])
        /\ proc[p].step = 8 => FullOf(batch.rows, customers, run)
    BY <1>2, <1>3, <1>4, <2>1 DEF Stage, StageAt, FeatureCmd
  <2>4. StageAt(proc[p].cmd, Members(p), proc[p].step + 1, proc[p].frame, proc[p].data,
                customers', rows'["transactions"], run, stream'.rows, batch'.rows)
    BY <1>1, <1>2, <1>4, <2>1, <2>2, <2>3 DEF StageAt
  <2> QED
    BY <1>1, <1>3, <2>4, CoverMove
<1>5. CASE proc[p].cmd = "retrain_large"
  <2>1. Base(proc[p].cmd) = 2 /\ (a = "stream" <=> proc[p].step = 4)
        /\ (a = "batch" <=> proc[p].step = 5)
    BY <1>3, <1>5, CoverPlaces DEF Base
  <2>2. /\ a = "stream" => Written(p, stream).rows = proc[p].frame
        /\ a = "batch" => Written(p, batch).rows = proc[p].frame
    <3>1. /\ proc[p].step \in 2..4 => stream.rows = {}
          /\ proc[p].step \in 2..5 => batch.rows = {}
      BY <1>3, <1>5, Emptied
    <3> QED
      BY <2>1, <3>1, <1>5 DEF Written
  <2>3. /\ FullOf(proc[p].frame, customers, run)
        /\ SawOf(proc[p].frame, rows["transactions"])
        /\ proc[p].step = 5 => FullOf(stream.rows, customers, run)
                               /\ SawOf(stream.rows, rows["transactions"])
    BY <1>2, <1>3, <1>5, <2>1 DEF Stage, StageAt, FeatureCmd
  <2>4. StageAt(proc[p].cmd, Members(p), proc[p].step + 1, proc[p].frame, proc[p].data,
                customers', rows'["transactions"], run, stream'.rows, batch'.rows)
    BY <1>1, <1>2, <1>5, <2>1, <2>2, <2>3 DEF StageAt
  <2> QED
    BY <1>1, <1>3, <2>4, CoverMove
<1>6. CASE proc[p].cmd \notin FeatureCmd
  BY <1>1, <1>3, <1>6, CoverMove
<1> QED
  BY <1>4, <1>5, <1>6 DEF FeatureCmd

LEMMA DataMerged ==
  ASSUME NEW f, NEW g, NEW cs, NEW tr, NEW r,
         FullOf(f, cs, r), SawOf(f, tr), FullOf(g, cs, r)
  PROVE  DataOf(Merged(f, g), cs, tr, r)
<1> DEFINE row(q) == [cust |-> q[1].cust, stream |-> q[1].by, batch |-> q[2].by,
                      saw |-> q[1].saw, label |-> FALSE, settled |-> FALSE]
           Q == {q \in f \X g : q[1].cust = q[2].cust}
<1>1. Merged(f, g) = {row(q) : q \in Q}
  BY DEF Merged
<1>2. \A q \in Q : /\ row(q).cust = q[1].cust /\ row(q).stream = q[1].by
                   /\ row(q).batch = q[2].by /\ row(q).saw = q[1].saw
  OBVIOUS
<1>3. \A q \in Q : q[1] \in f /\ q[2] \in g
  OBVIOUS
<1>4. ASSUME NEW c \in cs PROVE \E q \in Q : q[1].cust = c
  <2>1. PICK x \in f : x.cust = c
    BY DEF FullOf
  <2>2. PICK y \in g : y.cust = c
    BY DEF FullOf
  <2>3. <<x, y>> \in Q /\ <<x, y>>[1] = x
    BY <2>1, <2>2
  <2> QED
    BY <2>1, <2>3
<1> HIDE DEF row, Q
<1>5. \A d \in Merged(f, g) : d.cust \in cs /\ d.stream = r /\ d.batch = r /\ d.saw = tr[d.cust]
  BY <1>1, <1>2, <1>3 DEF FullOf, SawOf
<1>6. \A c \in cs : \E d \in Merged(f, g) : d.cust = c
  BY <1>1, <1>2, <1>4
<1>7. {d.cust : d \in Merged(f, g)} = cs
  BY <1>5, <1>6
<1> QED
  BY <1>5, <1>7 DEF DataOf

LEMMA DataLabelled ==
  ASSUME TypeOK, NEW S \in SUBSET DataRow, NEW cs, NEW tr, NEW r, DataOf(S, cs, tr, r)
  PROVE  DataOf({Labelled(d) : d \in S}, cs, tr, r)
<1>1. \A d \in S : /\ Labelled(d).cust = d.cust /\ Labelled(d).stream = d.stream
                   /\ Labelled(d).batch = d.batch /\ Labelled(d).saw = d.saw
  BY LabelledType
<1> DEFINE T == {Labelled(d) : d \in S}
<1>2. \A e \in T : e.cust \in cs /\ e.stream = r /\ e.batch = r /\ e.saw = tr[e.cust]
  BY <1>1 DEF DataOf
<1>3. ASSUME NEW c \in cs PROVE \E e \in T : e.cust = c
  <2>1. PICK d \in S : d.cust = c
    BY DEF DataOf
  <2> QED
    BY <2>1, <1>1
<1>4. {e.cust : e \in T} = cs
  BY <1>2, <1>3
<1> QED
  BY <1>2, <1>4 DEF DataOf

LEMMA CoverReads ==
  ASSUME TypeOK, RunsApart, CoverBody, NEW p \in Terminal, Build(p)
  PROVE  CoverBody'
<1>1. run' = run /\ customers' = customers /\ rows' = rows /\ stream' = stream /\ batch' = batch
  BY DEF Build, ReadStream, ReadBatch, ReadEvents, generated, features
<1>2. ASSUME NEW a, At(p, a)
      PROVE  /\ Running(p) /\ proc[p].step \in Nat \ {0}
             /\ proc[p].step <= Len(Program[proc[p].cmd])
             /\ Program[proc[p].cmd][proc[p].step] = a
             /\ (proc[p].cmd \in FeatureCmd => Stage(p))
  BY <1>2, AtStage
<1>3. proc[p].cmd \in FeatureCmd => Base(proc[p].cmd) \in {2, 5}
  BY DEF Base
\* The parts of the stage that the end of a command keeps.
<1>4. ASSUME proc[p].cmd \in FeatureCmd, Stage(p), proc[p].step >= Base(proc[p].cmd) + 4,
             proc[p].step \in Nat
      PROVE  /\ proc[p].cmd = "full_pipeline" =>
                  Members(p) \subseteq customers
                  /\ \A c \in Members(p) : rows["transactions"][c] = Rows
             /\ FullOf(batch.rows, customers, run) /\ FullOf(stream.rows, customers, run)
             /\ SawOf(stream.rows, rows["transactions"])
  BY <1>3, <1>4 DEF Stage, StageAt
<1>5. ASSUME proc[p].cmd \in FeatureCmd, Stage(p), proc[p].step >= Base(proc[p].cmd) + 4,
             proc[p].step \in Nat, NEW n \in Nat, NEW f, NEW d,
             n >= Base(proc[p].cmd) + 5,
             n = Base(proc[p].cmd) + 5 =>
               FullOf(f, customers, run) /\ SawOf(f, rows["transactions"]),
             n >= Base(proc[p].cmd) + 6 => DataOf(d, customers, rows["transactions"], run)
      PROVE  StageAt(proc[p].cmd, Members(p), n, f, d,
                     customers', rows'["transactions"], run, stream'.rows, batch'.rows)
  BY <1>1, <1>3, <1>4, <1>5 DEF StageAt
<1>6. CASE ReadStream(p)
  <2>1. At(p, "read_stream")
        /\ Moved(p, proc[p].part, proc[p].step + 1, stream.rows, proc[p].data)
    BY <1>6, ReadStreamMoves DEF ReadStream
  <2>2. ASSUME proc[p].cmd \in FeatureCmd
        PROVE  StageAt(proc[p].cmd, Members(p), proc[p].step + 1, stream.rows, proc[p].data,
                       customers', rows'["transactions"], run, stream'.rows, batch'.rows)
    <3>1. proc[p].step = Base(proc[p].cmd) + 4
      BY <1>2, <2>1, <2>2, CoverPlaces DEF FeatureCmd
    <3>2. proc[p].step + 1 \in Nat /\ proc[p].step \in Nat
          /\ proc[p].step + 1 = Base(proc[p].cmd) + 5
          /\ proc[p].step >= Base(proc[p].cmd) + 4
          /\ ~(proc[p].step + 1 >= Base(proc[p].cmd) + 6)
          /\ proc[p].step + 1 >= Base(proc[p].cmd) + 5
      BY <1>3, <2>2, <3>1
    <3> QED
      BY <1>2, <1>4, <1>5, <2>1, <2>2, <3>2
  <2> QED
    BY <1>1, <1>2, <2>1, <2>2, CoverMove
<1>7. CASE ReadBatch(p)
  <2>1. At(p, "read_batch")
    BY <1>7 DEF ReadBatch
  <2>2. PICK k \in {1, 2} :
          Moved(p, proc[p].part, proc[p].step + k, {}, Merged(proc[p].frame, batch.rows))
    BY <1>7, ReadBatchMoves
  <2>3. ASSUME proc[p].cmd \in FeatureCmd
        PROVE  StageAt(proc[p].cmd, Members(p), proc[p].step + k, {},
                       Merged(proc[p].frame, batch.rows),
                       customers', rows'["transactions"], run, stream'.rows, batch'.rows)
    <3>1. proc[p].step = Base(proc[p].cmd) + 5
      BY <1>2, <2>1, <2>3, CoverPlaces DEF FeatureCmd
    <3>2. proc[p].step + k \in Nat /\ proc[p].step \in Nat
          /\ proc[p].step >= Base(proc[p].cmd) + 4
          /\ proc[p].step + k # Base(proc[p].cmd) + 5
          /\ proc[p].step + k >= Base(proc[p].cmd) + 5
      BY <1>3, <2>3, <3>1
    <3>3. FullOf(proc[p].frame, customers, run) /\ SawOf(proc[p].frame, rows["transactions"])
      BY <1>2, <2>1, <2>3, <3>1 DEF Stage, StageAt
    <3>4. DataOf(Merged(proc[p].frame, batch.rows), customers, rows["transactions"], run)
      BY <1>2, <1>4, <2>1, <2>3, <3>2, <3>3, DataMerged
    <3> QED
      BY <1>2, <1>5, <2>1, <2>3, <3>2, <3>4
  <2> QED
    BY <1>1, <1>2, <2>1, <2>2, <2>3, CoverMove
<1>8. CASE ReadEvents(p)
  <2>1. At(p, "read_events")
        /\ Moved(p, proc[p].part, proc[p].step + 1, proc[p].frame,
                 {Labelled(d) : d \in proc[p].data})
    BY <1>8, ReadEventsMoves DEF ReadEvents
  <2>2. ASSUME proc[p].cmd \in FeatureCmd
        PROVE  StageAt(proc[p].cmd, Members(p), proc[p].step + 1, proc[p].frame,
                       {Labelled(d) : d \in proc[p].data},
                       customers', rows'["transactions"], run, stream'.rows, batch'.rows)
    <3>1. proc[p].step = Base(proc[p].cmd) + 6
      BY <1>2, <2>1, <2>2, CoverPlaces DEF FeatureCmd
    <3>2. proc[p].step + 1 \in Nat /\ proc[p].step \in Nat
          /\ proc[p].step >= Base(proc[p].cmd) + 4 /\ proc[p].step >= Base(proc[p].cmd) + 6
          /\ proc[p].step + 1 # Base(proc[p].cmd) + 5
          /\ proc[p].step + 1 >= Base(proc[p].cmd) + 5
      BY <1>3, <2>2, <3>1
    <3>3. DataOf(proc[p].data, customers, rows["transactions"], run)
      BY <1>2, <2>1, <2>2, <3>2 DEF Stage, StageAt
    <3>4. proc[p].data \in SUBSET DataRow
      BY <2>1, AtType
    <3>5. DataOf({Labelled(d) : d \in proc[p].data}, customers, rows["transactions"], run)
      BY <3>3, <3>4, DataLabelled
    <3> QED
      BY <1>2, <1>5, <2>1, <2>2, <3>2, <3>5
  <2> QED
    BY <1>1, <1>2, <2>1, <2>2, CoverMove
<1> QED
  BY <1>6, <1>7, <1>8 DEF Build

LEMMA CoverStart ==
  ASSUME TypeOK, CoverBody, NEW p \in Terminal, NEW cmd \in Command, Start(p, cmd),
         \A q \in Terminal : ~Running(q)
  PROVE  CoverBody'
<1> DEFINE x == [cmd |-> cmd, run |-> run + 1, step |-> 1, part |-> 1, frame |-> {}, data |-> {}]
<1>1. proc'[p] = x /\ run' = run + 1 /\ run \in Nat
      /\ \A q \in Terminal \ {p} : proc'[q] = proc[q]
  BY StartType
<1>2. x.run = run + 1 /\ x.step = 1 /\ x.cmd = cmd
  OBVIOUS
<1> HIDE DEF x
<1>3. ASSUME NEW q \in Terminal, q # p, proc'[q] # Idle PROVE proc'[q].run # run'
  <2>1. proc[q] # Idle /\ proc'[q] = proc[q]
    BY <1>1, <1>3
  <2>2. proc[q] \in ProcState /\ proc[q].run <= run
    BY <2>1 DEF TypeOK
  <2>3. proc[q].run \in Nat
    BY <2>2 DEF ProcState, Run
  <2> QED
    BY <1>1, <2>1, <2>2, <2>3
<1>4. \A q \in Terminal : Running(q)' => proc'[q].run = run'
  BY <1>1, <1>2 DEF Running
<1>5. ASSUME proc'[p].cmd \in FeatureCmd PROVE Stage(p)'
  <2>1. Base(cmd) \in {2, 5}
    BY DEF Base
  <2>2. proc'[p].cmd = cmd /\ proc'[p].step = 1
    BY <1>1, <1>2
  <2> QED
    BY <2>1, <2>2 DEF Stage, StageAt
<1> QED
  BY <1>3, <1>4, <1>5 DEF CoverBody

LEMMA CoverStep == ASSUME TypeOK, LabelInv, OnceInv, CoverInv, [Next]_vars PROVE CoverInv'
<1> SUFFICES ASSUME alone' PROVE CoverBody'
  BY DEF CoverInv
<1>0. RunsApart
  BY DEF LabelInv
<1>1. ASSUME NEW p \in Terminal, NEW cmd \in Command, Start(p, cmd) PROVE CoverBody'
  BY <1>1, CoverStart DEF Start, CoverInv
<1>2. ASSUME NEW p \in Terminal, Generate(p) PROVE CoverBody'
  <2>1. alone /\ run' = run
    BY <1>2 DEF Generate, Create, Truncate, SaveCustomers, Save, history
  <2>2. CoverBody
    BY <2>1 DEF CoverInv
  <2>3. ASSUME NEW a \in {"create", "truncate"}, At(p, a), Advance(p, 1) PROVE CoverBody'
    <3>1. Moved(p, proc[p].part, proc[p].step + 1, proc[p].frame, proc[p].data)
      BY <2>1, <2>3, AdvancesOne
    <3> QED
      BY <1>0, <2>1, <2>2, <2>3, <3>1, CoverOther
  <2>4. CASE Create(p) \/ Truncate(p)
    BY <2>3, <2>4 DEF Create, Truncate
  <2>5. CASE SaveCustomers(p)
    BY <1>0, <2>2, <2>5, CoverCustomers
  <2>6. CASE \E t \in Saved : Save(p, t)
    BY <1>0, <2>2, <2>6, CoverSave
  <2> QED
    BY <1>2, <2>4, <2>5, <2>6 DEF Generate
<1>3. ASSUME NEW p \in Terminal, Compute(p) PROVE CoverBody'
  <2>1. alone /\ run' = run
    BY <1>3 DEF Compute, Load, Aggregate, Drop, WriteStream, WriteBatch, SqlFeatures, SqlFails,
         history
  <2>2. CoverBody /\ Lone
    BY <2>1 DEF CoverInv, OnceInv
  <2>3. CASE Load(p) \/ Aggregate(p) \/ Drop(p)
    BY <1>0, <2>2, <2>3, CoverLoad, CoverAggregate, CoverDrop
  <2>4. CASE WriteStream(p) \/ WriteBatch(p)
    BY <1>0, <2>2, <2>4, CoverWrites
  <2>5. CASE SqlFeatures(p) \/ SqlFails(p)
    <3>1. PICK a \in {"sql_stream", "sql_batch"} : At(p, a)
      BY <2>5 DEF SqlFeatures, SqlFails
    <3>2. \E k \in {1, 2} : Passes(p, k)
      BY <2>5, SqlMoves, SqlFailsMoves
    <3> QED
      BY <1>0, <2>1, <2>2, <3>1, <3>2, CoverOther DEF Passes
  <2> QED
    BY <1>3, <2>3, <2>4, <2>5 DEF Compute
<1>4. ASSUME NEW p \in Terminal, Build(p) PROVE CoverBody'
  <2>1. alone
    BY <1>4 DEF Build, ReadStream, ReadBatch, ReadEvents, history
  <2> QED
    BY <1>0, <1>4, <2>1, CoverReads DEF CoverInv
<1>5. ASSUME NEW p \in Terminal, Raise(p) \/ Die(p) PROVE CoverBody'
  <2>1. alone /\ run' = run /\ customers' = customers /\ rows' = rows
        /\ stream' = stream /\ batch' = batch /\ proc' = [proc EXCEPT ![p] = Idle]
    BY <1>5 DEF Raise, Die, history, generated, features
  <2>2. proc'[p] = Idle /\ \A q \in Terminal \ {p} : proc'[q] = proc[q]
    BY <2>1, Ends DEF Ended
  <2>3. CoverBody
    BY <2>1 DEF CoverInv
  <2>4. \A q \in Terminal : Running(q)' => Running(q) /\ proc'[q] = proc[q]
    BY <2>2 DEF Running
  <2>5. ASSUME NEW q \in Terminal, proc'[q] # Idle, proc'[q].run = run',
               proc'[q].cmd \in FeatureCmd
        PROVE  Stage(q)'
    <3>1. proc'[q] = proc[q]
      BY <2>2, <2>5
    <3>2. Stage(q)
      BY <2>1, <2>3, <2>5, <3>1 DEF CoverBody
    <3> QED
      BY <2>1, <3>1, <3>2 DEF Stage, Members, generate_customers, generate_customer_batch
  <2> QED
    BY <2>1, <2>3, <2>4, <2>5 DEF CoverBody
<1>6. CASE UNCHANGED vars
  <2>1. proc' = proc /\ run' = run /\ alone' = alone /\ customers' = customers /\ rows' = rows
        /\ stream' = stream /\ batch' = batch
    BY <1>6 DEF vars, generated, features, history
  <2> QED
    BY <2>1 DEF CoverInv, CoverBody, Running, Stage, Members, generate_customers, generate_customer_batch
<1> QED
  BY <1>1, <1>2, <1>3, <1>4, <1>5, <1>6 DEF Next

LEMMA CoverInit == ASSUME Init PROVE CoverInv
<1>1. \A p \in Terminal : proc[p] = Idle
  BY DEF Init
<1> QED
  BY <1>1 DEF CoverInv, CoverBody, Running

\* Commands used one after the other, whatever died before: a pipeline and a retraining
\* that reach their training train on everybody, on their own features, and on whole
\* histories where the generation was complete.
THEOREM TrainsOnAll == Spec => []PipelineCovers
<1>1. Init => TypeOK /\ LabelInv /\ OnceInv /\ WholeInv /\ CoverInv
  BY TypeInit, LabelInit, OnceInit, WholeInit, CoverInit
<1>2. TypeOK /\ LabelInv /\ OnceInv /\ WholeInv /\ CoverInv /\ [Next]_vars
        => TypeOK' /\ LabelInv' /\ OnceInv' /\ WholeInv' /\ CoverInv'
  BY TypeStep, LabelStep, OnceStep, WholeStep, CoverStep
<1>3. TypeOK /\ LabelInv /\ WholeInv /\ CoverInv => PipelineCovers
  <2> SUFFICES ASSUME TypeOK, LabelInv, WholeInv, CoverInv, NEW p \in Terminal, Done(p),
                      proc[p].run = run, alone, proc[p].cmd \in FeatureCmd
               PROVE  /\ {d.cust : d \in proc[p].data} = customers
                      /\ \A d \in proc[p].data :
                           /\ d.stream = run /\ d.batch = run
                           /\ d.settled => d.saw = Rows
    BY DEF PipelineCovers, FeatureCmd
  <2>1. proc[p] # Idle /\ ~(proc[p].step <= Len(Program[proc[p].cmd]))
    BY DEF Done, Running
  <2>2. proc[p] \in ProcState
    BY <2>1 DEF TypeOK
  <2>3. proc[p].step \in Nat \ {0}
    BY <2>2 DEF ProcState
  <2>4. Len(Program[proc[p].cmd]) = Base(proc[p].cmd) + 6 /\ Base(proc[p].cmd) \in {2, 5}
    BY <2>3, CoverPlaces DEF FeatureCmd, Base
  <2>5. proc[p].step >= Base(proc[p].cmd) + 6
    BY <2>1, <2>3, <2>4
  <2>6. Stage(p)
    BY <2>1 DEF CoverInv, CoverBody
  <2>7. DataOf(proc[p].data, customers, rows["transactions"], run)
    BY <2>5, <2>6 DEF Stage, StageAt
  <2>8. ASSUME NEW d \in proc[p].data, d.settled PROVE d.saw = Rows
    <3>1. d.cust \in customers /\ d.saw = rows["transactions"][d.cust]
      BY <2>7 DEF DataOf
    <3>2. d.cust[1] \in complete
      BY <2>8 DEF LabelInv, Truth, TrueRow
    <3> QED
      BY <3>1, <3>2 DEF WholeInv, Whole
  <2> QED
    BY <2>7, <2>8 DEF DataOf
<1> QED
  BY <1>1, <1>2, <1>3, PTL DEF Spec

=============================================================================
