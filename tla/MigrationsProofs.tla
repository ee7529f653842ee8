-------------------------- MODULE MigrationsProofs --------------------------
(***************************************************************************)
(* Proofs about Migrations, for every number of processes and runs.        *)
(***************************************************************************)
EXTENDS Migrations, TLAPS

-----------------------------------------------------------------------------

\* The script of p has still to come to t.
ToCome(p, t) == \E i \in 1..Len(proc[p].todo) : proc[p].todo[i] = t

\* What the transaction of an Up or of a Down consists of.
Shape(p) ==
    /\ At(p, "ddl") => proc[p].todo # <<>>
    /\ At(p, "record") \/ At(p, "commit") => proc[p].todo = <<>>
    /\ proc[p].op = "up" => /\ tx[p].drops = {} /\ tx[p].row # "deletes"
                            /\ At(p, "commit") => tx[p].row = "inserts"
    /\ proc[p].op = "down" => tx[p].creates = {} /\ tx[p].shares = {} /\ tx[p].row # "inserts"

\* An Up that has found no table creates every table it comes to.  One that has
\* found a table holds the lock of an index, for the first table has one; it will
\* not insert the row.
UpProgress(p) ==
    /\ tx[p].shares = {} => \A t \in Tables : t \in tx[p].creates \/ ToCome(p, t)
    /\ At(p, "ddl") /\ tx[p].creates = {} /\ tx[p].shares = {} => Head(proc[p].todo) \in Indexed
    /\ At(p, "commit") => ~recorded

\* A Down that no other Down has overtaken finds and drops every table.
DownProgress(p) ==
    /\ recorded
    /\ \A t \in Tables : t \in tx[p].drops \/ ToCome(p, t)
    /\ At(p, "commit") => tx[p].row = "deletes"

Progress(p) ==
    /\ tx[p].creates \cap tables = {} /\ tx[p].shares \subseteq tables
    /\ proc[p].at \in InTx /\ proc[p].op = "up" => UpProgress(p)
    /\ proc[p].at \in InTx /\ proc[p].op = "down" => DownProgress(p)

\* No two transactions create one table, or one drops what the other indexes.
Apart(p, q) == tx[p].creates \cap tx[q].creates = {} /\ tx[p].shares \cap tx[q].drops = {}

\* A run of Up that returned nil has seen or written the record.
UpSawRecord ==
    \A p \in Procs : (At(p, "ok") /\ proc[p].op = "up" /\ ~reverted) => recorded

\* Every transaction gets on as it should and keeps apart from the others.
AllProgress ==
    /\ \A p \in Procs : Progress(p)
    /\ \A p \in Procs : \A q \in Others(p) : Apart(p, q)

MigrationsInv ==
    /\ MigrationsTypeOK
    /\ \A p \in Procs : Shape(p)
    /\ crossed => reverted
    /\ UpSawRecord
    /\ SchemaMatchesRecord
    /\ ~crossed => AllProgress

\* The scripts name all tables, and the first one that Up creates has an index.
LEMMA Scripts ==
    /\ initUp \in Seq(Tables) /\ initUp # <<>> /\ Head(initUp) \in Indexed
    /\ initDown \in Seq(Tables) /\ initDown # <<>>
    /\ \A t \in Tables : /\ \E i \in 1..Len(initUp) : initUp[i] = t
                         /\ \E i \in 1..Len(initDown) : initDown[i] = t
<1>1. Len(initUp) = 3 /\ Len(initDown) = 3 /\ initUp \in Seq(Tables) /\ initDown \in Seq(Tables)
  BY DEF initUp, initDown, Tables
<1>2. /\ initUp[1] = "quotes" /\ initUp[2] = "fee_schedules" /\ initUp[3] = "rate_sources"
      /\ initDown[1] = "rate_sources" /\ initDown[2] = "fee_schedules" /\ initDown[3] = "quotes"
  BY DEF initUp, initDown
<1>3. 1 \in 1..3 /\ 2 \in 1..3 /\ 3 \in 1..3
  OBVIOUS
<1>4. initUp # <<>> /\ initDown # <<>>
  BY DEF initUp, initDown
<1>5. Head(initUp) \in Indexed
  BY DEF initUp, Indexed
<1> QED
  BY <1>1, <1>2, <1>3, <1>4, <1>5 DEF Tables

LEMMA MigrationsInitInv == MigrationsInit => MigrationsInv
<1> SUFFICES ASSUME MigrationsInit PROVE MigrationsInv
  OBVIOUS
<1>1. <<>> \in Seq(Tables)
  OBVIOUS
<1>2. NoTx \in Transaction
  BY DEF NoTx, Transaction
<1>3. Ready \in Process
  BY <1>1 DEF Ready, Process
<1>4. \A p \in Procs : tx[p] = NoTx /\ proc[p] = Ready
  BY DEF MigrationsInit
<1>5. MigrationsTypeOK
  <2>1. 0 \in 0..MaxRuns
    BY MigrationsAssumption
  <2>2. tables \subseteq Tables
    BY DEF MigrationsInit
  <2>3. /\ proc \in [Procs -> Process] /\ tx \in [Procs -> Transaction]
        /\ runs \in [Procs -> 0..MaxRuns]
        /\ recorded \in BOOLEAN /\ reverted \in BOOLEAN /\ crossed \in BOOLEAN
    BY <1>2, <1>3, <2>1 DEF MigrationsInit
  <2> QED
    BY <1>4, <2>2, <2>3 DEF MigrationsTypeOK
<1>6. (\A p \in Procs : Shape(p)) /\ AllProgress /\ UpSawRecord
  BY <1>4 DEF Shape, AllProgress, Progress, Apart, UpSawRecord, At, Ready, NoTx, Others, InTx
<1>7. SchemaMatchesRecord /\ (crossed => reverted)
  BY DEF MigrationsInit, SchemaMatchesRecord
<1> QED
  BY <1>5, <1>6, <1>7 DEF MigrationsInv

\* A step of p that leaves the database alone and keeps what concerns p.
LEMMA Quiet ==
    ASSUME MigrationsInv, NEW p \in Procs, MigrationsTypeOK',
           UNCHANGED <<tables, recorded, reverted, crossed>>,
           \A q \in Others(p) : proc'[q] = proc[q] /\ tx'[q] = tx[q],
           Shape(p)',
           ~crossed => Progress(p)' /\ \A q \in Others(p) : Apart(p, q)' /\ Apart(q, p)',
           At(p, "ok")' /\ proc'[p].op = "up" => recorded
    PROVE  MigrationsInv'
<1>1. ASSUME NEW q \in Others(p) PROVE Shape(q)' /\ (~crossed => Progress(q)')
  BY <1>1 DEF MigrationsInv, AllProgress, Others, Shape, Progress, UpProgress, DownProgress,
              ToCome, At
<1>2. \A q \in Procs : q = p \/ q \in Others(p)
  BY DEF Others
<1>3. (\A q \in Procs : Shape(q)') /\ (~crossed => \A q \in Procs : Progress(q)')
  BY <1>1, <1>2
<1>4. ASSUME ~crossed, NEW q \in Procs, NEW r \in Others(q) PROVE Apart(q, r)'
  <2>1. CASE q = p \/ r = p
    BY <1>2, <1>4, <2>1 DEF Others
  <2>2. CASE q # p /\ r # p
    BY <1>4, <2>2 DEF MigrationsInv, AllProgress, Others, Apart
  <2> QED
    BY <2>1, <2>2
<1>5. UpSawRecord'
  BY <1>2 DEF MigrationsInv, UpSawRecord, At
<1>6. SchemaMatchesRecord' /\ (crossed' => reverted')
  BY DEF MigrationsInv, SchemaMatchesRecord
<1> QED
  BY <1>3, <1>4, <1>5, <1>6 DEF MigrationsInv, AllProgress

\* Such a step outside a transaction, or to the start of one.
LEMMA LocalStep ==
    ASSUME MigrationsInv, NEW p \in Procs,
           UNCHANGED <<tables, recorded, tx, reverted, crossed>>,
           proc[p].at \notin InTx,
           proc' \in [Procs -> Process], \A q \in Procs : q # p => proc'[q] = proc[q],
           proc'[p].at \in {"ensure", "check", "ok", "ddl"},
           runs' \in [Procs -> 0..MaxRuns],
           proc'[p].at = "ok" /\ proc'[p].op = "up" => recorded,
           proc'[p].at = "ddl" =>
               /\ proc'[p].todo # <<>> /\ \A t \in Tables : ToCome(p, t)'
               /\ proc'[p].op = "up" => Head(proc'[p].todo) \in Indexed
               /\ proc'[p].op = "down" => recorded
    PROVE  MigrationsInv'
<1>1. /\ tx[p] = NoTx /\ tx'[p] = NoTx /\ NoTx.creates = {} /\ NoTx.drops = {}
      /\ NoTx.shares = {} /\ NoTx.row = "none"
  BY DEF MigrationsInv, MigrationsTypeOK, NoTx
<1>2. MigrationsTypeOK'
  BY <1>1 DEF MigrationsInv, MigrationsTypeOK
<1>3. Shape(p)'
  BY <1>1 DEF Shape, At
<1>4. proc'[p].at # "record" /\ proc'[p].at # "commit"
  OBVIOUS
<1>5. Progress(p)'
  BY <1>1, <1>4 DEF Progress, UpProgress, DownProgress, At, InTx
<1>6. \A q \in Others(p) : Apart(p, q)' /\ Apart(q, p)'
  BY <1>1 DEF Apart
<1> QED
  BY <1>2, <1>3, <1>5, <1>6, Quiet DEF Others, At

\* A table that the rest of a script has still to come to.
LEMMA RestOfScript ==
    ASSUME NEW todo \in Seq(Tables), todo # <<>>
    PROVE  /\ Head(todo) \in Tables /\ Tail(todo) \in Seq(Tables)
           /\ \A t \in Tables : (\E i \in 1..Len(todo) : todo[i] = t) =>
                 t = Head(todo) \/ \E i \in 1..Len(Tail(todo)) : Tail(todo)[i] = t
<1>1. /\ Head(todo) \in Tables /\ Tail(todo) \in Seq(Tables)
      /\ Len(todo) \in Nat /\ Len(Tail(todo)) = Len(todo) - 1
      /\ \A i \in 1..Len(Tail(todo)) : Tail(todo)[i] = todo[i + 1]
      /\ Head(todo) = todo[1]
  OBVIOUS
<1>2. ASSUME NEW t \in Tables, NEW i \in 1..Len(todo), todo[i] = t, t # Head(todo)
      PROVE  \E j \in 1..Len(Tail(todo)) : Tail(todo)[j] = t
  <2>1. i # 1 /\ i - 1 \in 1..Len(Tail(todo))
    BY <1>1, <1>2
  <2>2. Tail(todo)[i - 1] = t
    BY <1>1, <1>2, <2>1
  <2> QED
    BY <2>1, <2>2
<1> QED
  BY <1>1, <1>2

\* The fields of a transaction that a statement on table t leaves p with.
LEMMA ExecTx ==
    ASSUME MigrationsTypeOK, NEW p \in Procs, NEW t \in Tables,
           CreateTable(p, t) \/ DropTable(p, t)
    PROVE  /\ tx' \in [Procs -> Transaction]
           /\ \A q \in Others(p) : tx'[q] = tx[q]
           /\ tx'[p].row = tx[p].row
<1>1. tx \in [Procs -> Transaction] /\ tx[p] \in Transaction
  BY DEF MigrationsTypeOK
<1>2. CASE tx' = tx
  BY <1>1, <1>2
<1>3. CASE tx' = [tx EXCEPT ![p].creates = @ \cup {t}]
  BY <1>1, <1>3 DEF Transaction, Others
<1>4. CASE tx' = [tx EXCEPT ![p].shares = @ \cup {t}]
  BY <1>1, <1>4 DEF Transaction, Others
<1>5. CASE tx' = [tx EXCEPT ![p].drops = @ \cup {t}]
  BY <1>1, <1>5 DEF Transaction, Others
<1> QED
  BY <1>2, <1>3, <1>4, <1>5 DEF CreateTable, DropTable

LEMMA ExecStep ==
    ASSUME MigrationsInv, NEW p \in Procs, Exec(p)
    PROVE  MigrationsInv'
<1> DEFINE todo == proc[p].todo
           t0 == Head(todo)
<1>1. /\ MigrationsTypeOK /\ Shape(p) /\ proc \in [Procs -> Process] /\ proc[p] \in Process
      /\ tx \in [Procs -> Transaction] /\ tx[p] \in Transaction
      /\ todo \in Seq(Tables) /\ todo # <<>> /\ proc[p].op \in {"up", "down"}
      /\ proc[p].at \in InTx /\ At(p, "ddl")
  BY DEF MigrationsInv, MigrationsTypeOK, Shape, Exec, At, Process, InTx
<1>2. /\ t0 \in Tables /\ Tail(todo) \in Seq(Tables)
      /\ \A t \in Tables : (\E i \in 1..Len(todo) : todo[i] = t) =>
            t = t0 \/ \E i \in 1..Len(Tail(todo)) : Tail(todo)[i] = t
  BY <1>1, RestOfScript
<1>3. /\ proc' \in [Procs -> Process] /\ \A q \in Procs : q # p => proc'[q] = proc[q]
      /\ proc'[p].op = proc[p].op /\ proc'[p].todo = Tail(todo)
      /\ proc'[p].at = IF Tail(todo) = <<>> THEN "record" ELSE "ddl"
  <2>1. (IF Tail(todo) = <<>> THEN "record" ELSE "ddl") \in Running
    BY DEF Running, InTx
  <2> QED
    BY <1>1, <1>2, <2>1 DEF Exec, NextStatement, Process
<1>4. /\ UNCHANGED <<tables, recorded, runs, reverted, crossed>>
      /\ IF proc[p].op = "up" THEN CreateTable(p, t0) ELSE DropTable(p, t0)
  BY DEF Exec
<1>5. /\ tx' \in [Procs -> Transaction] /\ \A q \in Others(p) : tx'[q] = tx[q]
      /\ tx'[p].row = tx[p].row
  BY <1>1, <1>2, <1>4, ExecTx
<1>6. proc'[p].at \in InTx /\ proc'[p].at # "commit" /\ proc'[p].at # "ok"
  BY <1>3 DEF InTx
<1>7. MigrationsTypeOK'
  BY <1>3, <1>4, <1>5, <1>6 DEF MigrationsInv, MigrationsTypeOK, Others
<1>8. \A t \in Tables : ToCome(p, t) => t = t0 \/ ToCome(p, t)'
  BY <1>2, <1>3 DEF ToCome
<1>9. ~crossed => /\ tables = IF recorded THEN Tables ELSE {}
                  /\ Progress(p) /\ \A q \in Others(p) : Apart(p, q) /\ Apart(q, p)
  BY DEF MigrationsInv, SchemaMatchesRecord, AllProgress, Others
<1> HIDE DEF todo, t0
<1>10. CASE proc[p].op = "up"
  <2>1. CreateTable(p, t0) /\ tx[p].drops = {} /\ tx[p].row # "deletes"
    BY <1>1, <1>4, <1>10 DEF Shape
  <2>2. CASE t0 \notin tables /\ (\A o \in Others(p) : t0 \notin tx[o].creates)
             /\ tx' = [tx EXCEPT ![p].creates = @ \cup {t0}]
    <3>1. /\ tx'[p].creates = tx[p].creates \cup {t0} /\ tx'[p].shares = tx[p].shares
          /\ tx'[p].drops = tx[p].drops
      BY <1>1, <2>2 DEF Transaction
    <3>2. Shape(p)'
      BY <1>3, <1>5, <1>6, <1>10, <2>1, <3>1 DEF Shape, At
    <3>3. ~crossed => Progress(p)'
      <4> SUFFICES ASSUME ~crossed PROVE Progress(p)'
        OBVIOUS
      <4>1. tables = {}
        BY <1>2, <1>9, <2>2
      <4>2. \A t \in Tables : tx[p].shares = {} => t \in tx[p].creates \/ ToCome(p, t)
        BY <1>1, <1>9, <1>10 DEF Progress, UpProgress
      <4>3. tx'[p].shares = {} => \A t \in Tables : t \in tx'[p].creates \/ ToCome(p, t)'
        BY <1>8, <3>1, <4>2
      <4>4. tx'[p].creates # {}
        BY <3>1
      <4>5. UpProgress(p)'
        BY <1>6, <4>3, <4>4 DEF UpProgress, At
      <4>6. tx'[p].creates \cap tables' = {} /\ tx'[p].shares \subseteq tables'
        BY <1>4, <1>9, <3>1, <4>1 DEF Progress
      <4> QED
        BY <1>3, <1>10, <4>5, <4>6 DEF Progress
    <3>4. ~crossed => \A q \in Others(p) : Apart(p, q)' /\ Apart(q, p)'
      BY <1>5, <1>9, <2>2, <3>1 DEF Apart
    <3> QED
      BY <1>3, <1>4, <1>5, <1>6, <1>7, <3>2, <3>3, <3>4, Quiet DEF Others, At
  <2>3. CASE t0 \in tables /\ (\A o \in Others(p) : t0 \notin tx[o].drops)
             /\ tx' = [tx EXCEPT ![p].shares = @ \cup {t0}]
    <3>1. /\ tx'[p].shares = tx[p].shares \cup {t0} /\ tx'[p].creates = tx[p].creates
          /\ tx'[p].drops = tx[p].drops /\ tx'[p].shares # {}
      BY <1>1, <2>3 DEF Transaction
    <3>2. Shape(p)'
      BY <1>3, <1>5, <1>6, <1>10, <2>1, <3>1 DEF Shape, At
    <3>3. ~crossed => Progress(p)'
      <4>1. UpProgress(p)'
        BY <1>6, <3>1 DEF UpProgress, At
      <4> QED
        BY <1>3, <1>4, <1>9, <1>10, <2>3, <3>1, <4>1 DEF Progress
    <3>4. ~crossed => \A q \in Others(p) : Apart(p, q)' /\ Apart(q, p)'
      BY <1>5, <1>9, <2>3, <3>1 DEF Apart
    <3> QED
      BY <1>3, <1>4, <1>5, <1>6, <1>7, <3>2, <3>3, <3>4, Quiet DEF Others, At
  <2>4. CASE t0 \in tables \ Indexed /\ UNCHANGED tx
    <3>1. Shape(p)'
      BY <1>3, <1>5, <1>6, <1>10, <2>1, <2>4 DEF Shape, At
    <3>2. ~crossed => Progress(p)'
      <4> SUFFICES ASSUME ~crossed PROVE Progress(p)'
        OBVIOUS
      <4>1. tables = Tables
        BY <1>9, <2>4
      <4>2. tx[p].creates = {}
        BY <1>1, <1>9, <4>1 DEF Progress, Transaction
      <4>3. tx[p].shares # {}
        BY <1>1, <1>9, <1>10, <2>4, <4>2 DEF Progress, UpProgress, t0, todo
      <4>4. UpProgress(p)'
        BY <1>6, <2>4, <4>3 DEF UpProgress, At
      <4> QED
        BY <1>3, <1>4, <1>9, <1>10, <2>4, <4>4 DEF Progress
    <3>3. ~crossed => \A q \in Others(p) : Apart(p, q)' /\ Apart(q, p)'
      BY <1>9, <2>4 DEF Apart
    <3> QED
      BY <1>3, <1>4, <1>5, <1>6, <1>7, <3>1, <3>2, <3>3, Quiet DEF Others, At
  <2> QED
    BY <2>1, <2>2, <2>3, <2>4 DEF CreateTable
<1>11. CASE proc[p].op = "down"
  <2>1. /\ DropTable(p, t0) /\ tx[p].creates = {} /\ tx[p].shares = {}
        /\ tx[p].row # "inserts"
    BY <1>1, <1>4, <1>11 DEF Shape
  <2>2. ~crossed => recorded /\ \A t \in Tables : t \in tx[p].drops \/ ToCome(p, t)
    BY <1>1, <1>9, <1>11 DEF Progress, DownProgress
  <2>3. CASE (\A o \in Others(p) : t0 \notin tx[o].drops \cup tx[o].shares)
             /\ tx' = [tx EXCEPT ![p].drops = @ \cup {t0}]
    <3>1. /\ tx'[p].drops = tx[p].drops \cup {t0} /\ tx'[p].creates = tx[p].creates
          /\ tx'[p].shares = tx[p].shares
      BY <1>1, <2>3 DEF Transaction
    <3>2. Shape(p)'
      BY <1>3, <1>5, <1>6, <1>11, <2>1, <3>1 DEF Shape, At
    <3>3. ~crossed => Progress(p)'
      <4>1. ~crossed => DownProgress(p)'
        BY <1>4, <1>6, <1>8, <2>2, <3>1 DEF DownProgress, At
      <4> QED
        BY <1>3, <1>4, <1>11, <2>1, <3>1, <4>1 DEF Progress
    <3>4. ~crossed => \A q \in Others(p) : Apart(p, q)' /\ Apart(q, p)'
      BY <1>5, <1>9, <2>3, <3>1 DEF Apart
    <3> QED
      BY <1>3, <1>4, <1>5, <1>6, <1>7, <3>2, <3>3, <3>4, Quiet DEF Others, At
  <2>4. CASE t0 \notin tables /\ UNCHANGED tx
    <3>1. Shape(p)'
      BY <1>3, <1>5, <1>6, <1>11, <2>1, <2>4 DEF Shape, At
    <3>2. crossed
      BY <1>2, <1>9, <2>2, <2>4
    <3> QED
      BY <1>3, <1>4, <1>5, <1>6, <1>7, <3>1, <3>2, Quiet DEF Others, At
  <2> QED
    BY <2>1, <2>3, <2>4 DEF DropTable
<1> QED
  BY <1>1, <1>10, <1>11

\* The insertion or deletion of the record, before it is committed.
LEMMA RecordStep ==
    ASSUME MigrationsInv, NEW p \in Procs, RecordVersion(p) \/ DeleteVersion(p)
    PROVE  MigrationsInv'
<1>1. /\ MigrationsTypeOK /\ Shape(p) /\ proc \in [Procs -> Process] /\ proc[p] \in Process
      /\ tx \in [Procs -> Transaction] /\ tx[p] \in Transaction
      /\ proc[p].op \in {"up", "down"} /\ proc[p].at \in InTx
  BY DEF MigrationsInv, MigrationsTypeOK, RecordVersion, DeleteVersion, At, Process, InTx
<1>2. /\ At(p, "record") /\ proc' = [proc EXCEPT ![p].at = "commit"]
      /\ UNCHANGED <<tables, recorded, runs, reverted, crossed>>
  BY DEF RecordVersion, DeleteVersion, Goto
<1>3. /\ proc' \in [Procs -> Process] /\ \A q \in Procs : q # p => proc'[q] = proc[q]
      /\ proc'[p].op = proc[p].op /\ proc'[p].todo = proc[p].todo /\ proc'[p].at = "commit"
  BY <1>1, <1>2 DEF Process, Running, InTx
<1>4. PICK w \in {"none", "inserts", "deletes"} :
         /\ tx' = [tx EXCEPT ![p].row = w]
         /\ proc[p].op = "up" => w = "inserts" /\ ~recorded
         /\ proc[p].op = "down" => w # "inserts" /\ (recorded => w = "deletes")
  <2>1. CASE RecordVersion(p)
    BY <1>1, <2>1 DEF RecordVersion
  <2>2. CASE DeleteVersion(p) /\ recorded
    BY <1>1, <2>2 DEF DeleteVersion
  <2>3. CASE DeleteVersion(p) /\ ~recorded
    <3>1. tx' = tx /\ proc[p].op = "down" /\ tx[p].row # "inserts"
      BY <1>1, <2>3 DEF DeleteVersion, Shape
    <3>2. tx = [tx EXCEPT ![p].row = tx[p].row] /\ tx[p].row \in {"none", "inserts", "deletes"}
      BY <1>1 DEF Transaction
    <3> QED
      BY <2>3, <3>1, <3>2
  <2> QED
    BY <2>1, <2>2, <2>3
<1>5. /\ tx' \in [Procs -> Transaction] /\ \A q \in Others(p) : tx'[q] = tx[q]
      /\ tx'[p].row = w /\ tx'[p].creates = tx[p].creates /\ tx'[p].drops = tx[p].drops
      /\ tx'[p].shares = tx[p].shares
  BY <1>1, <1>4 DEF Transaction, Others
<1>6. MigrationsTypeOK'
  BY <1>2, <1>3, <1>5 DEF MigrationsInv, MigrationsTypeOK, Others, InTx
<1>7. Shape(p)'
  BY <1>1, <1>2, <1>3, <1>4, <1>5 DEF Shape, At
<1>8. ~crossed => Progress(p)'
  <2> SUFFICES ASSUME ~crossed PROVE Progress(p)'
    OBVIOUS
  <2>1. Progress(p) /\ \A t \in Tables : ToCome(p, t)' <=> ToCome(p, t)
    BY <1>3 DEF MigrationsInv, AllProgress, ToCome
  <2>2. CASE proc[p].op = "up"
    <3>1. UpProgress(p)'
      BY <1>1, <1>2, <1>3, <1>4, <1>5, <2>1, <2>2 DEF Progress, UpProgress, At
    <3> QED
      BY <1>2, <1>3, <1>5, <2>1, <2>2, <3>1 DEF Progress
  <2>3. CASE proc[p].op = "down"
    <3>1. DownProgress(p)'
      BY <1>1, <1>2, <1>3, <1>4, <1>5, <2>1, <2>3 DEF Progress, DownProgress, At
    <3> QED
      BY <1>2, <1>3, <1>5, <2>1, <2>3, <3>1 DEF Progress
  <2> QED
    BY <1>1, <2>2, <2>3
<1>9. ~crossed => \A q \in Others(p) : Apart(p, q)' /\ Apart(q, p)'
  BY <1>5 DEF MigrationsInv, AllProgress, Apart, Others
<1> QED
  BY <1>2, <1>3, <1>5, <1>6, <1>7, <1>8, <1>9, Quiet DEF Others, At

LEMMA FailStep ==
    ASSUME MigrationsInv, NEW p \in Procs, Fail(p)
    PROVE  MigrationsInv'
<1>1. /\ proc \in [Procs -> Process] /\ proc[p] \in Process
      /\ tx \in [Procs -> Transaction] /\ <<>> \in Seq(Tables)
  BY DEF MigrationsInv, MigrationsTypeOK
<1>2. /\ proc' \in [Procs -> Process] /\ \A q \in Procs : q # p => proc'[q] = proc[q]
      /\ proc'[p].at = "failed" /\ UNCHANGED <<tables, recorded, runs, reverted, crossed>>
  BY <1>1 DEF Fail, Process
<1>3. NoTx \in Transaction /\ NoTx.creates = {} /\ NoTx.drops = {} /\ NoTx.shares = {}
      /\ NoTx.row = "none"
  BY DEF NoTx, Transaction
<1>4. tx' \in [Procs -> Transaction] /\ tx'[p] = NoTx /\ \A q \in Others(p) : tx'[q] = tx[q]
  BY <1>1, <1>3 DEF Fail, Others
<1>5. MigrationsTypeOK'
  BY <1>2, <1>4 DEF MigrationsInv, MigrationsTypeOK, Others
<1>6. Shape(p)' /\ Progress(p)' /\ \A q \in Others(p) : Apart(p, q)' /\ Apart(q, p)'
  BY <1>2, <1>3, <1>4 DEF Shape, Progress, Apart, At, InTx
<1> QED
  BY <1>2, <1>4, <1>5, <1>6, Quiet DEF Others, At

\* Nothing is to come of the empty script.
LEMMA EmptyScript ==
    ASSUME NEW p \in Procs, proc[p].todo = <<>>, NEW t
    PROVE  ~ToCome(p, t)
<1>1. Len(proc[p].todo) = 0
  <2>1. Len(<<>>) = 0
    OBVIOUS
  <2> QED
    BY <2>1, Zenon
<1>2. \A i \in 1..0 : FALSE
  OBVIOUS
<1> QED
  BY <1>1, <1>2, Zenon DEF ToCome

\* The commit of an Up: it has created all tables.
LEMMA UpCommits ==
    ASSUME MigrationsInv, ~crossed, NEW p \in Procs, At(p, "commit"), proc[p].op = "up"
    PROVE  ~recorded /\ tables = {} /\ tx[p].creates = Tables /\ tx[p].drops = {}
<1>1. /\ UpProgress(p) /\ Shape(p) /\ proc[p].todo = <<>> /\ tx[p].shares \subseteq tables
      /\ tx[p].creates \subseteq Tables
  BY DEF MigrationsInv, AllProgress, Progress, Shape, At, InTx, MigrationsTypeOK, Transaction
<1>2. ~recorded /\ tables = {}
  BY <1>1 DEF UpProgress, MigrationsInv, SchemaMatchesRecord
<1>3. \A t \in Tables : ~ToCome(p, t)
  BY <1>1, EmptyScript
<1> QED
  BY <1>1, <1>2, <1>3 DEF UpProgress, Shape

\* The commit of a Down that no other Down has overtaken: it has dropped all tables.
LEMMA DownCommits ==
    ASSUME MigrationsInv, ~crossed, NEW p \in Procs, At(p, "commit"), proc[p].op = "down"
    PROVE  /\ tx[p].drops = Tables /\ tx[p].creates = {} /\ tx[p].row = "deletes"
           /\ tables = Tables
<1>1. /\ DownProgress(p) /\ Shape(p) /\ proc[p].todo = <<>> /\ tx[p].drops \subseteq Tables
  BY DEF MigrationsInv, AllProgress, Progress, Shape, At, InTx, MigrationsTypeOK, Transaction
<1>2. \A t \in Tables : ~ToCome(p, t)
  BY <1>1, EmptyScript
<1> QED
  BY <1>1, <1>2 DEF DownProgress, Shape, MigrationsInv, SchemaMatchesRecord

LEMMA CommitStep ==
    ASSUME MigrationsInv, NEW p \in Procs, Commit(p)
    PROVE  MigrationsInv'
<1>1. PICK l \in {"ok", "failed"} : Goto(p, l)
  BY DEF Commit
<1>2. /\ proc \in [Procs -> Process] /\ proc[p] \in Process /\ tx \in [Procs -> Transaction]
      /\ tx[p] \in Transaction /\ proc[p].op \in {"up", "down"} /\ At(p, "commit") /\ Shape(p)
  BY DEF MigrationsInv, MigrationsTypeOK, Process, Commit
<1>3. /\ proc' \in [Procs -> Process] /\ \A q \in Procs : q # p => proc'[q] = proc[q]
      /\ proc'[p].at = l /\ proc'[p].op = proc[p].op
  BY <1>1, <1>2 DEF Goto, Process
<1>4. /\ NoTx \in Transaction /\ NoTx.creates = {} /\ NoTx.drops = {} /\ NoTx.shares = {}
      /\ NoTx.row = "none"
  BY DEF NoTx, Transaction
<1>5. tx' \in [Procs -> Transaction] /\ tx'[p] = NoTx /\ \A q \in Others(p) : tx'[q] = tx[q]
  BY <1>2, <1>4 DEF Commit, Others
<1>6. /\ tables' = (tables \cup tx[p].creates) \ tx[p].drops
      /\ recorded' = (tx[p].row = "inserts" \/ (recorded /\ tx[p].row # "deletes"))
      /\ reverted' = (reverted \/ proc[p].op = "down")
      /\ crossed' = (crossed \/ /\ proc[p].op = "down"
                                /\ \E o \in Others(p) : proc[o].op = "down" /\ proc[o].at \in InTx)
      /\ UNCHANGED runs
  BY DEF Commit
<1>7. MigrationsTypeOK'
  <2>1. recorded' \in BOOLEAN /\ reverted' \in BOOLEAN /\ crossed' \in BOOLEAN
    BY <1>6, Zenon
  <2>2. tables' \subseteq Tables
    BY <1>2, <1>6 DEF MigrationsInv, MigrationsTypeOK, Transaction
  <2> QED
    BY <1>3, <1>5, <1>6, <2>1, <2>2 DEF MigrationsInv, MigrationsTypeOK, Others
<1>8. \A q \in Procs : Shape(q)'
  <2>1. Shape(p)'
    BY <1>3, <1>4, <1>5 DEF Shape, At
  <2>2. \A q \in Others(p) : Shape(q)'
    BY <1>3, <1>5 DEF MigrationsInv, Shape, At, Others
  <2> QED
    BY <2>1, <2>2 DEF Others
<1>9. (crossed' => reverted') /\ (crossed => crossed')
  BY <1>6 DEF MigrationsInv
<1>10. UpSawRecord'
  <2>1. CASE proc[p].op = "up"
    BY <1>2, <1>6, <2>1 DEF Shape, UpSawRecord
  <2>2. CASE proc[p].op = "down"
    BY <1>6, <2>2 DEF UpSawRecord
  <2> QED
    BY <1>2, <2>1, <2>2
<1>11. ASSUME ~crossed' PROVE SchemaMatchesRecord' /\ AllProgress'
  <2>1. ~crossed /\ AllProgress /\ \A q \in Others(p) : Progress(q) /\ Apart(q, p) /\ q \in Procs
    BY <1>9, <1>11 DEF MigrationsInv, AllProgress, Others
  <2>2. \A q \in Others(p) : /\ tx[q].creates \subseteq Tables
                             /\ \A t \in Tables : ToCome(q, t)' <=> ToCome(q, t)
    BY <1>2, <1>3 DEF Transaction, ToCome, Others
  <2>3. Progress(p)' /\ \A q \in Others(p) : Apart(p, q)' /\ Apart(q, p)'
    BY <1>3, <1>4, <1>5 DEF Progress, Apart, InTx
  <2>4. \A q \in Procs : \A r \in Others(q) : Apart(q, r)'
    <3> SUFFICES ASSUME NEW q \in Procs, NEW r \in Others(q) PROVE Apart(q, r)'
      OBVIOUS
    <3>1. CASE q = p \/ r = p
      BY <2>3, <3>1 DEF Others
    <3>2. CASE q # p /\ r # p
      BY <1>5, <2>1, <3>2 DEF AllProgress, Others, Apart
    <3> QED
      BY <3>1, <3>2
  <2>5. CASE proc[p].op = "up"
    <3>1. ~recorded /\ tables = {} /\ tx[p].creates = Tables /\ tx[p].drops = {}
      BY <1>2, <2>1, <2>5, UpCommits
    <3>2. tables' = Tables /\ recorded'
      BY <1>2, <1>6, <2>5, <3>1 DEF Shape
    <3>3. ASSUME NEW q \in Others(p) PROVE Progress(q)'
      <4>1. /\ tx[q].creates = {} /\ tx[q].shares = {} /\ tx'[q] = tx[q] /\ proc'[q] = proc[q]
            /\ q \in Procs
        BY <1>3, <1>5, <2>1, <2>2, <3>1, <3>3 DEF Progress, Apart, Others
      <4>2. proc[q].at \in InTx => proc[q].op # "down"
        BY <2>1, <3>1, <3>3 DEF Progress, DownProgress
      <4>3. ASSUME proc[q].at \in InTx, proc[q].op = "up" PROVE UpProgress(q)'
        <5>1. UpProgress(q)
          BY <2>1, <3>3, <4>3 DEF Progress
        <5>2. ~At(q, "commit")
          BY <2>1, <4>1, <4>3, UpCommits DEF Tables
        <5> QED
          BY <2>2, <3>3, <4>1, <5>1, <5>2 DEF UpProgress, At
      <4> QED
        BY <3>2, <4>1, <4>2, <4>3 DEF Progress
    <3>4. SchemaMatchesRecord'
      BY <3>2 DEF SchemaMatchesRecord
    <3> QED
      BY <2>3, <2>4, <3>3, <3>4 DEF AllProgress, Others
  <2>6. CASE proc[p].op = "down"
    <3>1. /\ tx[p].drops = Tables /\ tx[p].creates = {} /\ tx[p].row = "deletes"
          /\ tables = Tables
      BY <1>2, <2>1, <2>6, DownCommits
    <3>2. tables' = {} /\ ~recorded'
      BY <1>6, <3>1
    <3>3. ASSUME NEW q \in Others(p) PROVE Progress(q)'
      <4>1. tx[q].shares = {} /\ tx'[q] = tx[q] /\ proc'[q] = proc[q] /\ q \in Procs
        BY <1>3, <1>5, <2>1, <3>1, <3>3 DEF Progress, Apart, Others
      <4>2. proc[q].at \in InTx => proc[q].op # "down"
        BY <1>6, <1>11, <2>6, <3>3
      <4>3. ASSUME proc[q].at \in InTx, proc[q].op = "up" PROVE UpProgress(q)'
        <5>1. UpProgress(q)
          BY <2>1, <3>3, <4>3 DEF Progress
        <5> QED
          BY <2>2, <3>2, <3>3, <4>1, <5>1 DEF UpProgress, At
      <4> QED
        BY <3>2, <4>1, <4>2, <4>3 DEF Progress
    <3>4. SchemaMatchesRecord'
      BY <3>2 DEF SchemaMatchesRecord
    <3> QED
      BY <2>3, <2>4, <3>3, <3>4 DEF AllProgress, Others
  <2> QED
    BY <1>2, <2>5, <2>6
<1>12. SchemaMatchesRecord'
  BY <1>11 DEF SchemaMatchesRecord
<1> QED
  BY <1>7, <1>8, <1>9, <1>10, <1>11, <1>12 DEF MigrationsInv

LEMMA MigrationsStep == MigrationsInv /\ [MigrationsNext]_migrationVars => MigrationsInv'
<1> SUFFICES ASSUME MigrationsInv, [MigrationsNext]_migrationVars PROVE MigrationsInv'
  OBVIOUS
<1>1. CASE UNCHANGED migrationVars
  BY <1>1 DEF migrationVars, MigrationsInv, MigrationsTypeOK, Shape, UpSawRecord, AllProgress,
              Progress, UpProgress, DownProgress, Apart, ToCome, SchemaMatchesRecord, At
<1>2. ASSUME NEW p \in Procs, NEW op \in {"up", "down"}, Start(p, op)
      PROVE  MigrationsInv'
  <2>1. <<>> \in Seq(Tables)
    OBVIOUS
  <2>2. /\ proc' \in [Procs -> Process] /\ \A q \in Procs : q # p => proc'[q] = proc[q]
        /\ proc'[p].op = op /\ proc'[p].at = "ensure" /\ proc'[p].todo = <<>>
    BY <1>2, <2>1 DEF Start, Ready, Process, Running, MigrationsInv, MigrationsTypeOK
  <2>3. runs' \in [Procs -> 0..MaxRuns]
    BY <1>2, MigrationsAssumption DEF Start, MigrationsInv, MigrationsTypeOK
  <2>4. proc[p].at \notin InTx
    BY <1>2 DEF Start, InTx
  <2> QED
    BY <1>2, <2>1, <2>2, <2>3, <2>4, LocalStep DEF Start
<1>3. ASSUME NEW p \in Procs, Ensure(p) \/ CheckUp(p) \/ FindLatest(p)
      PROVE  MigrationsInv'
  <2>1. /\ proc[p] \in Process /\ proc[p].op \in {"up", "down"} /\ proc[p].todo \in Seq(Tables)
        /\ proc[p].at \notin InTx
        /\ UNCHANGED <<tables, recorded, tx, runs, reverted, crossed>>
        /\ runs' \in [Procs -> 0..MaxRuns]
    BY <1>3 DEF Ensure, CheckUp, FindLatest, MigrationsInv, MigrationsTypeOK, Process, At, InTx
  <2>2. ASSUME NEW l \in {"check", "ok"}, Goto(p, l), l = "ok" /\ proc[p].op = "up" => recorded
        PROVE  MigrationsInv'
    <3>1. /\ proc' \in [Procs -> Process] /\ \A q \in Procs : q # p => proc'[q] = proc[q]
          /\ proc'[p].op = proc[p].op /\ proc'[p].at = l /\ proc'[p].todo = proc[p].todo
      BY <2>1, <2>2 DEF Goto, Process, Running, MigrationsInv, MigrationsTypeOK
    <3> QED
      BY <2>1, <2>2, <3>1, LocalStep
  <2>3. ASSUME NEW script \in {initUp, initDown}, BeginTx(p, script),
               IF proc[p].op = "up" THEN script = initUp ELSE recorded
        PROVE  MigrationsInv'
    <3>1. /\ script \in Seq(Tables) /\ script # <<>>
          /\ \A t \in Tables : \E i \in 1..Len(script) : script[i] = t
          /\ proc[p].op = "up" => Head(script) \in Indexed
          /\ proc[p].op = "down" => recorded
      BY <2>3, Scripts
    <3>2. /\ proc' \in [Procs -> Process] /\ \A q \in Procs : q # p => proc'[q] = proc[q]
          /\ proc'[p].op = proc[p].op /\ proc'[p].at = "ddl" /\ proc'[p].todo = script
      BY <2>1, <2>3, <3>1 DEF BeginTx, Process, Running, InTx, MigrationsInv, MigrationsTypeOK
    <3>3. \A t \in Tables : ToCome(p, t)'
      BY <3>1, <3>2 DEF ToCome
    <3> QED
      BY <2>1, <3>1, <3>2, <3>3, LocalStep
  <2>4. CASE Ensure(p)
    BY <2>2, <2>4 DEF Ensure
  <2>5. CASE CheckUp(p)
    BY <2>2, <2>3, <2>5 DEF CheckUp
  <2>6. CASE FindLatest(p)
    <3>1. proc[p].op = "down"
      BY <2>6 DEF FindLatest
    <3> QED
      BY <2>2, <2>3, <2>6, <3>1 DEF FindLatest
  <2> QED
    BY <1>3, <2>4, <2>5, <2>6
<1>4. ASSUME NEW p \in Procs, Step(p)
      PROVE  MigrationsInv'
  BY <1>3, <1>4, ExecStep, RecordStep, CommitStep, FailStep DEF Step, Up, Down
<1> QED
  BY <1>1, <1>2, <1>4 DEF MigrationsNext

-----------------------------------------------------------------------------

\* The invariant holds throughout (migrations.go:12-104).
LEMMA MigrationsInvariant == MigrationsSpec => []MigrationsInv
<1>1. MigrationsInit => MigrationsInv
  BY MigrationsInitInv
<1>2. MigrationsInv /\ [MigrationsNext]_migrationVars => MigrationsInv'
  BY MigrationsStep
<1> QED
  BY <1>1, <1>2, PTL DEF MigrationsSpec

\* Everything is of its type, and no lock outlives its transaction: on every
\* error path Up and Down roll back (migrations.go:38, 43, 92, 97).
THEOREM MigrationsTypeCorrect == MigrationsSpec => []MigrationsTypeOK
<1>1. MigrationsInv => MigrationsTypeOK
  BY DEF MigrationsInv
<1> QED
  BY <1>1, MigrationsInvariant, PTL

\* Schema and record agree, however many processes run Up and Down together and
\* wherever they fail (migrations.go:33-48, 87-102), as long as no Down is committed
\* while another Down is past its check.
THEOREM SchemaFollowsRecord == MigrationsSpec => []SchemaMatchesRecord
<1>1. MigrationsInv => SchemaMatchesRecord
  BY DEF MigrationsInv
<1> QED
  BY <1>1, MigrationsInvariant, PTL

\* A replica that serves has its tables until a Down is committed
\* (cmd/pricing-quote/main.go:44-48).
THEOREM ServingHasSchema == MigrationsSpec => []ServesOnSchema
<1>1. MigrationsInv => ServesOnSchema
  BY DEF MigrationsInv, UpSawRecord, SchemaMatchesRecord, ServesOnSchema, MigrationsTypeOK
<1> QED
  BY <1>1, MigrationsInvariant, PTL
=============================================================================
