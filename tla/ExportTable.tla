----------------------------- MODULE ExportTable -----------------------------
(* The table that the export page makes of telemetry records, for its      *)
(* preview and for the CSV file: a row for each time and node, in the      *)
(* order of their first records, and a column for each metric.             *)
EXTENDS Naturals, Sequences, SequencesExt, FiniteSetsExt

CONSTANTS
  Times, Nodes, Metrics, Values,   \* what records are made of
  MaxRecords,                      \* bound: records of an answer
  Blank                            \* an empty cell

TableAssumption == MaxRecords \in Nat /\ Blank \notin Values

VARIABLE records       \* the answer of the Export Service

Record == [time : Times, node : Nodes, metric : Metrics, value : Values]
TypeOK == records \in Seq(Record) /\ Len(records) <= MaxRecords

-----------------------------------------------------------------------------
Key(r) == <<r.time, r.node>>

\* The keys of the rows.
GroupKeys(rs) ==
  FoldLeft(LAMBDA keys, r :
             IF Key(r) \in ToSet(keys) THEN keys ELSE Append(keys, Key(r)),
           <<>>, rs)

\* Mutant: the first value of a row and column, as for duplicates.
FirstCell(rs, key, m) ==
  LET at == {i \in DOMAIN rs : Key(rs[i]) = key /\ rs[i].metric = m}
  IN IF at = {} THEN Blank ELSE rs[Min(at)].value

\* A cell holds the last value that its row and its column have.
Cell(rs, key, m) ==
  LET at == {i \in DOMAIN rs : Key(rs[i]) = key /\ rs[i].metric = m}
  IN IF at = {} THEN Blank ELSE rs[Max(at)].value

PivotTelemetryRows(rs) ==
  LET keys == GroupKeys(rs)
  IN [i \in DOMAIN keys |->
        [key |-> keys[i],
         cells |-> [m \in {r.metric : r \in ToSet(rs)} |-> Cell(rs, keys[i], m)]]]

-----------------------------------------------------------------------------
Init == records = <<>>

\* An answer with one record more than the one before.
Receive ==
  /\ Len(records) < MaxRecords
  /\ \E r \in Record : records' = Append(records, r)

Next == Receive \/ (records # <<>> /\ records' = <<>>)

Spec == Init /\ [][Next]_records

-----------------------------------------------------------------------------
(* Properties. *)

\* No record is lost but one that a later record of its row and column
\* replaces, no cell is made up, and no row is there twice (Export.jsx,
\* pivotTelemetryRows, jsonToCsv).
TableIsTheRecords ==
  LET table == PivotTelemetryRows(records) IN
  /\ \A i \in DOMAIN records :
       \/ \E row \in ToSet(table) :
            /\ row.key = Key(records[i])
            /\ row.cells[records[i].metric] = records[i].value
       \/ \E j \in i + 1..Len(records) :
            /\ Key(records[j]) = Key(records[i])
            /\ records[j].metric = records[i].metric
  /\ \A row \in ToSet(table) : \A m \in DOMAIN row.cells :
       row.cells[m] # Blank =>
         \E r \in ToSet(records) :
           Key(r) = row.key /\ r.metric = m /\ r.value = row.cells[m]
  /\ \A i, j \in DOMAIN table : table[i].key = table[j].key => i = j
=============================================================================
