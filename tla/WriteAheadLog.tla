--------------------------- MODULE WriteAheadLog ---------------------------
(***************************************************************************)
(* The write-ahead log as a sequence of records, and its replay.  A record *)
(* is what one write_record call produced.  Torn stands for any bytes that *)
(* do not parse as a whole record with the right checksum: the tail a      *)
(* crash cut off, or what a failed write left behind.                      *)
(***************************************************************************)
EXTENDS Tables

PutRec(k, e) == [op |-> "put", tx |-> 0, key |-> k, val |-> e]
TxRec(t, k, e) == [op |-> "txput", tx |-> t, key |-> k, val |-> e]
BeginRec(t) == [op |-> "begin", tx |-> t]
CommitRec(t) == [op |-> "commit", tx |-> t]
Torn == [op |-> "torn"]

Record ==
    [op : {"put", "txput"}, tx : Nat, key : Keys, val : Entry]
        \cup [op : {"begin", "commit"}, tx : Nat]
        \cup {Torn}

\* The records one commit writes for the pending batch b of transaction t:
\* Begin, the entries in key order (the pending map is a BTreeMap), Commit.
TxRecords(t, b) ==
    LET key(i) == CHOOSE k \in KeysOf(b) : Rank(b, k) = i
    IN  <<BeginRec(t)>>
            \o [i \in 1 .. Size(b) |-> TxRec(t, key(i), b[key(i)])]
            \o <<CommitRec(t)>>

-----------------------------------------------------------------------------
(* Replay reads up to the first record that is torn or fails its checksum  *)
(* and applies, in log order, the plain records and those of transactions  *)
(* whose Commit record it read.  Later entries of a key overwrite earlier  *)
(* ones, so the replayed memtable holds, for each key, its last entry.     *)

\* How many records replay reads.
Readable(log) ==
    LET torn == {i \in DOMAIN log : log[i].op = "torn"}
    IN  IF torn = {} THEN Len(log) ELSE Min(torn) - 1

CommittedMutant(log) ==
    {log[i].tx : i \in {j \in 1 .. Readable(log) : log[j].op \in {"begin", "commit"}}}

\* The transactions whose Commit record replay reads.
Committed(log) ==
    {log[i].tx : i \in {j \in 1 .. Readable(log) : log[j].op = "commit"}}

\* Replay applies record r, given the committed transactions.
Applies(r, committed) ==
    \/ r.op = "put"
    \/ r.op = "txput" /\ r.tx \in committed

\* The memtable that replaying the log yields.
Replay(log) ==
    LET committed == Committed(log)
        applied == {i \in 1 .. Readable(log) : Applies(log[i], committed)}
    IN  [k \in Keys |->
            LET ofKey == {i \in applied : log[i].key = k}
            IN  IF ofKey = {} THEN Absent ELSE log[Max(ofKey)].val]

MaxTxIdMutant(log) == Max({0} \cup Committed(log))

\* ReplayResult.max_tx_id: over every record that names a transaction,
\* committed or not.
MaxTxId(log) ==
    Max({0} \cup {log[i].tx : i \in {j \in 1 .. Readable(log) :
                                        log[j].op \in {"begin", "txput", "commit"}}})
=============================================================================
