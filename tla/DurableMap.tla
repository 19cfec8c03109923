----------------------------- MODULE DurableMap -----------------------------
(***************************************************************************)
(* What the engine promises, with none of its machinery: a map from keys   *)
(* to values, and the set of maps a crash may leave behind.                *)
(*                                                                         *)
(*   - a plain write shows at once and may or may not survive a crash;     *)
(*   - a transaction survives a crash as a whole or not at all, and once   *)
(*     its commit is acknowledged it is what every crash leaves;           *)
(*   - flush and compaction never change what is read, and what a crash    *)
(*     may leave of a key afterwards is something it could leave before.   *)
(*                                                                         *)
(* The last clause is per key: a crash in the middle of a flush may keep   *)
(* the new value of one key and lose the newer value of another, even when *)
(* the two were written in the opposite order (see the README).            *)
(***************************************************************************)
EXTENDS Tables

VARIABLES
    kv,          \* what get and scan return
    survivors,   \* the maps a crash at this instant may leave
    prep         \* the batch of the commit under way, EmptyTable for none

dvars == <<kv, survivors, prep>>

\* The map m after the entries of the batch b.
After(m, b) == [k \in Keys |-> IF b[k] = Absent THEN m[k] ELSE Visible(b[k])]

DInit ==
    /\ kv = [k \in Keys |-> Absent]
    /\ survivors = {kv}
    /\ prep = EmptyTable

\* The values that the maps of the set S give to key k.
ValuesOf(S, k) == {s[k] : s \in S}

\* Flush, compaction, garbage collection, fsync.
Maintain ==
    /\ kv' = kv
    /\ prep' = prep
    /\ \E before \in {survivors}, after \in {survivors'}:
       /\ kv \in after
       /\ \A k \in Keys : ValuesOf(after, k) \subseteq ValuesOf(before, k)

\* A plain put or delete.
Write(k, e) ==
    /\ prep' = prep
    /\ kv' = [kv EXCEPT ![k] = Visible(e)]
    /\ kv' \in survivors'
    /\ survivors' \subseteq survivors \cup {kv'}

\* The commit of a batch starts: from here on a crash may leave all of it.
Prepare ==
    /\ prep = EmptyTable
    /\ prep' \in Table
    /\ kv' = kv
    /\ survivors' = survivors \cup {After(kv, prep')}

\* The commit returns: every crash from here on leaves the transaction.
Commit ==
    /\ prep' = EmptyTable
    /\ kv' = After(kv, prep)
    /\ survivors' = {kv'}

\* A crash, or the loss of what an earlier crash left in volatile storage.
Crash ==
    /\ prep' = EmptyTable
    /\ kv' \in survivors
    /\ kv' \in survivors'
    /\ survivors' \subseteq survivors

DNext ==
    \/ Maintain
    \/ \E k \in Keys, e \in Entry : Write(k, e)
    \/ Prepare
    \/ Commit
    \/ Crash

DSpec == DInit /\ [][DNext]_dvars
=============================================================================
