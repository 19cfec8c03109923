---------------------------- MODULE OrderedScan ----------------------------
(***************************************************************************)
(* What every iterator of the engine promises, with none of its machinery: *)
(* the records of one table, each once, in key order, and the end only     *)
(* after the last.  A read error ends the scan early.                      *)
(***************************************************************************)
EXTENDS Tables

VARIABLES
    whole,    \* the table that is scanned
    out,      \* the records yielded so far
    status    \* "open", "end" or "failed"

svars == <<whole, out, status>>

\* The keys that have not been yielded.
Left == {k \in KeysOf(whole) : \A i \in DOMAIN out : out[i].key # k}

SInit ==
    /\ whole \in Table
    /\ out = <<>>
    /\ status = "open"

Yield ==
    /\ status = "open"
    /\ \E k \in Left :
        /\ \A j \in Left : k <= j
        /\ out' = Append(out, [key |-> k, val |-> whole[k]])
    /\ UNCHANGED <<whole, status>>

End ==
    /\ status = "open"
    /\ Left = {}
    /\ status' = "end"
    /\ UNCHANGED <<whole, out>>

Fail ==
    /\ status = "open"
    /\ status' = "failed"
    /\ UNCHANGED <<whole, out>>

SSpec == SInit /\ [][Yield \/ End \/ Fail]_svars
=============================================================================
