----------------------------- MODULE RecordStore -----------------------------
(***************************************************************************)
(* What the db promises of its records: an update that was asked for takes *)
(* effect at one instant, on top of everything written before it, or not   *)
(* at all.  An update that misread the record keeps its own fields only.   *)
(***************************************************************************)
CONSTANTS
  Ids,      \* keys of the records
  Calls,    \* updates that may be under way at a time
  Patches,  \* sets of fields an update may set
  Nothing   \* not a pair of an id and fields

VARIABLES
  record,   \* the fields that are set, of each id
  pending,  \* the update each call still has to make
  blind     \* calls that took the record for missing

vars == <<record, pending, blind>>

Init == /\ record = [i \in Ids |-> {}]
        /\ pending = [c \in Calls |-> Nothing]
        /\ blind = {}

Ask(c, i, patch) == /\ pending[c] = Nothing
                    /\ pending' = [pending EXCEPT ![c] = <<i, patch>>]
                    /\ UNCHANGED <<record, blind>>

Misread(c) == /\ pending[c] # Nothing
              /\ blind' = blind \cup {c}
              /\ UNCHANGED <<record, pending>>

Write(c) ==
  /\ pending[c] # Nothing
  /\ record' = [record EXCEPT ![pending[c][1]] =
                  IF c \in blind THEN pending[c][2] ELSE @ \cup pending[c][2]]
  /\ pending' = [pending EXCEPT ![c] = Nothing]
  /\ blind' = blind \ {c}

\* A write failed, or the process did.
Drop(calls) == /\ pending' = [c \in Calls |-> IF c \in calls THEN Nothing ELSE pending[c]]
               /\ blind' = blind \ calls
               /\ UNCHANGED record

Next == \/ \E c \in Calls : \/ Misread(c) \/ Write(c)
                              \/ \E i \in Ids, patch \in Patches : Ask(c, i, patch)
        \/ \E calls \in SUBSET Calls : Drop(calls)

Spec == Init /\ [][Next]_vars
=============================================================================
