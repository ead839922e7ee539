---------------------------- MODULE EventDelivery ----------------------------
(***************************************************************************)
(* What reading the events of a chain promises: for every kind of event a  *)
(* watermark only moves over blocks whose events were all given to their   *)
(* handler.  How the blocks are read, in which order and how often, is     *)
(* left to the implementation, EventSync.                                  *)
(***************************************************************************)
EXTENDS Integers

CONSTANTS
  Keys,      \* kinds of events
  Deployed   \* the block the bridge was deployed at

VARIABLES
  head,      \* the last final block
  synced,    \* the watermark of each kind, 0 before the first
  started    \* blocks whose events were given to the handler

vars == <<head, synced, started>>

Init == /\ head \in Nat /\ head >= Deployed
        /\ synced = [k \in Keys |-> 0]
        /\ started = [k \in Keys |-> {}]

Finalize == /\ head' = head + 1
            /\ UNCHANGED <<synced, started>>

\* Some blocks are read, maybe not for the first time.
Deliver(k, blocks) ==
  /\ started' = [started EXCEPT ![k] = @ \cup blocks]
  /\ UNCHANGED <<head, synced>>

\* The watermark moves, backward too, to a block that was reached without a gap.
MoveTo(k, w) == /\ Deployed .. w \subseteq started[k]
                /\ synced' = [synced EXCEPT ![k] = w]
                /\ UNCHANGED <<head, started>>

Next == \/ Finalize
        \/ \E k \in Keys : \/ \E blocks \in SUBSET (Deployed .. head) : Deliver(k, blocks)
                           \/ \E w \in Deployed .. head : MoveTo(k, w)

Spec == Init /\ [][Next]_vars
=============================================================================
