----------------------------- MODULE LatestWins -----------------------------
(***************************************************************************)
(* What a latest-wins scheduler promises its caller, with no queue, no      *)
(* capacity, no worker and no cancellation token in sight.                  *)
(*                                                                         *)
(* For every key there is at most one demand that still counts.  A new      *)
(* demand supersedes the key's old one, a bounded scheduler may give up the *)
(* demand of ONE other key to make room, demands can be withdrawn, and what *)
(* is published for a key is exactly the demand that counts, once.          *)
(***************************************************************************)
EXTENDS Naturals

CONSTANTS Key, Revision

VARIABLES
  demand,      \* demand[k]: the revision that still counts for k, or 0
  published    \* published[k]: the revision last published for k, or 0

Init == /\ demand = [k \in Key |-> 0]
        /\ published = [k \in Key |-> 0]

(* A demand newer than everything the key has demanded or published. *)
Demand(k, r, lost) ==
  /\ r > published[k] /\ r > demand[k]
  /\ demand' = [j \in Key |-> IF j = k THEN r
                              ELSE IF j = lost THEN 0 ELSE demand[j]]
  /\ UNCHANGED published

Withdraw(S) ==
  /\ demand' = [j \in Key |-> IF j \in S THEN 0 ELSE demand[j]]
  /\ UNCHANGED published

Publish(k) ==
  /\ demand[k] # 0
  /\ published' = [published EXCEPT ![k] = demand[k]]
  /\ demand' = [demand EXCEPT ![k] = 0]

Next == \/ \E S \in SUBSET Key : Withdraw(S)
        \/ \E k, lost \in Key : \E r \in Revision : Demand(k, r, lost)
        \/ \E k \in Key : Publish(k)

Spec == Init /\ [][Next]_<<demand, published>>
=============================================================================
