----------------------------- MODULE DocumentOrder -----------------------------
(***************************************************************************)
(* What a document is to its users: items in an order in which some may    *)
(* share a place.  A new item comes behind all others; the items may be    *)
(* given any other order; one may be taken out, which puts the others one  *)
(* behind the other in an order that respects the one they had.            *)
(***************************************************************************)
CONSTANTS Docs, Items

VARIABLES
  content, \* the items of each document
  before   \* ... and which of them come before which

Init ==
  /\ content = [d \in Docs |-> {}]
  /\ before = [d \in Docs |-> {}]

(* R puts the members of S in an order, where two may share a place. *)
Orders(R, S) ==
  /\ R \subseteq S \X S
  /\ \A i \in S : <<i, i>> \notin R
  /\ \A i, j, k \in S : <<i, k>> \in R => <<i, j>> \in R \/ <<j, k>> \in R
  /\ \A i, j, k \in S : <<i, j>> \in R /\ <<j, k>> \in R => <<i, k>> \in R

(* ... where no two do. *)
Separates(R, S) == \A i, j \in S : i # j => <<i, j>> \in R \/ <<j, i>> \in R

Add(d, i) ==
  /\ \A e \in Docs : i \notin content[e]
  /\ content' = [content EXCEPT ![d] = @ \cup {i}]
  /\ before' = [before EXCEPT ![d] = @ \cup (content[d] \X {i})]

Rearrange(d) ==
  /\ Orders(before'[d], content[d])
  /\ before' = [before EXCEPT ![d] = before'[d]]
  /\ UNCHANGED content

Remove(d, i) ==
  /\ i \in content[d]
  /\ content' = [content EXCEPT ![d] = @ \ {i}]
  /\ before' = [before EXCEPT ![d] = before'[d]]
  /\ Orders(before'[d], content'[d])
  /\ Separates(before'[d], content'[d])
  /\ \A j, k \in content'[d] : <<j, k>> \in before[d] => <<j, k>> \in before'[d]

Discard(d) ==
  /\ content' = [content EXCEPT ![d] = {}]
  /\ before' = [before EXCEPT ![d] = {}]

Next ==
  \E d \in Docs :
    \/ \E i \in Items : Add(d, i) \/ Remove(d, i)
    \/ Rearrange(d)
    \/ Discard(d)

Spec == Init /\ [][Next]_<<content, before>>
================================================================================
