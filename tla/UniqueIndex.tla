---------------------------- MODULE UniqueIndex ----------------------------
(***************************************************************************)
(* What the unique table of btorexp.c promises its constructors, with no  *)
(* hashing, chains or table size: a partial map from structural keys to    *)
(* the one live node with that key (maximal sharing).                     *)
(*                                                                         *)
(*   index  the key -> node map the constructors consult                  *)
(*   keyOf  the key each live hash-consed node stands for (NoKey for a     *)
(*          node that is not, or no longer, hash-consed)                   *)
(*   refs   the reference count of every node (0: not allocated)           *)
(*   result the key of the last constructor call and the node it returned *)
(*                                                                         *)
(* Intern is one constructor call: a hit hands out one more reference to  *)
(* the indexed node, a miss allocates a fresh node and indexes it.        *)
(* Forward is a node turned into a proxy: it leaves the index but stays    *)
(* allocated.  Release drops one reference and frees the node at zero.    *)
(***************************************************************************)
EXTENDS Naturals, Functions, TLC

CONSTANTS Keys, Nodes, NoKey

ASSUME NoKey \notin Keys

VARIABLES index, keyOf, refs, result

vars == <<index, keyOf, refs, result>>

TypeOK ==
  /\ DOMAIN index \subseteq Keys
  /\ \A k \in DOMAIN index : index[k] \in Nodes
  /\ keyOf \in [Nodes -> Keys \cup {NoKey}]
  /\ refs \in [Nodes -> Nat]
  /\ result \in (Keys \cup {NoKey}) \X (Nodes \cup {0})

Init ==
  /\ index = [k \in {} |-> NoKey]
  /\ keyOf = [n \in Nodes |-> NoKey]
  /\ refs = [n \in Nodes |-> 0]
  /\ result = <<NoKey, 0>>

\* index without the entries that point at node n
Unindexed(n) == [k \in {j \in DOMAIN index : index[j] # n} |-> index[k]]

Intern(k) ==
  \/ /\ k \in DOMAIN index
     /\ result' = <<k, index[k]>>
     /\ refs' = [refs EXCEPT ![index[k]] = @ + 1]
     /\ UNCHANGED <<index, keyOf>>
  \/ /\ k \notin DOMAIN index
     /\ \E n \in Nodes :
          /\ refs[n] = 0
          /\ result' = <<k, n>>
          /\ refs' = [refs EXCEPT ![n] = 1]
          /\ keyOf[n] = NoKey
          /\ keyOf' = [keyOf EXCEPT ![n] = k]
          /\ n \notin Range(index)
          /\ index' = index @@ (k :> n)

Forward(n) ==
  /\ keyOf[n] # NoKey
  /\ UNCHANGED <<refs, result>>
  /\ keyOf' = [keyOf EXCEPT ![n] = NoKey]
  /\ index' = Unindexed(n)

Release(n) ==
  \/ /\ refs[n] > 1
     /\ refs' = [refs EXCEPT ![n] = @ - 1]
     /\ UNCHANGED <<index, keyOf, result>>
  \/ /\ refs[n] = 1
     /\ refs' = [refs EXCEPT ![n] = 0]
     /\ UNCHANGED result
     /\ keyOf' = [keyOf EXCEPT ![n] = NoKey]
     /\ index' = Unindexed(n)

Next ==
  \/ \E k \in Keys : Intern(k)
  \/ \E n \in Nodes : Forward(n) \/ Release(n)

Spec == Init /\ [][Next]_vars

=============================================================================
