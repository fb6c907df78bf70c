---------------------------- MODULE UniqueTable ----------------------------
(***************************************************************************)
(* The nodes unique table of btorexp.c: an array of 'size' chains (size a *)
(* power of two), each a singly linked list threaded through the nodes'   *)
(* 'next' fields, and the count 'num_elements'.                           *)
(*                                                                         *)
(* A chain is a sequence of node ids, head first.  A lookup returns, like *)
(* find_const_exp, find_slice_exp and find_bv_exp, a pointer to a slot:   *)
(* either the chain head in the current array or the 'next' field of the  *)
(* node 'prev'; 'size' records which array the pointer was taken from,    *)
(* since enlarge_nodes_unique_table frees the array and relinks every     *)
(* 'next' field.                                                           *)
(*                                                                         *)
(* Node structure is abstracted to the key the find functions compare:    *)
(*   <<"const", bits>>, <<"slice", e0, upper, lower>>, <<kind, e0, e1>>.   *)
(* Children are the ids of bit-vector variables 1..NumVars, which are not *)
(* hash-consed and are not released here.                                 *)
(***************************************************************************)
EXTENDS Naturals, FiniteSets, Sequences, SequencesExt, Functions, TLC

CONSTANTS
  NumVars,      \* ids 1..NumVars are the variables used as children
  MaxId,        \* bound on node ids; ids are never reused
  MaxRefs,      \* bound on a node's reference count
  Limit,        \* BTOR_UNIQUE_TABLE_LIMIT, scaled: the table stops at 2^Limit
  Width,        \* width of the constants
  ConstHash,    \* btor_hash_bv on the (even) constants
  ConstInputs,  \* bit patterns passed to btor_const_exp
  SliceInputs,  \* <<e0, upper, lower>> passed to unary_exp_slice_exp
  BvInputs,     \* <<kind, e0, e1>> passed to create_exp
  Commutative,  \* the kinds sort_bv_exp orders
  NoKey,        \* key of an unallocated node
  Proxy         \* key of a node turned into a proxy

Vars  == 1..NumVars
Nodes == NumVars + 1 .. MaxId

(* btor_const_exp: constants are stored even; an odd one as its negation. *)
Ones == 2^Width - 1
ConstKey(bits) == <<"const", IF bits % 2 = 1 THEN Ones - bits ELSE bits>>

SliceKey(e0, upper, lower) == <<"slice", e0, upper, lower>>

(* sort_bv_exp: commutative operands ordered by id. *)
BvKey(kind, e0, e1) ==
  IF kind \in Commutative /\ e0 > e1 THEN <<kind, e1, e0>> ELSE <<kind, e0, e1>>

Keys ==
  {ConstKey(v) : v \in ConstInputs}
  \cup {SliceKey(s[1], s[2], s[3]) : s \in SliceInputs}
  \cup {BvKey(i[1], i[2], i[3]) : i \in BvInputs}

(* hash_primes.  Every hash is used as 'hash & (size - 1)' with size a    *)
(* divisor of 2^Limit, so the unsigned sums are kept modulo 2^Limit: the  *)
(* bucket is the same as with 32-bit wrap-around.                          *)
HashPrimes == <<333444569, 76891121, 456790003>>
Prime(i) == HashPrimes[i] % 2^Limit

HashSlice(e0, upper, lower) ==
  (Prime(1) * e0 + Prime(2) * upper + Prime(3) * lower) % 2^Limit

HashBv(e0, e1) == (Prime(1) * e0 + Prime(2) * e1) % 2^Limit

(* compute_hash_exp: the hash of a key for a table of sz chains. *)
Hash(k, sz) ==
  CASE k[1] = "const" -> ConstHash[k[2]] % sz
    [] k[1] = "slice" -> HashSlice(k[2], k[3], k[4]) % sz
    [] OTHER          -> HashBv(k[2], k[3]) % sz

(* btor_log_2_util on a power of two *)
Log2(n) == CHOOSE i \in 0..Limit : 2^i = n

(* result: the key asked for by the last constructor call and the node *)
(* it returned.                                                          *)
VARIABLES nextId, key, refs, unique, size, chains, num_elements, result

vars == <<nextId, key, refs, unique, size, chains, num_elements, result>>

TypeOK ==
  /\ nextId \in NumVars + 1 .. MaxId + 1
  /\ key \in [Nodes -> Keys \cup {NoKey, Proxy}]
  /\ refs \in [Nodes -> 0..MaxRefs]
  /\ unique \in [Nodes -> BOOLEAN]
  /\ size \in {2^i : i \in 0..Limit}
  /\ chains \in [0..size - 1 -> Seq(Nodes)]
  /\ num_elements \in Nat
  /\ result \in (Keys \cup {NoKey}) \X (Nodes \cup {0})

(* BTOR_INIT_UNIQUE_TABLE: one empty chain. *)
Init ==
  /\ nextId = NumVars + 1
  /\ key = [n \in Nodes |-> NoKey]
  /\ refs = [n \in Nodes |-> 0]
  /\ unique = [n \in Nodes |-> FALSE]
  /\ size = 1
  /\ chains = [b \in {0} |-> <<>>]
  /\ num_elements = 0
  /\ result = <<NoKey, 0>>

(* Mutant: the table keeps doubling at the size limit. *)
FullUniqueTableAtLimit == num_elements >= size /\ Log2(size) <= Limit

(* Mutant: the table counted full only above one element per chain. *)
FullUniqueTableStrict == num_elements > size /\ Log2(size) < Limit

(* BTOR_FULL_UNIQUE_TABLE *)
FullUniqueTable == num_elements >= size /\ Log2(size) < Limit

(* Mutant: the counter is incremented without the overflow abort and     *)
(* wraps (MaxRefs stands for INT_MAX).                                    *)
IncRefWrap(n) == refs' = [refs EXCEPT ![n] = (@ + 1) % (MaxRefs + 1)]

(* inc_exp_ref_counter: BTOR_ABORT at refs == INT_MAX, scaled to MaxRefs, *)
(* ends the process, so no step follows; otherwise refs + 1.              *)
IncRef(n) == refs[n] < MaxRefs /\ refs' = [refs EXCEPT ![n] = @ + 1]

(* Mutant: a chain node matches on its operands whatever its kind. *)
FindSlotNoKindCheck(k, ch, sz) ==
  LET b == Hash(k, sz)
      c == ch[b]
      i == SelectInSeq(c, LAMBDA n : Tail(key[n]) = Tail(k))
  IN  [bucket |-> b, size |-> sz,
       node   |-> IF i = 0 THEN 0 ELSE c[i],
       prev   |-> CASE i > 1        -> c[i - 1]
                    [] i = 0 /\ c # <<>> -> Last(c)
                    [] OTHER        -> 0]

(* find_bv_exp (and find_const_exp, find_slice_exp): walk the chain of    *)
(* the key's bucket; the result points at the slot holding the match,    *)
(* or at the null 'next' that ends the chain.  'node' is what the slot    *)
(* holds (0: a miss).                                                     *)
FindSlot(k, ch, sz) ==
  LET b == Hash(k, sz)
      c == ch[b]
      i == SelectInSeq(c, LAMBDA n : key[n] = k)
  IN  [bucket |-> b, size |-> sz,
       node   |-> IF i = 0 THEN 0 ELSE c[i],
       prev   |-> CASE i > 1        -> c[i - 1]
                    [] i = 0 /\ c # <<>> -> Last(c)
                    [] OTHER        -> 0]

(* enlarge_nodes_unique_table: a new array of twice the chains; every     *)
(* chain is walked from its head and each node pushed onto the head of    *)
(* its chain in the new array.                                            *)
NewSize(sz) == IF sz > 0 THEN 2 * sz ELSE 1

Enlarge(ch, sz) ==
  LET ns == NewSize(sz)
      push(nc, cur) == [nc EXCEPT ![Hash(key[cur], ns)] = <<cur>> \o @]
  IN  FoldLeft(push, [b \in 0..ns - 1 |-> <<>>],
               FlattenSeq([i \in 1..sz |-> ch[i - 1]]))

(* '*lookup = node' for a node whose 'next' is 0, in chains ch of a table *)
(* of sz chains.  Through the 'next' of prev it cuts the chain holding    *)
(* prev after prev; through a head pointer of an array that has since    *)
(* been freed it changes no chain.                                        *)
WriteSlot(ch, sz, slot, node) ==
  IF slot.prev = 0
  THEN IF slot.size = sz THEN [ch EXCEPT ![slot.bucket] = <<node>>] ELSE ch
  ELSE LET b == CHOOSE b \in DOMAIN ch : slot.prev \in ToSet(ch[b])
           j == SelectInSeq(ch[b], LAMBDA m : m = slot.prev)
       IN  [ch EXCEPT ![b] = SubSeq(@, 1, j) \o <<node>>]

(* Mutant: the pointer taken before enlarging is written through. *)
InternNoRefind(k) ==
  LET lookup == FindSlot(k, chains, size) IN
  \/ /\ lookup.node # 0
     /\ IncRef(lookup.node)
     /\ result' = <<k, lookup.node>>
     /\ UNCHANGED <<nextId, key, unique, size, chains, num_elements>>
  \/ /\ lookup.node = 0
     /\ nextId <= MaxId
     /\ LET full == FullUniqueTable
            ch   == IF full THEN Enlarge(chains, size) ELSE chains
            sz   == IF full THEN NewSize(size) ELSE size
        IN  /\ chains' = WriteSlot(ch, sz, lookup, nextId)
            /\ size' = sz
     /\ key' = [key EXCEPT ![nextId] = k]
     /\ refs' = [refs EXCEPT ![nextId] = 1]
     /\ unique' = [unique EXCEPT ![nextId] = TRUE]
     /\ num_elements' = num_elements + 1
     /\ nextId' = nextId + 1
     /\ result' = <<k, nextId>>

(* The lookup-or-insert of create_exp (the same code is in btor_const_exp *)
(* and unary_exp_slice_exp): on a hit one more reference; on a miss, if   *)
(* the table is full, enlarge it and look up again, then link the new    *)
(* node into the slot and count it.                                       *)
Intern(k) ==
  LET lookup == FindSlot(k, chains, size) IN
  \/ /\ lookup.node # 0
     /\ IncRef(lookup.node)
     /\ result' = <<k, lookup.node>>
     /\ UNCHANGED <<nextId, key, unique, size, chains, num_elements>>
  \/ /\ lookup.node = 0
     /\ nextId <= MaxId
     /\ LET full == FullUniqueTable
            ch   == IF full THEN Enlarge(chains, size) ELSE chains
            sz   == IF full THEN NewSize(size) ELSE size
            slot == IF full THEN FindSlot(k, ch, sz) ELSE lookup
        IN  /\ chains' = WriteSlot(ch, sz, slot, nextId)
            /\ size' = sz
     /\ key' = [key EXCEPT ![nextId] = k]
     /\ refs' = [refs EXCEPT ![nextId] = 1]
     /\ unique' = [unique EXCEPT ![nextId] = TRUE]
     /\ num_elements' = num_elements + 1
     /\ nextId' = nextId + 1
     /\ result' = <<k, nextId>>

ConstExp(bits) == Intern(ConstKey(bits))

SliceExp(e0, upper, lower) == Intern(SliceKey(e0, upper, lower))

CreateExp(kind, e0, e1) == Intern(BvKey(kind, e0, e1))

(* remove_from_nodes_unique_table_exp: nothing for a node that is not in *)
(* the table; otherwise unlink it from the chain that compute_hash_exp    *)
(* gives for the fields 'fields' the node has when it is called, count it *)
(* out and clear 'unique'.                                                *)
RemoveFromUniqueTable(n, fields) ==
  \/ /\ ~unique[n]
     /\ UNCHANGED <<chains, num_elements, unique>>
  \/ /\ unique[n]
     /\ chains' = [chains EXCEPT ![Hash(fields, size)] = Remove(@, n)]
     /\ num_elements' = num_elements - 1
     /\ unique' = [unique EXCEPT ![n] = FALSE]

(* The fields of a node after disconnect_children_exp: every child       *)
(* pointer e[i] is 0, the constant bits and slice bounds are kept.        *)
Disconnected(k) ==
  CASE k[1] = "const" -> k
    [] k[1] = "slice" -> <<"slice", 0, k[3], k[4]>>
    [] OTHER          -> <<k[1], 0, 0>>

(* btor_set_to_proxy_exp: the node leaves the table and becomes a proxy  *)
(* of its simplification, keeping its references.                         *)
SetToProxy(n) ==
  /\ key[n] \in Keys
  /\ RemoveFromUniqueTable(n, key[n])
  /\ key' = [key EXCEPT ![n] = Proxy]
  /\ UNCHANGED <<nextId, refs, size, result>>

(* Mutant: the node is removed from the table after its children were   *)
(* disconnected.                                                          *)
ReleaseDisconnectFirst(n) ==
  \/ /\ refs[n] > 1
     /\ refs' = [refs EXCEPT ![n] = @ - 1]
     /\ UNCHANGED <<nextId, key, unique, size, chains, num_elements, result>>
  \/ /\ refs[n] = 1
     /\ RemoveFromUniqueTable(n, Disconnected(key[n]))
     /\ refs' = [refs EXCEPT ![n] = 0]
     /\ key' = [key EXCEPT ![n] = NoKey]
     /\ UNCHANGED <<nextId, size, result>>

(* btor_release_exp: drop a reference; the last one frees the node:      *)
(* recursively_release_exp removes it from the table while its children  *)
(* are still connected, then disconnects and deallocates it.             *)
Release(n) ==
  \/ /\ refs[n] > 1
     /\ refs' = [refs EXCEPT ![n] = @ - 1]
     /\ UNCHANGED <<nextId, key, unique, size, chains, num_elements, result>>
  \/ /\ refs[n] = 1
     /\ RemoveFromUniqueTable(n, key[n])
     /\ refs' = [refs EXCEPT ![n] = 0]
     /\ key' = [key EXCEPT ![n] = NoKey]
     /\ UNCHANGED <<nextId, size, result>>

Next ==
  \/ \E v \in ConstInputs : ConstExp(v)
  \/ \E s \in SliceInputs : SliceExp(s[1], s[2], s[3])
  \/ \E i \in BvInputs : CreateExp(i[1], i[2], i[3])
  \/ \E n \in Nodes : SetToProxy(n) \/ Release(n)

Spec == Init /\ [][Next]_vars

-----------------------------------------------------------------------------
(* The nodes linked into some chain, and those the table counts as in it. *)
Chained == UNION {ToSet(chains[b]) : b \in DOMAIN chains}
InTable == {n \in Nodes : unique[n]}

(* Every node a constructor may share is found again: the chains hold     *)
(* exactly the nodes marked unique, and looking up a unique node's key in *)
(* the current table returns that node.  This is what the re-lookup after *)
(* enlarge_nodes_unique_table in create_exp, btor_const_exp and           *)
(* unary_exp_slice_exp protects: the pointer from the first lookup refers *)
(* to an array or a 'next' field that enlarging freed or relinked.        *)
LookupComplete ==
  /\ Chained = InTable
  /\ \A n \in InTable : FindSlot(key[n], chains, size).node = n

(* The load stays at most one node per chain until the table reaches its *)
(* size limit: BTOR_FULL_UNIQUE_TABLE is tested before every insert and   *)
(* the table doubles first, so the number of nodes in the table never     *)
(* exceeds 'size' unless log2(size) has reached BTOR_UNIQUE_TABLE_LIMIT.  *)
LoadBound == Cardinality(InTable) <= size \/ Log2(size) = Limit

(* The table implements the abstract unique index: the index is the key  *)
(* -> node map the chains hold, a node's abstract key is its key while it *)
(* is in the table.  Every constructor call is an abstract Intern of its  *)
(* key (a hit takes a reference on the indexed node, a miss adds a fresh  *)
(* node), set_to_proxy a Forward, a release a Release, and enlarging the  *)
(* table changes nothing abstract.                                        *)
AbsIndex == [k \in {key[n] : n \in Chained} |-> CHOOSE n \in Chained : key[n] = k]
AbsKeyOf == [n \in Nodes |-> IF unique[n] THEN key[n] ELSE NoKey]

Abs == INSTANCE UniqueIndex WITH index <- AbsIndex, keyOf <- AbsKeyOf

ImplementsUniqueIndex == Abs!Spec

====
