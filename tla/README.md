# TLA+ models of Boolector's expression layer

This directory holds TLA+ models of `src/src/btorexp.c`, the node layer of
Boolector. The layer creates, shares, reference-counts and frees the DAG nodes
of bit-vector and function terms. `PROJECT.json` lists the components, runs,
mutants, the map from each definition to the source lines it models, the
findings and the hazards.

## The system

`btorexp.c` keeps one graph of nodes per `Btor` instance:

* **Id table** (`nodes_id_table`). Each new node gets the next id
  (`setup_node_and_add_to_id_table`). The id aborts at `INT_MAX` and is never
  reused. Its slot is set to null when the node is freed.
* **Unique table** (`nodes_unique_table`). This is the hash-cons index: an
  array of `size` chains, `size` a power of two, each a singly linked list
  threaded through the nodes' `next` fields.
  * The hash of a node is computed from its children's ids with `hash_primes`
    (`hash_bv_exp`, `hash_slice_exp`), from its bits (`btor_hash_bv`) or, for
    a lambda, saved at creation; the bucket is `hash & (size - 1)`.
  * A lookup returns a pointer to the slot where the node is or would be
    linked. On a miss the constructor tests `BTOR_FULL_UNIQUE_TABLE` (as many
    nodes as chains, and fewer than 2^30 chains), and if the table is full it
    doubles it (`enlarge_nodes_unique_table`, which frees the old array and
    relinks every node) and looks up again.
  * `find_const_exp`, `find_bv_exp`, `find_slice_exp` and `find_lambda_exp`
    look a term up by its structure.
  * `create_exp` and `btor_const_exp` insert the node on a miss.
  * Constants are normalised to even values; an odd one is returned inverted.
  * Commutative operands are sorted (`sort_bv_exp`).
  * `(= ~a ~b)` is identified with `(= a b)`.
  * Lambdas are looked up modulo renaming of the bound param
    (`compare_lambda_exp`).
* **Edges.** An edge is a pointer with an inversion tag. Each child keeps a
  doubly linked list of `<<parent, position>>`. `connect_child_exp` puts
  apply parents at its tail and all other parents at its head.
* **Reference counts.**
  * Every constructor hit, `btor_copy_exp` and every child connection
    increments `refs`.
  * `btor_release_exp` decrements it. When the last reference goes,
    `recursively_release_exp` frees the node.
  * That function is an explicit stack loop. It pushes the children and the
    `simplified` target, then unlinks the node from the unique table and the
    parent lists. The work of the popped nodes is shared.
* **Proxies.** `btor_set_to_proxy_exp` turns a node whose `simplified` is set
  into a proxy. It leaves the unique table, disconnects and releases its old
  children one by one, and stays alive for whoever still holds it.
* **Params and lambdas.** A lambda binds its param (`lambda_exp`). The binding
  is reset when the lambda is disconnected, but only if it still points at
  that lambda.
* **`btor_args_exp`.** This splits an argument list into a right-leaning chain
  of args nodes with at most three children each.
* **Arrays.** An array is a function of one argument, created by
  `btor_array_exp` as a UF with its `is_array` flag set. `btor_read_exp`
  applies it to an args node of the index (`btor_apply_exps`: create the
  args node, apply, release the args node). `btor_write_exp` builds either
  an `UPDATE` node over a temporary args node of the index, which it then
  releases, or (with `BTOR_OPT_FUN_STORE_LAMBDAS`, or
  a parameterized index or value) `btor_lambda_write_exp`'s
  `λp. cond(p = index, value, read(array, p))`. `btor_cond_exp_node` over
  parameterized functions builds a lambda over applies of fresh params,
  otherwise a `COND` node.

`src/synthebtor.c` is a command-line driver: it parses, bit-blasts and writes
AIGER. `src/btoraigprop.h` only declares an interface. The sort registry, the
bit-vector library, the rewriter and the beta-reducer are not part of this
repository. The models abstract them:

* a sort is `bv`, `fun` or `args`;
* the rewriter is `btor_simplify_exp` following `simplified`;
* the rewrite level is 0.

## Modules

| Module | Models |
|---|---|
| `ExpGraph` | The whole node graph and its operations (below). |
| `MCExpGraph` | Instantiates `ExpGraph` with small operation sets, one per question. |
| `ArgsChunk` | The loop of `btor_args_exp` as a state machine, one iteration per step. |
| `DerivedOps` | The derived bit-vector constructors (`btor_neg_exp` … `btor_smod_exp`) and the array constructors, each as the value of the term it builds. |
| `UniqueTable` | The unique table's chains, hashing, lookup pointers, growth and removal. |
| `UniqueIndex` | What the unique table promises: a map from keys to the one live node with that key. `UniqueTable` is checked to implement it. |
| `MCUniqueTable` | Instantiates `UniqueTable` with two variables, five keys and a table limited to 4 chains. |

### ExpGraph

State (`VARIABLES`):

* `nextId`: the id-table count.
* `kind`, `e`, `bits`: per id, the kind, the tagged children and the constant
  bit. `kind` is `Invalid` once freed.
* `refs`, `plist`: the reference count and the parent list, as a sequence of
  `<<parent, position>>`.
* `utable`: the set of nodes in the unique table.
* `simplified`, `parameterized`, `binding`: the node fields of those names.
  `binding` is the param's `lambda_exp`.
* `held`: the bag of references held by the client. These are the handles
  returned by constructors, copies and matches.
* `stack`: the work stack of the release loop in progress.
* `pending`: the children that `btor_set_to_proxy_exp` still has to release.
* `arrays`: the nodes whose `is_array` flag is set.
* `call`, `frame`: the composite constructor running (`btor_read_exp` or
  `btor_write_exp`), the step it is at and its operands, and the references
  its local variables own (the temporary args node, then the result).

Actions, one per API function:

* constructors: `ConstExp`, `VarExp`, `ParamExp`, `UfExp`, `NotExp`, `BinExp`
  (and / eq / ult), `ArgsExp`, `ApplyExp`, `LambdaExp`, `CondExp`
  (`btor_cond_exp_node`) and `UpdateExp` (`btor_update_exp`), the last two
  with three children;
* `ArrayExp` (`btor_array_exp`);
* reference handling: `Copy`, `Release`, `MatchNodeById`;
* proxies: `SetToProxy`;
* composite constructors: `ReadExp` and `WriteExp` are the entries of
  `btor_read_exp` and `btor_write_exp` (simplification and preconditions).
  `CallArgs` (`btor_args_exp` of the index), `CallApply` (`btor_apply_exp`)
  or `CallUpdate` (`btor_update_exp`), and `CallRelease` (`btor_release_exp`
  of the args node, then the return) are the calls in their bodies, one
  per step. `Return` sends a constructor's new reference to the client
  between calls and to `frame` while a composite constructor runs.

`ReleaseStep` is one iteration of the `do … while` loop in
`recursively_release_exp`, and `ProxyRelease` is one iteration of the release
loop at line 620. Each constructor action does a lookup followed by
`AddNode` or `Hit`:

* the lookup is `FindConst`, `FindBv` or `FindLambda`, after `SortBv` and the
  normalisation;
* `AddNode` is `new_node`: it connects the children with `LinkParents` and
  takes references with `Count`;
* `Hit` is `inc_exp_ref_counter`.

Two rules keep a step atomic. A client call is only taken when no release is
in progress and no composite constructor runs (`Idle`), because the code is
single-threaded and the loops run to completion inside the call. A step of a
composite constructor waits for the release loop its previous step started
(`Quiet`), since the callee returns first. `Release` of the last reference frees the root
in the same step, and pushes onto `stack` what the loop would push. `Ops`
selects which client operations a run enables, and the client picks the
operands of a call among the handles it holds (`Handles`).

`btor_set_to_proxy_exp` calls `set_kind (PROXY)` after its release loop; the
model sets the kind in `SetToProxy`, before the loop. Nothing the loop does
reads the proxy's kind, and the operator statistics `set_kind` keeps are not
modelled.

The data is abstracted. Bit-vectors have width 1 and constants are the bits
0 and 1, which is enough for normalisation and inversion. Sorts are `bv`,
`fun` and `args`.

The reference relations used by the properties are:

* `TermEq`: alpha-equivalence of terms with commutativity and eq inversion;
* `ReachFrom`: reachability through children and `simplified`.

### ArgsChunk

This module models `btor_args_exp` for `argc` in `1..MaxArgc`:

* the prologue, as `NumArgs` and `FirstArgc`;
* each loop iteration, as `Step`, including `create_exp` of a full buffer
  (`NewArgs`), the next buffer (`NextBuf`) and the release of the previous
  node (`ReleaseLast`).

Argument positions are distinct, so every `create_exp` makes a new node.

### DerivedOps

Each derived constructor is an operator named after it, for example `SltExp`
for `btor_slt_exp` or `SmodExp` for `btor_smod_exp`. The operator composes
the primitive node kinds exactly as the C function does:

* the primitives are and, eq, ult, add, mul, udiv, urem, sll, srl, slice,
  concat and cond, with inversion for `BTOR_INVERT_NODE`;
* the special cases for small widths are kept;
* loops are kept, such as the or-trees of `btor_umulo_exp` and
  `btor_smulo_exp` and the xor fold of `btor_redxor_exp`.

A term is represented by its value, a natural below `2^w`. The semantics of
the primitive kinds come from the bit-vector library, which is outside this
repository. They follow SMT-LIB: `udiv x 0 = ones` and `urem x 0 = x`.

`Call(o)` is one call of constructor `o` on operands satisfying its
preconditions:

* shifts take a power-of-two width with a `log2(w)`-bit amount;
* implies and iff take width 1.

The array constructors are operators of the same kind over functions from
index values to element values: `ReadExp`, `LambdaWriteExp`, `UpdateExp`,
`WriteExp` and `CondExp`, with every branch the C functions take (`lam` /
`pz` selects the lambda path). `ArrayCall(o)` calls one of them on every
array of index and element width up to `MaxArrayW`. The `UPDATE` node's own
meaning (the array with one entry replaced) belongs to the beta reducer and
is taken from spec.md.

`Meaning` is an independent reference definition of every operator in
two's-complement integer arithmetic. It is written without the bit-level
constructions: truncating division, floor modulus, popcount parity, range
tests for overflow.

### UniqueTable

This module models the unique table itself. A node's structure is abstracted
to the key the find functions compare: `<<"const", bits>>`, `<<"slice", e0,
upper, lower>>` or `<<kind, e0, e1>>`. The children are ids of variables,
which are not hash-consed. The hashes are the code's: `hash_primes` and the
children's ids, kept modulo `2^Limit`, which gives the same bucket as the
32-bit sum for every table size up to `2^Limit`. `btor_hash_bv` is outside
this repository and is a fixed function `ConstHash` of the bits.

State:

* `chains`: the array, as a function from bucket to a sequence of node ids,
  head first.
* `size` and `num_elements`: the table fields of those names.
* `key`, `refs` and `unique`: per node, its key (`NoKey` when free, `Proxy`
  after `set_to_proxy`), its reference count and its `unique` flag.
* `nextId`: the next id.
* `result`: the key asked for by the last constructor call and the node it
  returned.

`FindSlot` is the chain walk of `find_bv_exp` (and `find_const_exp`,
`find_slice_exp`). It returns the slot the code's `BtorNode **` points at:
the head of a bucket, or the `next` field of the node `prev`, together with
the array size it was taken from. `WriteSlot` is `*lookup = node`: through a
`next` field it cuts that chain after `prev`; through a head pointer into an
array that has been freed it changes nothing. `Enlarge` folds over the old
chains, head first, pushing each node onto the head of its new chain.

Actions:

* `ConstExp`, `SliceExp` and `CreateExp` are `btor_const_exp` (with the even
  normalisation), `unary_exp_slice_exp` and `create_exp` (with `sort_bv_exp`).
  All three use `Intern`, the lookup-or-insert they share: a hit takes a
  reference; a miss enlarges a full table, looks up again, links the new node
  and counts it.
* `SetToProxy` is `btor_set_to_proxy_exp`'s removal from the table.
* `Release` is `btor_release_exp`; the last reference removes the node
  (`remove_from_nodes_unique_table_exp`, which does nothing for a node that
  is not in the table) and frees it.
* `RemoveFromUniqueTable(n, fields)` hashes the fields the node has when it
  is called. `recursively_release_exp` calls it before
  `disconnect_children_exp` clears the children (`Disconnected`), so the
  chain it searches is the one the node is in.
* `IncRef` is `inc_exp_ref_counter`: `MaxRefs` stands for `INT_MAX`, and the
  abort there ends the process, so at the bound no step follows.

`UniqueIndex` is the abstract specification, with `index`, `keyOf`, `refs`
and `result`. Its actions are `Intern` (a hit or a fresh node), `Forward` (a
proxy leaves the index) and `Release`. The refinement mapping takes `index`
to the key-to-node map that the chains hold, and `keyOf` to the key of every
node marked `unique`. Enlarging the table is a stuttering step.

## Runs

Passing runs. Each checks the invariants of its cfg over every reachable
state.

| Run | Ops / bounds | What it shows |
|---|---|---|
| `bv` | const, var, not, and, eq, ult, release, match-by-id; 3 ids, 2 handles | The counts, parent lists and unique table stay exact. Nothing dangles or leaks, and matching a live id takes a counted reference. `HashConsUnique`: equal terms are one node, where equal means the same kind and children, a constant and its complement, a commutative node with its operands swapped, or `(= ~a ~b)` and `(= a b)`. A `btor_const_exp` that stores odd constants as given breaks it here. Swapped operands need a fourth id, which this run lacks: a build without `sort_bv_exp` breaks the same property in the `lambda` run. `and(a, ~a)` and `and(~a, a)` are exempt: `is_sorted_bv_exp` accepts both orders and the assertion at line 1859 allows the pair. |
| `proxy` | + set_to_proxy; 4 ids | The proxy's deferred child releases and its `simplified` reference keep every count right, and nothing used is freed. |
| `apply` | var, array, read, write, cond over functions, copy, release; 5 ids, 2 handles | Reads and writes create a temporary args node, use it in an apply or update node and release it. Every reference stays accounted, the temporaries included (`RefConservation`), and child references are counted per position, including a child used at two or three positions. Parent lists stay exact. `NoDangling` and `NoGarbage`: the temporary is neither freed before its user holds it nor left behind. |
| `applyorder` | var, not, uf, args, apply, update; 6 ids | `ParentListOrder`: non-apply parents (update nodes among them) come first, newest first; apply parents follow, oldest first. |
| `lambda` | var, param, and, lambda, release; 5 ids, 2 handles | `BindingConsistent`: a param is bound exactly when a live lambda has it as param. Freeing a lambda frees its body. Closed lambdas equal up to renaming, such as `λp.p` / `λq.q` and `λp.p∧p` / `λq.q∧q`, are shared, and `and` operands are in id order (`HashConsUnique`). |
| `derived` | every derived constructor; widths 1..5, extensions 0..2; array read, write, update, function cond with index and element widths 1..2 | Every composition equals its operator's meaning on every operand: logic and arithmetic, signed and reversed comparisons, the seven overflow flags, sra and rotates, sdiv / srem / smod including division by zero and the minimum divided by -1. `ArrayCorrect`: every array constructor denotes the SMT-LIB array on every path it can take. |
| `args` | `argc` 1..16 | The chain lists the arguments in order, with links only in the last slot of full nodes. It is minimal, and each node has exactly one owner. |
| `uniquetable` | 5 keys, 5 nodes, at most 4 chains, 2 references | `LookupComplete`: the chains hold exactly the nodes marked unique, and each is found again from its key, across enlarging, proxies and releases. `LoadBound`: at most one node per chain until the size limit. `ImplementsUniqueIndex`: the table refines `UniqueIndex`; every call returns the node indexed for its key. |

Violation runs. Each checks one property that TLC finds violated; the
findings in `PROJECT.json` explain them.

| Run | Property | Shows |
|---|---|---|
| `matchfreed` | `NoDangling` | `btor_match_node_by_id` on the id of a freed node copies the null slot. `MatchFreedIds` lets the client ask for such ids. |
| `openalpha` | `AlphaShared` | `find_lambda_exp` compares only against non-parameterized candidates, so `λq.r` and `λs.r` with `r` free stay distinct. |
| `args_terminal` | `TerminalAsSpecified` | The terminal args node has `argc % 2 + 2` children; spec.md 4.5.5 says `argc mod 2 + 1`. |

Every property of a passing run has a mutant in `PROJECT.json`. A mutant is a
plausible bug in a mapped definition that makes TLC report the property
violated, for example:

* an off-by-one in the release test;
* a parent list that drops its last entry;
* a binding never reset;
* apply parents inserted at the head;
* the args chain's link placed in slot 0;
* a lookup pointer taken before enlarging the table and written through
  after it;
* a chain walk that matches operands but not the node kind;
* a release that removes the node from the unique table after its children
  were disconnected;
* a reference count incremented past `INT_MAX` without the abort;
* a lambda write with the new value in the else branch;
* a read or write that never releases its temporary args node.

## Bounds

* Three ids already hold a constant, its complement and a binary node over
  them, or two variables and their conjunction. That is enough for inversion
  sharing, operand sorting and a shared child freed from two parents.
* The proxy run needs a fourth id so that a node can be proxied to a
  different live term.
* Lambdas need a param, a body and a lambda, plus a second lambda for
  sharing, so those runs use 5 ids.
* Apply ordering needs two applications of one function besides the function
  and its args, so that run uses 6 ids.
* In `apply`, 5 ids hold an array, an index, the args node, the apply or
  update node and one more node (a second array, index or result). A read
  or write whose args or result does not fit stops at the id abort.
* Two held handles allow a copy, or a release of one holder while another
  still holds the node.
* `MaxWidth = 5` in `derived` reaches every special case:
  * widths 1 and 2 of `smulo`;
  * the general or-tree with two loop iterations, which starts at width 5;
  * shifts at widths 2 and 4.
* `MaxArrayW = 2` gives arrays of four entries, where a write, an update
  and a conditional can differ from their operands at one index and agree
  at the others.
* `uniquetable` uses `Limit = 2`, so the table stops at 4 chains. It doubles
  twice, the second time with the three binary keys in one chain, and five
  keys can be in the table at once, one more than the chains. With
  `Limit = 1` the only growth would be from one chain holding one node, and
  a rehash that loses the rest of a chain would go unseen.
* `MaxArgc = 16` covers every residue of the chunking arithmetic and chains
  of up to 7 nodes.
* Larger bounds than these made runs exceed a few minutes without adding new
  shapes.

`CHECK_DEADLOCK FALSE` is set because the model stops in three legitimate ways:

* when the ids run out, which is the `BTOR_ABORT` at line 1501 (in
  `UniqueTable`, when `MaxId` is reached and every node is free);
* when `btor_args_exp` returns;
* when a derived or array constructor has returned its result.

## Fairness

No run checks a liveness property, and no specification assumes fairness.
The only loops that could fail to finish are the release loops
(`do … while` at 545-576 and the `for` at 620) and the steps of
`btor_read_exp` and `btor_write_exp`. Each of their steps consumes one entry
of a finite work list, so that they end says nothing about the code. Deadlock
is not checked, because a client may stop at any time.

## Not modelled

* Lambdas in `UniqueTable`: their hash is saved at creation and used
  unchanged on every rehash, which is what a fixed key hash models. Their
  lookup modulo renaming is in `ExpGraph`.
* The side tables of `recursively_release_exp` (the saved lambda hash in
  `btor->lambdas`): `UniqueTable` has no lambdas, so only the children half
  of the removal order is checked.
* Slices (outside `UniqueTable`), arithmetic, shifts, concat and fun-eq as
  graph nodes. They go through the same `create_exp` and `find_bv_exp` path
  as and / ult. Their values appear in `DerivedOps`.
* Conditionals over bit-vectors in `ExpGraph` runs: `CondExp` allows them
  (`"cond"` in `Ops`), but nested width-1 conditionals took every run that
  enabled them past half an hour. Conditionals over functions (`"funcond"`)
  are checked.
* The temporaries of `btor_lambda_write_exp` and its `static_rho` table,
  which `erase_local_data_exp` releases when the lambda is freed; the
  parameterized update path in `ExpGraph`.
* Functions becoming proxies: `is_array` is modelled, but `btor_update_exp`
  reading it from the unsimplified function (line 4180) only matters once a
  function node is a proxy, which no run produces.
* `btor_and_n_exp` (`create_bin_n_exp`): the same temporary-then-release
  pattern as `btor_apply_exps`, over an argument sequence. Enabling it
  multiplied the states of every run it was added to more than tenfold
  (past 15 minutes), because each call over any sequence of held handles
  adds its intermediate states.
* `btor_fun_exp`: a lambda whose body is a lambda, which `ExpGraph`'s
  alpha-equivalence (bit-vector bodies only) does not cover.
* The reference counts of the intermediate nodes of derived constructors.
* The symbol and btor-id side tables.
* The external reference counters.
* `src/synthebtor.c`: past its argument loop it is file I/O over the parser
  and the AIG layer, which are not in this repository. Its hazards (the
  output truncated before the input is parsed, input and output told apart
  by name only, the parser's message used as a printf format) are listed in
  `PROJECT.json` without a property.
* Everything else outside `btorexp.c`.

## Plan for later work

1. The derived constructors' intermediate nodes on `ExpGraph`: that each one
   releases what it creates.
2. `btor_lambda_write_exp` on top of `ExpGraph`, with the release of its
   temporaries and of `static_rho` by `erase_local_data_exp`.
3. A refinement of `UniqueIndex` by `ExpGraph`, through its set-valued
   unique table.
