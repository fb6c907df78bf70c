------------------------------ MODULE ExpGraph ------------------------------
(***************************************************************************)
(* The expression core of src/src/btorexp.c at rewrite level 0: the node   *)
(* arena and its id table, the unique (hash-cons) table, the constructors  *)
(* of the primitive node kinds, parent lists, reference counting, the      *)
(* iterative release engine (recursively_release_exp) and the conversion   *)
(* of a rewritten node into a proxy (btor_set_to_proxy_exp).  The        *)
(* composite constructors btor_read_exp and btor_write_exp run as several *)
(* steps, each a call of a primitive constructor or of btor_release_exp   *)
(* on the temporary args node they own.                                    *)
(*                                                                         *)
(* A node is an id in Ids.  An edge (a tagged BtorNode pointer) is a       *)
(* record [node, inv]: the child-position tag lives in the parent lists,   *)
(* the inversion bit in the edge.  Every bit-vector term has width 1, so   *)
(* a constant is 0 or 1 and 1 is stored as the inverted node of 0.         *)
(* The unique table is abstracted to the set of nodes it holds; lookup is  *)
(* by structure (UniqueTable.tla models the chains and their resizing).    *)
(***************************************************************************)
EXTENDS Naturals, Sequences, FiniteSets, SequencesExt

CONSTANTS
    MaxId,          \* ids 1..MaxId; allocating MaxId+1 is the id-overflow abort
    MaxHeld,        \* bound on the owning handles the client holds per edge
    Ops,            \* the public operations the client may call in a run
    ProxyKinds,     \* kinds of node the rewriter may turn into a proxy
    MatchFreedIds   \* TRUE: btor_match_node_by_id may be given a freed id

ASSUME MaxId \in Nat \ {0} /\ MaxHeld \in Nat \ {0} /\ MatchFreedIds \in BOOLEAN

Ids     == 1..MaxId
NoNode  == 0
Invalid == "invalid"
Edge(n, inv) == [node |-> n, inv |-> inv]
Edges   == [node : Ids, inv : BOOLEAN]
NoEdge  == Edge(NoNode, FALSE)
Invert(ed) == [ed EXCEPT !.inv = ~@]

Kinds       == {"const", "var", "param", "and", "beq", "ult", "uf", "args",
                "apply", "lambda", "cond", "update", "proxy"}
\* kinds that create_exp / btor_const_exp hash-cons in the unique table
UniqueKinds == {"const", "and", "beq", "ult", "args", "apply", "lambda",
                "cond", "update"}
\* btor_is_binary_commutative_node_kind (sorted when BTOR_OPT_SORT_EXP is on)
Commutative == {"and", "beq"}
Width       == 1
NotBv(b)    == (2^Width - 1) - b

VARIABLES
    nextId,         \* BTOR_COUNT_STACK (btor->nodes_id_table)
    kind,           \* kind[n]; Invalid once the slot is freed (or never used)
    e,              \* e[n]: the child edges exp->e[0 .. arity-1]
    bits,           \* bits of a constant node
    refs,           \* exp->refs
    plist,          \* parent list of n, first_parent first: <<parent, pos>>
    utable,         \* the nodes chained in btor->nodes_unique_table
    simplified,     \* exp->simplified (an edge) or NoEdge
    parameterized,  \* exp->parameterized
    binding,        \* btor_param_get_binding_lambda of a param, or NoNode
    held,           \* owning handles held by the client, per edge
    stack,          \* work stack of recursively_release_exp, top first
    pending,        \* children btor_set_to_proxy_exp has still to release
    arrays,         \* the nodes whose exp->is_array flag is set
    frame,          \* the references a running composite constructor owns
    call            \* the composite constructor running, and where it is

vars == <<nextId, kind, e, bits, refs, plist, utable, simplified,
          parameterized, binding, held, stack, pending, arrays, frame, call>>

\* no composite constructor is running
NoCall    == [op |-> "none", pc |-> "none", in |-> <<>>]
CallOps   == {"read", "write"}
CallSteps == {"args", "apply", "update", "release"}

Live  == {n \in Ids : kind[n] # Invalid}
\* no release loop is running
Quiet == stack = <<>> /\ pending = <<>>
\* between public calls
Idle  == Quiet /\ call = NoCall

TypeOK ==
    /\ nextId \in 1..MaxId + 1
    /\ kind \in [Ids -> Kinds \cup {Invalid}]
    /\ e \in [Ids -> Seq(Edges)]
    /\ bits \in [Ids -> 0..NotBv(0)]
    /\ refs \in [Ids -> Nat]
    /\ plist \in [Ids -> Seq(Ids \X (0..2))]
    /\ utable \subseteq Ids
    /\ simplified \in [Ids -> Edges \cup {NoEdge}]
    /\ parameterized \in [Ids -> BOOLEAN]
    /\ binding \in [Ids -> Ids \cup {NoNode}]
    /\ held \in [Edges -> 0..MaxHeld]
    /\ stack \in Seq(Ids)
    /\ pending \in Seq(Ids)
    /\ arrays \subseteq Ids
    /\ frame \in Seq(Edges)
    /\ call \in {NoCall} \cup [op : CallOps, pc : CallSteps, in : Seq(Edges)]

(***************************************************************************)
(* Sorts, abstracted to what the constructors' preconditions compare.      *)
(***************************************************************************)
RECURSIVE Sort(_)
Sort(n) == CASE kind[n] \in {"uf", "lambda", "update"} -> "fun"
             [] kind[n] = "args"                       -> "args"
             [] kind[n] = "cond"                       -> Sort(e[n][2].node)
             [] OTHER                                  -> "bv"

(***************************************************************************)
(* btor_simplify_exp: follow the simplified chain, composing inversions.   *)
(***************************************************************************)
RECURSIVE Simplify(_)
Simplify(ed) ==
    IF simplified[ed.node] = NoEdge THEN ed
    ELSE LET s == Simplify(simplified[ed.node])
         IN  [s EXCEPT !.inv = (s.inv # ed.inv)]

\* nodes reachable from S over child and simplified edges
Succ(n) == {e[n][i].node : i \in DOMAIN e[n]}
           \cup (IF simplified[n] = NoEdge THEN {} ELSE {simplified[n].node})
RECURSIVE ReachFrom(_)
ReachFrom(S) ==
    LET T == S \cup UNION {Succ(n) : n \in S}
    IN  IF T = S THEN S ELSE ReachFrom(T)

\* mutation: a child shared by two positions gets only one reference
CountOnce(kids, n) == IF \E i \in DOMAIN kids : kids[i].node = n THEN 1 ELSE 0

\* connect_child_exp: inc_exp_ref_counter once per child position
Count(kids, n) == Cardinality({i \in DOMAIN kids : kids[i].node = n})

(***************************************************************************)
(* Lookup in the unique table.                                            *)
(***************************************************************************)
\* is_sorted_bv_exp / sort_bv_exp: commutative children in ascending id order
SortBv(k, es) ==
    IF k \in Commutative /\ es[1].node > es[2].node THEN <<es[2], es[1]>> ELSE es

\* find_const_exp: a constant node with exactly these bits
FindConst(b) ==
    LET M == {n \in utable : kind[n] = "const" /\ bits[n] = b}
    IN  IF M = {} THEN NoNode ELSE CHOOSE n \in M : TRUE

\* find_bv_exp: same kind and (sorted) children; a bv equality also matches
\* the equality of the two inverted children
FindBv(k, es) ==
    LET s == SortBv(k, es)
        M == {n \in utable :
                /\ kind[n] = k
                /\ Len(e[n]) = Len(s)
                /\ \/ k = "beq" /\ e[n][1] = Invert(s[1]) /\ e[n][2] = Invert(s[2])
                   \/ e[n] = s}
    IN  IF M = {} THEN NoNode ELSE CHOOSE n \in M : TRUE


(***************************************************************************)
(* Lambdas: the free params hash_lambda_exp collects, and the structural   *)
(* comparison of compare_lambda_exp, which rebuilds the query body with    *)
(* its param renamed through lookups in the unique table.                  *)
(***************************************************************************)
RECURSIVE ParamWalk(_)
ParamWalk(S) ==
    LET open == {n \in S : parameterized[n] /\ kind[n] # "lambda"}
        T    == S \cup UNION {{e[n][i].node : i \in DOMAIN e[n]} : n \in open}
    IN  IF T = S THEN S ELSE ParamWalk(T)

FreeParams(p, body) ==
    {n \in ParamWalk({body.node}) : kind[n] = "param" /\ parameterized[n] /\ n # p}

RECURSIVE Rebuild(_, _, _)
Rebuild(ed, p, q) ==
    LET n == ed.node
    IN  IF ~parameterized[n] THEN ed
        ELSE IF kind[n] = "param" THEN IF n = p THEN Edge(q, ed.inv) ELSE ed
        ELSE LET ks == [i \in DOMAIN e[n] |-> Rebuild(e[n][i], p, q)]
                 f  == IF \E i \in DOMAIN ks : ks[i] = NoEdge THEN NoNode
                       ELSE FindBv(kind[n], ks)
             IN  IF f = NoNode THEN NoEdge ELSE Edge(f, ed.inv)

AlphaEq(p, body, l) == Rebuild(body, p, e[l][1].node) = e[l][2]

\* mutation: find_lambda_exp without compare_lambda_exp
FindLambdaIdentity(p, body) ==
    LET M == {n \in utable : kind[n] = "lambda" /\ e[n] = <<Edge(p, FALSE), body>>}
    IN  IF M = {} THEN NoNode ELSE CHOOSE n \in M : TRUE

\* find_lambda_exp: the same param and body, or a non-parameterized lambda
\* whose body the query body rebuilds to
FindLambda(p, body) ==
    LET M == {n \in utable :
                /\ kind[n] = "lambda"
                /\ \/ e[n] = <<Edge(p, FALSE), body>>
                   \/ ~parameterized[n] /\ AlphaEq(p, body, n)}
    IN  IF M = {} THEN NoNode ELSE CHOOSE n \in M : TRUE

(***************************************************************************)
(* Wiring.                                                                 *)
(***************************************************************************)
\* mutation: an apply is spliced in at the head like any other parent
RECURSIVE LinkParentsAtHead(_, _, _, _, _)
LinkParentsAtHead(pl, p, kids, i, atTail) ==
    IF i > Len(kids) THEN pl
    ELSE LinkParentsAtHead([pl EXCEPT ![kids[i].node] = <<<<p, i - 1>>>> \o @],
                           p, kids, i + 1, atTail)

\* connect_child_exp for each position in order: <<parent, pos>> goes to the
\* head of the child's parent list, or to its tail when the parent is an apply
RECURSIVE LinkParents(_, _, _, _, _)
LinkParents(pl, p, kids, i, atTail) ==
    IF i > Len(kids) THEN pl
    ELSE LET c  == kids[i].node
             en == <<p, i - 1>>
         IN  LinkParents([pl EXCEPT ![c] = IF atTail THEN Append(@, en)
                                                     ELSE <<en>> \o @],
                         p, kids, i + 1, atTail)

\* mutation: disconnect_children_exp stops before the last position
UnlinkParentsSkipLast(pl, p, kids) ==
    [c \in Ids |-> SelectSeq(pl[c], LAMBDA en :
                      ~(en[1] = p /\ en[2] + 2 \in DOMAIN kids
                        /\ kids[en[2] + 1].node = c))]

\* disconnect_child_exp for each position: unsplice <<p, pos>> from e[pos]
UnlinkParents(pl, p, kids) ==
    [c \in Ids |-> SelectSeq(pl[c], LAMBDA en :
                      ~(en[1] = p /\ en[2] + 1 \in DOMAIN kids
                        /\ kids[en[2] + 1].node = c))]

\* mutation: the binding of the param is never reset
UnbindNever(l) == binding

\* disconnect_child_exp of a lambda's param: reset the param's binding
\* lambda unless the param has been bound by another lambda since
Unbind(l) ==
    IF kind[l] = "lambda" /\ binding[e[l][1].node] = l
    THEN [binding EXCEPT ![e[l][1].node] = NoNode]
    ELSE binding

\* setup_node_and_add_to_id_table: the id is the length of the id table
NewId == nextId

\* mutation: the id-overflow abort tested one id too late
IdAvailableOffByOne(id) == id \in 1..MaxId + 1

\* BTOR_ABORT (id == INT_MAX, "expression id overflow"), the id bound MaxId
IdAvailable(id) == id \in Ids

\* a constructor returns its new reference to the client between public
\* calls, and to the local variables of the composite constructor that
\* called it while one runs
Return(ed) ==
    IF call = NoCall
    THEN /\ held' = [held EXCEPT ![ed] = @ + 1]
         /\ UNCHANGED frame
    ELSE /\ frame' = Append(frame, ed)
         /\ UNCHANGED held

\* allocation of a node of kind k (new_*_node), its children connected, the
\* node inserted into the unique table when hash-consed, an owning handle
\* (inverted when inv) returned
AddNode(k, kids, b, pz, inUnique, inv) ==
    LET id == NewId
    IN  /\ IdAvailable(id)
        /\ nextId' = id + 1
        /\ kind' = [kind EXCEPT ![id] = k]
        /\ e' = [e EXCEPT ![id] = kids]
        /\ bits' = [bits EXCEPT ![id] = b]
        /\ refs' = [n \in Ids |-> IF n = id THEN 1 ELSE refs[n] + Count(kids, n)]
        /\ plist' = LinkParents(plist, id, kids, 1, k = "apply")
        /\ parameterized' = [parameterized EXCEPT ![id] = pz]
        /\ utable' = IF inUnique THEN utable \cup {id} ELSE utable
        /\ Return(Edge(id, inv))
        /\ UNCHANGED <<simplified, stack, pending>>

\* mutation: a lookup hit returned without a new reference
HitNoInc(n, inv) ==
    /\ call = NoCall => held[Edge(n, inv)] < MaxHeld
    /\ Return(Edge(n, inv))
    /\ UNCHANGED <<refs, nextId, kind, e, bits, plist, utable, simplified,
                   parameterized, binding, stack, pending>>

\* inc_exp_ref_counter on a node found in the unique table, returned as a handle
Hit(n, inv) ==
    /\ call = NoCall => held[Edge(n, inv)] < MaxHeld
    /\ refs' = [refs EXCEPT ![n] = @ + 1]
    /\ Return(Edge(n, inv))
    /\ UNCHANGED <<nextId, kind, e, bits, plist, utable, simplified,
                   parameterized, binding, stack, pending>>

\* create_exp for a non-lambda kind: find_exp, and on a miss a new node
CreateExp(k, es) ==
    LET f == FindBv(k, es)
        s == SortBv(k, es)
    IN  IF f # NoNode THEN Hit(f, FALSE)
        ELSE /\ AddNode(k, s, 0, \E i \in DOMAIN s : parameterized[s[i].node],
                        TRUE, FALSE)
             /\ UNCHANGED binding

(***************************************************************************)
(* Release: one node freed by recursively_release_exp.  Its children and   *)
(* its simplified target are pushed (e[0] ends on top, the simplified      *)
(* target above it), it leaves the unique table, its data is erased, it is *)
(* disconnected from its children and its id slot is cleared.              *)
(***************************************************************************)
Kids(n) == [i \in DOMAIN e[n] |-> e[n][i].node]
SimpNode(n) == IF simplified[n] = NoEdge THEN <<>> ELSE <<simplified[n].node>>

\* mutation: the push loop of recursively_release_exp stops before e[0]
ReleasePushSkipFirst(cur) == SimpNode(cur) \o SubSeq(Kids(cur), 2, Len(Kids(cur)))
\* mutation: the simplified target is not pushed
ReleasePushNoSimp(cur) == Kids(cur)

\* what recursively_release_exp pushes for a node it frees, top first: the
\* simplified target, then e[0], ..., e[arity-1]
ReleasePush(cur) == SimpNode(cur) \o Kids(cur)

\* mutation: remove_from_nodes_unique_table_exp leaves the node chained
RemoveUniqueNoop(n) == utable

\* remove_from_nodes_unique_table_exp
RemoveUnique(n) == utable \ {n}

FreeNode(cur, rest) ==
    LET kids == e[cur]
    IN  /\ stack' = ReleasePush(cur) \o rest
        /\ utable' = RemoveUnique(cur)
        /\ kind' = [kind EXCEPT ![cur] = Invalid]
        /\ e' = [e EXCEPT ![cur] = <<>>]
        /\ bits' = [bits EXCEPT ![cur] = 0]
        /\ refs' = [refs EXCEPT ![cur] = 0]
        /\ simplified' = [simplified EXCEPT ![cur] = NoEdge]
        /\ parameterized' = [parameterized EXCEPT ![cur] = FALSE]
        /\ plist' = UnlinkParents(plist, cur, kids)
        /\ binding' = [Unbind(cur) EXCEPT ![cur] = NoNode]
        /\ arrays' = arrays \ {cur}
        /\ UNCHANGED nextId

(***************************************************************************)
(* Initial state: btor_new, with empty arena and unique table.             *)
(***************************************************************************)
Init ==
    /\ nextId = 1
    /\ kind = [n \in Ids |-> Invalid]
    /\ e = [n \in Ids |-> <<>>]
    /\ bits = [n \in Ids |-> 0]
    /\ refs = [n \in Ids |-> 0]
    /\ plist = [n \in Ids |-> <<>>]
    /\ utable = {}
    /\ simplified = [n \in Ids |-> NoEdge]
    /\ parameterized = [n \in Ids |-> FALSE]
    /\ binding = [n \in Ids |-> NoNode]
    /\ held = [ed \in Edges |-> 0]
    /\ stack = <<>>
    /\ pending = <<>>
    /\ arrays = {}
    /\ frame = <<>>
    /\ call = NoCall

(***************************************************************************)
(* Public operations.  Each runs to completion (the core is single-        *)
(* threaded); only the release loops are split into steps, so that the    *)
(* properties can observe the work stack.                                  *)
(***************************************************************************)
\* a handle the client owns, resolved by btor_simplify_exp
Owned(h) == held[h] > 0

\* mutation: btor_const_exp without the normalisation, every constant stored
\* as given
ConstExpOddStored(b) ==
    /\ "const" \in Ops /\ Idle
    /\ LET f == FindConst(b)
       IN  IF f # NoNode THEN Hit(f, FALSE)
           ELSE AddNode("const", <<>>, b, FALSE, TRUE, FALSE) /\ UNCHANGED binding

\* btor_const_exp: odd constants are looked up as their complement and the
\* result inverted
ConstExp(b) ==
    /\ "const" \in Ops /\ Idle
    /\ LET inv == b % 2 = 1
           lb  == IF inv THEN NotBv(b) ELSE b
           f   == FindConst(lb)
       IN  IF f # NoNode THEN Hit(f, inv)
           ELSE AddNode("const", <<>>, lb, FALSE, TRUE, inv) /\ UNCHANGED binding

\* btor_var_exp, btor_param_exp, btor_uf_exp: never hash-consed
VarExp   == "var" \in Ops /\ Idle
            /\ AddNode("var", <<>>, 0, FALSE, FALSE, FALSE) /\ UNCHANGED binding
ParamExp == "param" \in Ops /\ Idle
            /\ AddNode("param", <<>>, 0, TRUE, FALSE, FALSE) /\ UNCHANGED binding
UfExp    == "uf" \in Ops /\ Idle
            /\ AddNode("uf", <<>>, 0, FALSE, FALSE, FALSE) /\ UNCHANGED binding

\* btor_not_exp: a copy of the simplified operand, inverted
NotExp(h) ==
    /\ "not" \in Ops /\ Idle /\ Owned(h)
    /\ LET s == Simplify(h)
       IN  /\ Sort(s.node) = "bv"
           /\ Hit(s.node, ~s.inv)

\* btor_and_exp, btor_eq_exp (bit-vector case), btor_ult_exp at rewrite
\* level 0: *_exp_node simplifies both operands and calls create_exp
BinExp(k, h0, h1) ==
    /\ k \in Ops /\ Idle /\ Owned(h0) /\ Owned(h1)
    /\ LET a == Simplify(h0)
           b == Simplify(h1)
       IN  /\ Sort(a.node) = "bv" /\ Sort(b.node) = "bv"
           /\ CreateExp(k, <<a, b>>)

\* btor_args_exp for one argument
ArgsExp(h) ==
    /\ "args" \in Ops /\ Idle /\ Owned(h)
    /\ LET a == Simplify(h)
       IN  Sort(a.node) = "bv" /\ CreateExp("args", <<a>>)

\* btor_apply_exp_node; applying a parameterized lambda is beta-reduced
\* (btor_beta_reduce_bounded, not modelled) and is excluded
ApplyExp(hf, ha) ==
    /\ "apply" \in Ops /\ Idle /\ Owned(hf) /\ Owned(ha)
    /\ LET f == Simplify(hf)
           a == Simplify(ha)
       IN  /\ Sort(f.node) = "fun" /\ kind[a.node] = "args"
           /\ ~(kind[f.node] = "lambda" /\ parameterized[f.node])
           /\ CreateExp("apply", <<f, a>>)

\* btor_lambda_exp (body of bit-vector sort) -> create_exp(LAMBDA): lookup by
\* find_lambda_exp; a new lambda binds its param and is parameterized when
\* the body has free params other than its own
LambdaExp(hp, hb) ==
    /\ "lambda" \in Ops /\ Idle /\ Owned(hp) /\ Owned(hb)
    /\ kind[hp.node] = "param" /\ ~hp.inv
    /\ LET p == hp.node
           b == Simplify(hb)
           f == FindLambda(p, b)
       IN  /\ Sort(b.node) = "bv"
           /\ IF f # NoNode THEN Hit(f, FALSE)
              ELSE /\ binding[p] = NoNode
                   /\ AddNode("lambda", <<Edge(p, FALSE), b>>, 0,
                              FreeParams(p, b) # {}, TRUE, FALSE)
                   /\ binding' = [binding EXCEPT ![p] = NewId]

\* the sorts of branches the client passes to btor_cond_exp in a run:
\* "cond" for bit-vectors, "funcond" for functions (arrays)
CondSorts == {s \in {"bv", "fun"} : (IF s = "bv" THEN "cond" ELSE "funcond") \in Ops}

\* btor_cond_exp_node: create_exp (COND) of the simplified operands; a
\* conditional over parameterized functions is built as a lambda over
\* applies instead (beta-reduced when applied, not modelled) and is excluded
CondExp(hc, hi, he) ==
    /\ CondSorts # {} /\ Idle /\ Owned(hc) /\ Owned(hi) /\ Owned(he)
    /\ LET c == Simplify(hc)
           a == Simplify(hi)
           b == Simplify(he)
       IN  /\ Sort(c.node) = "bv" /\ Sort(a.node) = Sort(b.node)
           /\ Sort(a.node) \in CondSorts
           /\ ~(Sort(a.node) = "fun"
                /\ (parameterized[a.node] \/ parameterized[b.node]))
           /\ (a.node \in arrays) = (b.node \in arrays)
           /\ CreateExp("cond", <<c, a, b>>)
           \* connect_child_exp: a new function conditional over arrays is one
           /\ arrays' = IF FindBv("cond", <<c, a, b>>) = NoNode /\ a.node \in arrays
                        THEN arrays \cup {NewId} ELSE arrays
    /\ UNCHANGED call

\* the node create_exp returns for kind k and children es
Created(k, es) == IF FindBv(k, es) # NoNode THEN FindBv(k, es) ELSE NewId

\* btor_update_exp: create_exp (UPDATE) of a function, an args node and a
\* value; with a parameterized operand it is btor_lambda_write_exp instead
\* (excluded, see DerivedOps).  The result is an array when the function
\* as passed, before simplification, is one.
UpdateExp(hf, ha, hv) ==
    /\ "update" \in Ops /\ Idle /\ Owned(hf) /\ Owned(ha) /\ Owned(hv)
    /\ LET f == Simplify(hf)
           a == Simplify(ha)
           v == Simplify(hv)
       IN  /\ Sort(f.node) = "fun" /\ kind[a.node] = "args"
           /\ Sort(v.node) = "bv"
           /\ ~parameterized[f.node] /\ ~parameterized[a.node]
           /\ ~parameterized[v.node]
           /\ CreateExp("update", <<f, a, v>>)
           /\ arrays' = IF hf.node \in arrays
                        THEN arrays \cup {Created("update", <<f, a, v>>)}
                        ELSE arrays
    /\ UNCHANGED call

\* btor_array_exp: a UF node marked as array
ArrayExp ==
    /\ "array" \in Ops /\ Idle
    /\ AddNode("uf", <<>>, 0, FALSE, FALSE, FALSE)
    /\ arrays' = arrays \cup {NewId}
    /\ UNCHANGED <<binding, call>>

\* btor_copy_exp
Copy(h) ==
    /\ "copy" \in Ops /\ Idle /\ Owned(h)
    /\ Hit(h.node, h.inv)

\* mutation: btor_release_exp frees a node that still has two references
ReleaseExpOffByOne(n) ==
    IF refs[n] > 2
    THEN /\ refs' = [refs EXCEPT ![n] = @ - 1]
         /\ UNCHANGED <<nextId, kind, e, bits, plist, utable, simplified,
                        parameterized, binding, stack, arrays>>
    ELSE FreeNode(n, <<>>)

\* btor_release_exp: drop a reference, or enter recursively_release_exp
ReleaseExp(n) ==
    IF refs[n] > 1
    THEN /\ refs' = [refs EXCEPT ![n] = @ - 1]
         /\ UNCHANGED <<nextId, kind, e, bits, plist, utable, simplified,
                        parameterized, binding, stack, arrays>>
    ELSE FreeNode(n, <<>>)

\* the client releases a handle it owns
Release(h) ==
    /\ "release" \in Ops /\ Idle /\ Owned(h)
    /\ held' = [held EXCEPT ![h] = @ - 1]
    /\ ReleaseExp(h.node)
    /\ UNCHANGED <<pending, frame, call>>

\* one iteration of the do-while loop of recursively_release_exp
ReleaseStep ==
    /\ stack # <<>>
    /\ LET cur == Head(stack)
       IN  IF refs[cur] > 1
           THEN /\ refs' = [refs EXCEPT ![cur] = @ - 1]
                /\ stack' = Tail(stack)
                /\ UNCHANGED <<nextId, kind, e, bits, plist, utable,
                               simplified, parameterized, binding, arrays>>
           ELSE FreeNode(cur, Tail(stack))
    /\ UNCHANGED <<held, pending, frame, call>>

\* btor_set_to_proxy_exp(x), with x->simplified set to a copy of the
\* rewritten term y by its caller: x leaves the unique table, is
\* disconnected, then releases the children it no longer points to
SetToProxy(x, h) ==
    /\ "proxy" \in Ops /\ Idle /\ Owned(h)
    /\ x \in Live /\ kind[x] \in ProxyKinds
    /\ simplified[x] = NoEdge /\ ~parameterized[x]
    /\ LET y == Simplify(h)
       IN  /\ y.node # x /\ x \notin ReachFrom({y.node})
           /\ Sort(y.node) = Sort(x) /\ ~parameterized[y.node]
           /\ simplified' = [simplified EXCEPT ![x] = y]
           /\ refs' = [refs EXCEPT ![y.node] = @ + 1]
    /\ utable' = RemoveUnique(x)
    /\ plist' = UnlinkParents(plist, x, e[x])
    /\ binding' = Unbind(x)
    /\ pending' = [i \in DOMAIN e[x] |-> e[x][i].node]
    /\ kind' = [kind EXCEPT ![x] = "proxy"]
    /\ e' = [e EXCEPT ![x] = <<>>]
    /\ parameterized' = [parameterized EXCEPT ![x] = FALSE]
    /\ UNCHANGED <<nextId, bits, held, stack, arrays, frame, call>>

\* the loop "btor_release_exp (btor, e[i])" of btor_set_to_proxy_exp: each
\* release runs its own recursively_release_exp to the end before the next
ProxyRelease ==
    /\ stack = <<>> /\ pending # <<>>
    /\ ReleaseExp(Head(pending))
    /\ pending' = Tail(pending)
    /\ UNCHANGED <<held, frame, call>>

\* btor_match_node_by_id: btor_copy_exp of the id-table slot of any id below
\* the table's count; a freed id's slot holds no node
MatchNodeById(id) ==
    /\ "matchid" \in Ops /\ Idle
    /\ id < nextId
    /\ MatchFreedIds \/ kind[id] # Invalid
    /\ Hit(id, FALSE)

(***************************************************************************)
(* Composite constructors.  The entry step simplifies the operands and     *)
(* checks the preconditions; each later step is one call of the C body,   *)
(* run when no release loop is pending (the callee returns first).         *)
(***************************************************************************)
State == <<nextId, kind, e, bits, refs, plist, utable, simplified,
           parameterized, binding, held, stack, pending, arrays, frame>>

\* btor_read_exp: btor_apply_exps (&e_index, 1, e_array) on an array
ReadExp(ha, hi) ==
    /\ "read" \in Ops /\ Idle /\ Owned(ha) /\ Owned(hi)
    /\ LET a == Simplify(ha)
           i == Simplify(hi)
       IN  /\ ~a.inv /\ a.node \in arrays /\ Sort(i.node) = "bv"
           /\ call' = [op |-> "read", pc |-> "args", in |-> <<a, i>>]
    /\ UNCHANGED State

\* btor_write_exp with an index and a value that are not parameterized
\* (otherwise btor_lambda_write_exp, see DerivedOps); BTOR_OPT_FUN_STORE_LAMBDAS
\* is off, its default
WriteExp(ha, hi, hv) ==
    /\ "write" \in Ops /\ Idle /\ Owned(ha) /\ Owned(hi) /\ Owned(hv)
    /\ LET a == Simplify(ha)
           i == Simplify(hi)
           v == Simplify(hv)
       IN  /\ ~a.inv /\ a.node \in arrays
           /\ Sort(i.node) = "bv" /\ Sort(v.node) = "bv"
           /\ ~parameterized[i.node] /\ ~parameterized[v.node]
           /\ call' = [op |-> "write", pc |-> "args", in |-> <<a, i, v>>]
    /\ UNCHANGED State

\* btor_args_exp (&e_index, 1) into the local _args / args
CallArgs ==
    /\ call.pc = "args" /\ Quiet
    /\ CreateExp("args", <<Simplify(call.in[2])>>)
    /\ call' = [call EXCEPT !.pc = IF call.op = "read" THEN "apply" ELSE "update"]
    /\ UNCHANGED arrays

\* btor_apply_exp (btor, fun, _args) of btor_apply_exps
CallApply ==
    /\ call.pc = "apply" /\ Quiet
    /\ CreateExp("apply", <<call.in[1], Simplify(frame[1])>>)
    /\ call' = [call EXCEPT !.pc = "release", !.in = <<>>]
    /\ UNCHANGED arrays

\* btor_update_exp (btor, e_array, args, e_value) of btor_write_exp, whose
\* result both btor_update_exp and btor_write_exp mark as array
CallUpdate ==
    /\ call.pc = "update" /\ Quiet
    /\ LET es == <<call.in[1], Simplify(frame[1]), call.in[3]>>
       IN  /\ CreateExp("update", es)
           /\ arrays' = arrays \cup {Created("update", es)}
    /\ call' = [call EXCEPT !.pc = "release", !.in = <<>>]

\* mutation: the temporary args node is dropped without btor_release_exp
CallReleaseLeak ==
    /\ call.pc = "release" /\ Quiet
    /\ held[frame[2]] < MaxHeld
    /\ held' = [held EXCEPT ![frame[2]] = @ + 1]
    /\ frame' = <<>>
    /\ call' = NoCall
    /\ UNCHANGED <<nextId, kind, e, bits, refs, plist, utable, simplified,
                   parameterized, binding, stack, pending, arrays>>

\* btor_release_exp of the temporary args node, then the return of the
\* apply or update node to the client
CallRelease ==
    /\ call.pc = "release" /\ Quiet
    /\ ReleaseExp(frame[1].node)
    /\ held[frame[2]] < MaxHeld
    /\ held' = [held EXCEPT ![frame[2]] = @ + 1]
    /\ frame' = <<>>
    /\ call' = NoCall
    /\ UNCHANGED pending

CallStep == CallArgs \/ CallApply \/ CallUpdate \/ CallRelease

\* the handles the client owns, among which it picks the operands of a call
Handles == {h \in Edges : held[h] > 0}

Next ==
    \/ /\ \/ \E b \in 0..NotBv(0) : ConstExp(b)
          \/ VarExp \/ ParamExp \/ UfExp
          \/ \E h \in Handles : NotExp(h) \/ ArgsExp(h) \/ Copy(h)
          \/ \E k \in {"and", "beq", "ult"}, h0, h1 \in Handles : BinExp(k, h0, h1)
          \/ \E hf, ha \in Handles : ApplyExp(hf, ha)
          \/ \E hp, hb \in Handles : LambdaExp(hp, hb)
          \/ \E id \in Ids : MatchNodeById(id)
       /\ UNCHANGED <<arrays, call>>
    \/ ArrayExp
    \/ \E h0, h1, h2 \in Handles : CondExp(h0, h1, h2) \/ UpdateExp(h0, h1, h2)
    \/ \E h \in Handles : Release(h)
    \/ \E x \in Ids, h \in Handles : SetToProxy(x, h)
    \/ "read" \in Ops /\ \E ha, hi \in Handles : ReadExp(ha, hi)
    \/ "write" \in Ops /\ \E ha, hi, hv \in Handles : WriteExp(ha, hi, hv)
    \/ CallStep
    \/ ReleaseStep
    \/ ProxyRelease

\* the release loops are plain loops of a single thread, and a composite
\* constructor runs its body to the end: once entered they keep executing
Spec == Init /\ [][Next]_vars

(***************************************************************************)
(* Properties.                                                             *)
(***************************************************************************)
\* references to n held by the nodes, the client and the release loops
InEdges(n) == Cardinality({<<p, i>> \in Live \X (1..3) :
                              i \in DOMAIN e[p] /\ e[p][i].node = n})
SimpTo(n)  == Cardinality({p \in Ids : simplified[p] # NoEdge
                                       /\ simplified[p].node = n})
HeldOn(n)  == held[Edge(n, FALSE)] + held[Edge(n, TRUE)]
Occ(s, n)  == Cardinality({i \in DOMAIN s : s[i] = n})
InFrame(n) == Cardinality({i \in DOMAIN frame : frame[i].node = n})
HeldNodes  == {ed.node : ed \in {h \in Edges : held[h] > 0}}

\* Reference conservation: the refs of every live node is exactly the number
\* of child edges, simplified pointers, client handles and temporaries of a
\* running composite constructor that point to it, plus its pending entries
\* on the release stacks.  A lookup hit that forgets inc_exp_ref_counter, a
\* temporary never released, or a release path that decrements twice,
\* breaks it.
RefConservation ==
    \A n \in Live :
        refs[n] = InEdges(n) + SimpTo(n) + HeldOn(n) + InFrame(n)
                  + Occ(stack, n) + Occ(pending, n)

\* No dangling pointer: every child edge, simplified pointer, client handle,
\* temporary, operand of a running composite constructor and release-stack
\* entry refers to a node that recursively_release_exp has not freed
\* (really_deallocate_exp clears the id-table slot).
NoDangling ==
    /\ \A p \in Live : Succ(p) \subseteq Live
    /\ HeldNodes \subseteq Live
    /\ \A i \in DOMAIN frame : frame[i].node \in Live
    /\ \A i \in DOMAIN call.in : call.in[i].node \in Live
    /\ \A i \in DOMAIN stack : stack[i] \in Live
    /\ \A i \in DOMAIN pending : pending[i] \in Live

\* No leak: between public calls every live node is reachable from a handle
\* the client holds, over child and simplified edges (recursively_release_exp
\* must push both the children and the simplified target).
NoGarbage == Idle => Live \subseteq ReachFrom(HeldNodes)

\* Parent lists (connect_child_exp / disconnect_child_exp): the list of n
\* holds each <<parent, pos>> once, exactly for the live parents whose child
\* pos is n.
ParentListExact ==
    \A n \in Ids :
        /\ IsInjective(plist[n])
        /\ ToSet(plist[n]) = {<<p, i - 1>> : <<p, i>> \in
                                {<<q, j>> \in Live \X (1..3) :
                                    j \in DOMAIN e[q] /\ e[q][j].node = n}}

\* Parent list layout: the regular parents come first, newest first, and
\* the apply parents after them, oldest first (connect_child_exp inserts an
\* apply at the tail), the layout btor's apply-parent iterators rely on.
ParentListOrder ==
    \A n \in Ids :
        LET pl == plist[n]
            L  == Len(pl)
        IN  \E k \in 0..L :
                /\ \A i \in 1..k : kind[pl[i][1]] # "apply"
                /\ \A i \in k+1..L : kind[pl[i][1]] = "apply"
                /\ \A i \in 1..k-1 : pl[i][1] >= pl[i + 1][1]
                /\ \A i \in k+1..L-1 : pl[i][1] < pl[i + 1][1]

\* Param bindings: every live lambda is the binding lambda of its param, and
\* a param's binding is a live lambda over that param; disconnect_child_exp
\* must clear a binding when its lambda is freed or turned into a proxy.
BindingConsistent ==
    /\ \A l \in Live : kind[l] = "lambda" => binding[e[l][1].node] = l
    /\ \A p \in Ids : binding[p] # NoNode =>
            /\ binding[p] \in Live /\ kind[binding[p]] = "lambda"
            /\ e[binding[p]][1].node = p

\* The unique table holds exactly the live hash-consed nodes: a freed node
\* or a proxy left in it would be returned by a later lookup.
UniqueTableExact == utable = {n \in Live : kind[n] \in UniqueKinds}

\* Reference alpha-equivalence: edge a under binder x denotes the same term
\* as edge b under binder y.  Closed subterms are equal iff they are the same
\* node; commutative operands and the inverted bv-equality match either way.
RECURSIVE TermEq(_, _, _, _)
TermEq(a, b, x, y) ==
    LET m == a.node
        n == b.node
    IN  /\ a.inv = b.inv
        /\ IF m = x \/ n = y THEN m = x /\ n = y
           ELSE IF ~parameterized[m] \/ ~parameterized[n] \/ kind[m] = "param"
           THEN m = n
           ELSE /\ kind[m] = kind[n] /\ Len(e[m]) = Len(e[n])
                /\ \/ \A i \in DOMAIN e[m] : TermEq(e[m][i], e[n][i], x, y)
                   \/ kind[m] \in Commutative
                      /\ TermEq(e[m][1], e[n][2], x, y)
                      /\ TermEq(e[m][2], e[n][1], x, y)
                   \/ kind[m] = "beq"
                      /\ \A i \in 1..2 : TermEq(e[m][i], Invert(e[n][i]), x, y)

LambdaEq(m, n) == TermEq(e[m][2], e[n][2], e[m][1].node, e[n][1].node)

\* the two operands of a binary node in the other order
Swapped(s) == <<s[2], s[1]>>

\* both operands inverted, as in (= ~a ~b) for (= a b)
Flipped(s) == [i \in 1..2 |-> Invert(s[i])]

\* two nodes that denote the same term, as far as find_exp must tell: a
\* constant and its complement, a commutative node and its operands swapped
\* (unless both operands are one node, which is_sorted_bv_exp accepts in
\* either order), an equality and that of its inverted operands, closed
\* lambdas up to renaming their param
SameTerm(m, n) ==
    /\ kind[m] = kind[n]
    /\ CASE kind[m] = "const"  -> bits[m] \in {bits[n], NotBv(bits[n])}
         [] kind[m] = "lambda" ->
                \/ e[m] = e[n]
                \/ ~parameterized[m] /\ ~parameterized[n] /\ LambdaEq(m, n)
         [] OTHER ->
                LET swap == kind[m] \in Commutative
                            /\ e[n][1].node # e[n][2].node
                IN  \/ e[m] = e[n]
                    \/ swap /\ e[m] = Swapped(e[n])
                    \/ kind[m] = "beq"
                       /\ \/ e[m] = Flipped(e[n])
                          \/ swap /\ e[m] = Flipped(Swapped(e[n]))

\* Hash-consing: no two nodes in the unique table are the same term up to
\* the normalisation btor_const_exp (odd constants stored as their
\* complement), sort_bv_exp (commutative operands in id order) and
\* find_bv_exp (the bv-equality inversion rule) and find_lambda_exp
\* (alpha-renaming of closed lambdas) apply; every constructor looks up
\* before it allocates.
HashConsUnique ==
    \A m, n \in utable : m # n => ~SameTerm(m, n)

(***************************************************************************)
(* What spec.md claims beyond the code's own normalisation (checked by the *)
(* violation runs).                                                        *)
(***************************************************************************)
\* Section 3.4 (6): two lambdas share an id iff their bodies coincide after
\* renaming the bound param, parameterized lambdas included.
AlphaShared ==
    \A m, n \in utable :
        m # n /\ kind[m] = "lambda" /\ kind[n] = "lambda"
            => ~LambdaEq(m, n)

====
