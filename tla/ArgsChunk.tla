------------------------------ MODULE ArgsChunk ------------------------------
(***************************************************************************)
(* btor_args_exp (src/src/btorexp.c): the split of argc arguments into a  *)
(* right-associated chain of args nodes of at most ARGS_MAX_NUM_CHILDREN   *)
(* children each.  The loop walks the arguments from the last to the      *)
(* first, filling the buffer e[] from its top; whenever the buffer is full *)
(* an args node is created (create_exp), put into the top slot of the next *)
(* buffer, and the node created before it is released.                     *)
(*                                                                         *)
(* Arguments are the distinct positions 0..argc-1, so create_exp never     *)
(* finds an existing node and each call creates the next node of the      *)
(* chain.  refs counts the references to each created node.               *)
(***************************************************************************)
EXTENDS Naturals, Sequences, SequencesExt

CONSTANT MaxArgc   \* the largest argc tried

ASSUME MaxArgc \in Nat \ {0}

ARGS_MAX_NUM_CHILDREN == 3

\* a buffer slot: an argument position, a created node, or unset
Arg(k)  == [arg |-> k]
Link(j) == [node |-> j]
Unset   == [unset |-> TRUE]

VARIABLES
    argc,    \* the number of arguments of this call
    i,       \* the loop index, from argc - 1 down to 0
    cntArgs, \* cnt_args: the next free slot of e[], filled downwards
    curArgc, \* cur_argc: the arity of the args node being filled
    buf,     \* e[0 .. ARGS_MAX_NUM_CHILDREN - 1]
    nodes,   \* the created args nodes in creation order, each its children
    refs,    \* refs of each created node
    last     \* the node created last (0 before the first)

vars == <<argc, i, cntArgs, curArgc, buf, nodes, refs, last>>

Slots == 0..ARGS_MAX_NUM_CHILDREN - 1
Done  == i < 0

TypeOK ==
    /\ argc \in 1..MaxArgc
    /\ i \in -1..MaxArgc - 1
    /\ cntArgs \in -1..ARGS_MAX_NUM_CHILDREN - 1
    /\ curArgc \in 1..ARGS_MAX_NUM_CHILDREN
    /\ buf \in [Slots -> {Unset} \cup {Arg(k) : k \in 0..MaxArgc - 1}
                         \cup {Link(j) : j \in 1..MaxArgc}]
    /\ nodes \in Seq(Seq([arg : 0..MaxArgc - 1] \cup [node : 1..MaxArgc]))
    /\ refs \in Seq(Nat)
    /\ last \in 0..MaxArgc

(***************************************************************************)
(* The prologue: how many args nodes, and the arity of the last one.       *)
(***************************************************************************)
\* mutation: an extra args node whenever the division leaves a remainder
NumArgsRemAny(n) ==
    IF n <= ARGS_MAX_NUM_CHILDREN THEN 1
    ELSE n \div (ARGS_MAX_NUM_CHILDREN - 1)
         + (IF n % (ARGS_MAX_NUM_CHILDREN - 1) > 0 THEN 1 ELSE 0)

\* num_args: one node if the arguments fit, else argc / 2, plus one more
\* when the remainder rem_free exceeds one
NumArgs(n) ==
    IF n <= ARGS_MAX_NUM_CHILDREN THEN 1
    ELSE n \div (ARGS_MAX_NUM_CHILDREN - 1)
         + (IF n % (ARGS_MAX_NUM_CHILDREN - 1) > 1 THEN 1 ELSE 0)

\* mutation: the last node's arity computed with num_args full nodes
FirstArgcNoDec(n) ==
    IF n <= ARGS_MAX_NUM_CHILDREN THEN n
    ELSE n - NumArgs(n) * (ARGS_MAX_NUM_CHILDREN - 1)

\* cur_argc: the arguments left for the last node of the chain
FirstArgc(n) ==
    IF n <= ARGS_MAX_NUM_CHILDREN THEN n
    ELSE n - (NumArgs(n) - 1) * (ARGS_MAX_NUM_CHILDREN - 1)

Init ==
    /\ argc \in 1..MaxArgc
    /\ curArgc = FirstArgc(argc)
    /\ cntArgs = curArgc - 1
    /\ i = argc - 1
    /\ buf = [k \in Slots |-> Unset]
    /\ nodes = <<>>
    /\ refs = <<>>
    /\ last = 0

(***************************************************************************)
(* One iteration of the loop.                                              *)
(***************************************************************************)
\* create_exp (BTOR_ARGS_NODE, cur_argc, e): a new node whose children, each
\* connected with a reference, are e[0 .. cur_argc - 1]
NewArgs(b, n) == [k \in 1..n |-> b[k - 1]]

\* mutation: the next buffer puts the created node into e[0]
NextBufAtFront(b, j) == [b EXCEPT ![0] = Link(j)]

\* "init for next iteration": the created node goes into the top slot
NextBuf(b, j) == [b EXCEPT ![ARGS_MAX_NUM_CHILDREN - 1] = Link(j)]

\* mutation: the previous node is not released
ReleaseLastNever(r, l) == r

\* btor_release_exp (btor, last) once it is a child of the new node
ReleaseLast(r, l) == IF l # 0 THEN [r EXCEPT ![l] = @ - 1] ELSE r

Step ==
    /\ ~Done
    /\ LET b1 == [buf EXCEPT ![cntArgs] = Arg(i)]
       IN  IF cntArgs - 1 >= 0
           THEN /\ buf' = b1
                /\ cntArgs' = cntArgs - 1
                /\ UNCHANGED <<curArgc, nodes, refs, last>>
           ELSE LET kids == NewArgs(b1, curArgc)
                    j    == Len(nodes) + 1
                    r1   == [k \in 1..j |->
                               IF k = j THEN 1
                               ELSE refs[k] + (IF Link(k) \in ToSet(kids)
                                               THEN 1 ELSE 0)]
                IN  /\ nodes' = Append(nodes, kids)
                    /\ refs' = ReleaseLast(r1, last)
                    /\ curArgc' = ARGS_MAX_NUM_CHILDREN
                    /\ buf' = NextBuf(b1, j)
                    /\ cntArgs' = ARGS_MAX_NUM_CHILDREN - 2
                    /\ last' = j
    /\ i' = i - 1
    /\ UNCHANGED argc

\* the call returns once every argument is placed
Next == Step

Spec == Init /\ [][Next]_vars

(***************************************************************************)
(* Properties, checked once the call has returned.                         *)
(***************************************************************************)
Root == Len(nodes)

\* the arguments below node j, left to right
RECURSIVE Flatten(_)
Flatten(j) ==
    FoldLeft(LAMBDA acc, c : IF "arg" \in DOMAIN c THEN Append(acc, c.arg)
                             ELSE IF "node" \in DOMAIN c THEN acc \o Flatten(c.node)
                             ELSE acc,
             <<>>, nodes[j])

\* The chain returned (the last node created) lists the arguments in their
\* order, each once, and a link to another args node is only ever the last
\* child of a full node (new_args_exp_node asserts it sits at i == 2).
ChainFlattens ==
    Done =>
        /\ Flatten(Root) = [k \in 1..argc |-> k - 1]
        /\ \A j \in 1..Len(nodes) : \A k \in DOMAIN nodes[j] :
               "node" \in DOMAIN nodes[j][k] =>
                   k = ARGS_MAX_NUM_CHILDREN /\ Len(nodes[j]) = k

\* The chain is as short as it can be: every node but the terminal one holds
\* two arguments and a link, so k nodes hold at most 2k + 1 arguments.
ChainMinimal ==
    Done => Len(nodes) = IF argc <= ARGS_MAX_NUM_CHILDREN THEN 1
                         ELSE ((argc - 1) \div 2) + ((argc - 1) % 2)

\* Ownership: the caller owns the one reference to the root, every other
\* node of the chain is owned by its parent alone (btor_release_exp of the
\* previous node after it has been connected).
ChainOwnership ==
    Done => \A j \in 1..Len(nodes) : refs[j] = 1

\* Section 4.5.5 of spec.md: the terminal args node of a split chain
\* "carries the remaining argc mod 2 + 1 children".
TerminalAsSpecified ==
    Done /\ argc > ARGS_MAX_NUM_CHILDREN =>
        Len(nodes[1]) = (argc % 2) + 1

=============================================================================
