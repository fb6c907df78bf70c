------------------------------ MODULE DerivedOps ------------------------------
(***************************************************************************)
(* The derived constructors of src/src/btorexp.c (btor_or_exp ..           *)
(* btor_smod_exp, btor_inc_exp, btor_dec_exp): every one of them builds    *)
(* its result from the primitive node kinds (and, eq, ult, add, mul, udiv, *)
(* urem, sll, srl, slice, concat, cond) and edge inversion.  Here a term   *)
(* is its value, a natural below 2^w for width w, and each constructor is  *)
(* the composition the code builds, with the code's names.  The properties *)
(* compare the value of every composition with the arithmetic meaning of  *)
(* the operator (two's complement, SMT-LIB division by zero) over all      *)
(* operands of every width up to MaxWidth.                                 *)
(*                                                                         *)
(* Reference counting of the intermediate nodes is the business of         *)
(* ExpGraph; the model keeps only the values.                              *)
(***************************************************************************)
EXTENDS Naturals, Integers, Sequences, SequencesExt, Bitwise

CONSTANTS
    MaxWidth,   \* the widest operand tried
    MaxExt,     \* the widest extension tried by uext and sext
    MaxArrayW   \* the widest index and element of the arrays tried

ASSUME MaxWidth \in Nat \ {0} /\ MaxExt \in Nat /\ MaxArrayW \in Nat \ {0}

BV(w) == 0..2^w - 1

(***************************************************************************)
(* Primitive node semantics (the bit-vector library, btorbv.c, is not part *)
(* of this repository; these follow spec.md section 4.2 and SMT-LIB).      *)
(***************************************************************************)
Ones(w)            == 2^w - 1
Inv(w, a)          == Ones(w) - a                    \* BTOR_INVERT_NODE
BvAnd(a, b)        == a & b
BvEq(a, b)         == IF a = b THEN 1 ELSE 0
BvUlt(a, b)        == IF a < b THEN 1 ELSE 0
BvAdd(w, a, b)     == (a + b) % 2^w
BvMul(w, a, b)     == (a * b) % 2^w
BvUdiv(w, a, b)    == IF b = 0 THEN Ones(w) ELSE a \div b
BvUrem(a, b)       == IF b = 0 THEN a ELSE a % b
BvSll(w, a, s)     == (a * 2^s) % 2^w
BvSrl(a, s)        == a \div 2^s
BvSlice(a, u, l)   == (a \div 2^l) % 2^(u - l + 1)
BvConcat(a, b, wb) == a * 2^wb + b
BvCond(c, a, b)    == IF c = 1 THEN a ELSE b

Bit(a, i) == BvSlice(a, i, i)

\* the indices a, a+1, .., b of a counting loop
LoopSeq(a, b) == [k \in 1..(b - a + 1) |-> a + k - 1]

(***************************************************************************)
(* Constants: btor_zero_exp, btor_one_exp, btor_ones_exp, int_min_exp.     *)
(***************************************************************************)
IntMinExp(w) == 2^(w - 1)

(***************************************************************************)
(* Boolean connectives and arithmetic by inversion.                        *)
(***************************************************************************)
OrExp(w, e0, e1)   == Inv(w, BvAnd(Inv(w, e0), Inv(w, e1)))
XorExp(w, e0, e1)  == BvAnd(OrExp(w, e0, e1), Inv(w, BvAnd(e0, e1)))
XnorExp(w, e0, e1) == Inv(w, XorExp(w, e0, e1))
NandExp(w, e0, e1) == Inv(w, BvAnd(e0, e1))
NorExp(w, e0, e1)  == Inv(w, OrExp(w, e0, e1))
ImpliesExp(e0, e1) == Inv(1, BvAnd(e0, Inv(1, e1)))
IffExp(e0, e1)     == BvEq(e0, e1)
NeExp(e0, e1)      == Inv(1, BvEq(e0, e1))
NegExp(w, e)       == BvAdd(w, Inv(w, e), 1)
SubExp(w, e0, e1)  == BvAdd(w, e0, NegExp(w, e1))
IncExp(w, e)       == BvAdd(w, e, 1)
DecExp(w, e)       == SubExp(w, e, 1)

(***************************************************************************)
(* Reductions and extensions.                                              *)
(***************************************************************************)
RedorExp(w, e)  == Inv(1, BvEq(e, 0))

\* mutation: the loop starts at bit 0 again
RedxorExpFromZero(w, e) ==
    FoldLeft(LAMBDA r, i : XorExp(1, r, Bit(e, i)), Bit(e, 0), LoopSeq(0, w - 1))

\* result = slice (e, 0, 0); then xor with slice (e, i, i) for i = 1 .. w-1
RedxorExp(w, e) ==
    FoldLeft(LAMBDA r, i : XorExp(1, r, Bit(e, i)), Bit(e, 0), LoopSeq(1, w - 1))

RedandExp(w, e) == BvEq(e, Ones(w))

\* btor_uext_exp (exp, width): concat (zero (width), exp), or a copy
UextExp(w, e, n) == IF n = 0 THEN e ELSE BvConcat(0, e, w)

\* mutation: the sign fill one bit too wide
SextExpWideOnes(w, e, n) ==
    IF n = 0 THEN e
    ELSE BvConcat(BvCond(Bit(e, w - 1), Ones(n + 1), 0), e, w)

\* btor_sext_exp: concat (cond (sign, ones (width), zero (width)), exp)
SextExp(w, e, n) ==
    IF n = 0 THEN e
    ELSE BvConcat(BvCond(Bit(e, w - 1), Ones(n), 0), e, w)

(***************************************************************************)
(* Comparisons.                                                            *)
(***************************************************************************)
\* mutation: determined_by_sign with the signs swapped
SltExpSignSwap(w, e0, e1) ==
    IF w = 1 THEN BvAnd(e0, Inv(1, e1))
    ELSE LET s0 == Bit(e0, w - 1)
             s1 == Bit(e1, w - 1)
             ult == BvUlt(BvSlice(e0, w - 2, 0), BvSlice(e1, w - 2, 0))
             determined_by_sign == BvAnd(Inv(1, s0), s1)
             eq_sign == BvAnd(Inv(1, determined_by_sign), Inv(1, BvAnd(s0, Inv(1, s1))))
         IN  OrExp(1, determined_by_sign, BvAnd(eq_sign, ult))

\* width 1: e0 & ~e1; otherwise decided by the signs, or by ult of the rest
SltExp(w, e0, e1) ==
    IF w = 1 THEN BvAnd(e0, Inv(1, e1))
    ELSE LET s0 == Bit(e0, w - 1)
             s1 == Bit(e1, w - 1)
             ult == BvUlt(BvSlice(e0, w - 2, 0), BvSlice(e1, w - 2, 0))
             determined_by_sign == BvAnd(s0, Inv(1, s1))
             l == determined_by_sign
             r == BvAnd(Inv(1, s0), s1)
             eq_sign == BvAnd(Inv(1, l), Inv(1, r))
         IN  OrExp(1, determined_by_sign, BvAnd(eq_sign, ult))

UlteExp(e0, e1)    == Inv(1, BvUlt(e1, e0))
SlteExp(w, e0, e1) == Inv(1, SltExp(w, e1, e0))
UgtExp(e0, e1)     == BvUlt(e1, e0)
SgtExp(w, e0, e1)  == SltExp(w, e1, e0)
UgteExp(e0, e1)    == Inv(1, BvUlt(e0, e1))
SgteExp(w, e0, e1) == Inv(1, SltExp(w, e0, e1))

(***************************************************************************)
(* Overflow predicates.                                                    *)
(***************************************************************************)
UaddoExp(w, e0, e1) ==
    Bit(BvAdd(w + 1, UextExp(w, e0, 1), UextExp(w, e1, 1)), w)

SaddoExp(w, e0, e1) ==
    LET sign_e1 == Bit(e0, w - 1)
        sign_e2 == Bit(e1, w - 1)
        sign_result == Bit(BvAdd(w, e0, e1), w - 1)
        or1 == BvAnd(BvAnd(sign_e1, sign_e2), Inv(1, sign_result))
        or2 == BvAnd(BvAnd(Inv(1, sign_e1), Inv(1, sign_e2)), sign_result)
    IN  OrExp(1, or1, or2)

\* mutation: the loop pairs slice (e0, i) with temps_e2[i]
UmuloExpSliceOffByOne(w, e0, e1) ==
    IF w = 1 THEN 0
    ELSE LET temps_e2[i \in 0..w - 2] ==
                 IF i = 0 THEN Bit(e1, w - 1)
                 ELSE OrExp(1, temps_e2[i - 1], Bit(e1, w - 1 - i))
             first == BvAnd(Bit(e0, 1), temps_e2[0])
             ors == FoldLeft(LAMBDA r, i :
                                 OrExp(1, r, BvAnd(Bit(e0, i), temps_e2[i])),
                             first, LoopSeq(1, w - 2))
             mul == BvMul(w + 1, UextExp(w, e0, 1), UextExp(w, e1, 1))
         IN  OrExp(1, ors, Bit(mul, w))

\* temps_e2[i]: some bit of e1 from w-1 down to w-1-i is set; the result
\* ors slice (e0, i+1) & temps_e2[i] with bit w of the widened product
UmuloExp(w, e0, e1) ==
    IF w = 1 THEN 0
    ELSE LET temps_e2[i \in 0..w - 2] ==
                 IF i = 0 THEN Bit(e1, w - 1)
                 ELSE OrExp(1, temps_e2[i - 1], Bit(e1, w - 1 - i))
             first == BvAnd(Bit(e0, 1), temps_e2[0])
             ors == FoldLeft(LAMBDA r, i :
                                 OrExp(1, r, BvAnd(Bit(e0, i + 1), temps_e2[i])),
                             first, LoopSeq(1, w - 2))
             mul == BvMul(w + 1, UextExp(w, e0, 1), UextExp(w, e1, 1))
         IN  OrExp(1, ors, Bit(mul, w))

\* the same scheme on the operands xor-ed with their sign, for w > 2
SmuloExp(w, e0, e1) ==
    LET mul == BvMul(w + 1, SextExp(w, e0, 1), SextExp(w, e1, 1))
        top == XorExp(1, Bit(mul, w), Bit(mul, w - 1))
    IN
    IF w = 1 THEN BvAnd(e0, e1)
    ELSE IF w = 2 THEN top
    ELSE LET xor_sign_e1 == XorExp(w, e0, SextExp(1, Bit(e0, w - 1), w - 1))
             xor_sign_e2 == XorExp(w, e1, SextExp(1, Bit(e1, w - 1), w - 1))
             temps_e2[i \in 0..w - 3] ==
                 IF i = 0 THEN Bit(xor_sign_e2, w - 2)
                 ELSE OrExp(1, temps_e2[i - 1], Bit(xor_sign_e2, w - 2 - i))
             first == BvAnd(Bit(xor_sign_e1, 1), temps_e2[0])
             ors == FoldLeft(LAMBDA r, i :
                                 OrExp(1, r, BvAnd(Bit(xor_sign_e1, i + 1),
                                                   temps_e2[i])),
                             first, LoopSeq(1, w - 3))
         IN  OrExp(1, ors, top)

\* mutation: the + 1 of the two's complement is missing
UsuboExpNoInc(w, e0, e1) ==
    LET add2 == BvAdd(w + 1, UextExp(w, e0, 1), UextExp(w, Inv(w, e1), 1))
    IN  Inv(1, Bit(add2, w))

\* ~slice (uext (e0) + (uext (~e1) + 1), w, w)
UsuboExp(w, e0, e1) ==
    LET add1 == BvAdd(w + 1, UextExp(w, Inv(w, e1), 1), 1)
        add2 == BvAdd(w + 1, UextExp(w, e0, 1), add1)
    IN  Inv(1, Bit(add2, w))

SsuboExp(w, e0, e1) ==
    LET sign_e1 == Bit(e0, w - 1)
        sign_e2 == Bit(e1, w - 1)
        sign_result == Bit(SubExp(w, e0, e1), w - 1)
        or1 == BvAnd(BvAnd(Inv(1, sign_e1), sign_e2), sign_result)
        or2 == BvAnd(BvAnd(sign_e1, Inv(1, sign_e2)), Inv(1, sign_result))
    IN  OrExp(1, or1, or2)

SdivoExp(w, e0, e1) ==
    BvAnd(BvEq(e0, IntMinExp(w)), BvEq(e1, Ones(w)))

(***************************************************************************)
(* Shifts by a log2(w)-bit amount.                                         *)
(***************************************************************************)
Log2(w) == CHOOSE k \in 0..w : 2^k = w

SraExp(w, e0, e1) ==
    BvCond(Bit(e0, w - 1), Inv(w, BvSrl(Inv(w, e0), e1)), BvSrl(e0, e1))

\* mutation: the right shift by the amount itself, not its negation
RolExpNoNeg(w, e0, e1) ==
    OrExp(w, BvSll(w, e0, e1), BvSrl(e0, e1))

RolExp(w, e0, e1) ==
    OrExp(w, BvSll(w, e0, e1), BvSrl(e0, NegExp(Log2(w), e1)))

RorExp(w, e0, e1) ==
    OrExp(w, BvSrl(e0, e1), BvSll(w, e0, NegExp(Log2(w), e1)))

(***************************************************************************)
(* Signed division: normalise the signs around udiv / urem.                *)
(***************************************************************************)
SdivExp(w, e0, e1) ==
    IF w = 1 THEN Inv(1, BvAnd(Inv(1, e0), e1))
    ELSE LET sign_e1 == Bit(e0, w - 1)
             sign_e2 == Bit(e1, w - 1)
             udiv == BvUdiv(w, BvCond(sign_e1, NegExp(w, e0), e0),
                               BvCond(sign_e2, NegExp(w, e1), e1))
         IN  BvCond(XorExp(1, sign_e1, sign_e2), NegExp(w, udiv), udiv)

SremExp(w, e0, e1) ==
    IF w = 1 THEN BvAnd(e0, Inv(1, e1))
    ELSE LET sign_e0 == Bit(e0, w - 1)
             sign_e1 == Bit(e1, w - 1)
             urem == BvUrem(BvCond(sign_e0, NegExp(w, e0), e0),
                            BvCond(sign_e1, NegExp(w, e1), e1))
         IN  BvCond(sign_e0, NegExp(w, urem), urem)

\* mutation: the mixed-sign cases add e1 even to a zero remainder
SmodExpNoZeroGuard(w, e0, e1) ==
    LET sign_e0 == Bit(e0, w - 1)
        sign_e1 == Bit(e1, w - 1)
        e0_and_e1         == BvAnd(Inv(1, sign_e0), Inv(1, sign_e1))
        e0_and_neg_e1     == BvAnd(Inv(1, sign_e0), sign_e1)
        neg_e0_and_e1     == BvAnd(sign_e0, Inv(1, sign_e1))
        neg_e0_and_neg_e1 == BvAnd(sign_e0, sign_e1)
        urem == BvUrem(BvCond(sign_e0, NegExp(w, e0), e0),
                       BvCond(sign_e1, NegExp(w, e1), e1))
        urem_zero == BvEq(urem, 0)
        neg_urem == NegExp(w, urem)
        gadd1 == BvAdd(w, neg_urem, e1)
        gadd2 == BvAdd(w, urem, e1)
        cond_case1 == BvCond(e0_and_e1, urem, 0)
        cond_case2 == BvCond(neg_e0_and_e1, gadd1, 0)
        cond_case3 == BvCond(e0_and_neg_e1, gadd2, 0)
        cond_case4 == BvCond(neg_e0_and_neg_e1, neg_urem, 0)
    IN  OrExp(w, OrExp(w, cond_case1, cond_case2),
                 OrExp(w, cond_case3, cond_case4))

\* four sign cases, each guarded, or-ed together; a zero remainder is kept
SmodExp(w, e0, e1) ==
    LET sign_e0 == Bit(e0, w - 1)
        sign_e1 == Bit(e1, w - 1)
        e0_and_e1         == BvAnd(Inv(1, sign_e0), Inv(1, sign_e1))
        e0_and_neg_e1     == BvAnd(Inv(1, sign_e0), sign_e1)
        neg_e0_and_e1     == BvAnd(sign_e0, Inv(1, sign_e1))
        neg_e0_and_neg_e1 == BvAnd(sign_e0, sign_e1)
        urem == BvUrem(BvCond(sign_e0, NegExp(w, e0), e0),
                       BvCond(sign_e1, NegExp(w, e1), e1))
        urem_zero == BvEq(urem, 0)
        neg_urem == NegExp(w, urem)
        gadd1 == BvCond(urem_zero, 0, BvAdd(w, neg_urem, e1))
        gadd2 == BvCond(urem_zero, 0, BvAdd(w, urem, e1))
        cond_case1 == BvCond(e0_and_e1, urem, 0)
        cond_case2 == BvCond(neg_e0_and_e1, gadd1, 0)
        cond_case3 == BvCond(e0_and_neg_e1, gadd2, 0)
        cond_case4 == BvCond(neg_e0_and_neg_e1, neg_urem, 0)
    IN  OrExp(w, OrExp(w, cond_case1, cond_case2),
                 OrExp(w, cond_case3, cond_case4))

(***************************************************************************)
(* Arrays and function conditionals.  A function of one argument (an      *)
(* array, a uf or a lambda) is its value, a function from BV(iw) to the   *)
(* element values; a lambda is the function of its parameter.             *)
(***************************************************************************)
\* btor_apply_exps with one argument: an args node of the index, the apply
\* of fun to it
ApplyExps(fun, i) == fun[i]

\* btor_read_exp
ReadExp(a, i) == ApplyExps(a, i)

\* mutation: the value is the else branch and the old read the if branch
LambdaWriteExpSwapped(iw, a, i, v) ==
    [param \in BV(iw) |-> BvCond(BvEq(param, i), ReadExp(a, param), v)]

\* btor_lambda_write_exp: lambda param . cond (eq (param, index), value,
\* read (array, param)); static_rho and is_array carry no value
LambdaWriteExp(iw, a, i, v) ==
    [param \in BV(iw) |-> BvCond(BvEq(param, i), v, ReadExp(a, param))]

\* the UPDATE node: fun with the value at args (its meaning is given by
\* the beta reducer, not part of this repository)
UpdateNode(a, i, v) == [a EXCEPT ![i] = v]

\* btor_update_exp: a lambda write when one operand is parameterized (pz),
\* an UPDATE node otherwise
UpdateExp(iw, a, i, v, pz) ==
    IF pz THEN LambdaWriteExp(iw, a, i, v) ELSE UpdateNode(a, i, v)

\* btor_write_exp: a lambda write with BTOR_OPT_FUN_STORE_LAMBDAS or a
\* parameterized index or value (lam), else update on the args of the index
WriteExp(iw, a, i, v, lam) ==
    IF lam THEN LambdaWriteExp(iw, a, i, v) ELSE UpdateExp(iw, a, i, v, FALSE)

\* mutation: the else branch applies the if function
CondExpElseFromIf(iw, c, f, g, pz) ==
    IF pz THEN [p \in BV(iw) |-> BvCond(c, ApplyExps(f, p), ApplyExps(f, p))]
    ELSE BvCond(c, f, g)

\* btor_cond_exp_node on functions: with a parameterized branch, the lambda
\* (btor_fun_exp) over fresh params of cond (c, apply (f, p), apply (g, p));
\* otherwise a COND node of the two functions
CondExp(iw, c, f, g, pz) ==
    IF pz THEN [p \in BV(iw) |-> BvCond(c, ApplyExps(f, p), ApplyExps(g, p))]
    ELSE BvCond(c, f, g)

(***************************************************************************)
(* One call of a derived constructor on two operands.                      *)
(***************************************************************************)
UnaryOps     == {"neg", "inc", "dec", "redor", "redxor", "redand"}
ExtOps       == {"uext", "sext"}
ShiftOps     == {"sra", "rol", "ror"}
BoolOnlyOps  == {"implies", "iff"}
LogicOps     == {"or", "xor", "xnor", "nand", "nor", "implies", "iff", "ne",
                 "sub"} \cup UnaryOps \cup ExtOps
CompareOps   == {"slt", "slte", "sgt", "sgte", "ulte", "ugt", "ugte"}
MulOvflOps   == {"umulo", "smulo"}
OvflOps      == {"uaddo", "saddo", "usubo", "ssubo", "sdivo"}
SDivOps      == {"sdiv", "srem", "smod"}
Ops == LogicOps \cup CompareOps \cup MulOvflOps \cup OvflOps \cup ShiftOps
       \cup SDivOps

\* the preconditions: shifts take a power-of-two width above 1 and a
\* log2(width)-bit amount, implies and iff take width 1
Widths(o) ==
    CASE o \in ShiftOps    -> {v \in 2..MaxWidth : \E k \in 1..v : 2^k = v}
      [] o \in BoolOnlyOps -> {1}
      [] OTHER             -> 1..MaxWidth

Operand2(o, w) ==
    CASE o \in ShiftOps -> BV(Log2(w))
      [] o \in UnaryOps -> {0}
      [] o \in ExtOps   -> 0..MaxExt
      [] OTHER          -> BV(w)

ResultWidth(o, w, n) ==
    CASE o = "none"                                  -> 0
      [] o \in ExtOps                                -> w + n
      [] o \in {"redor", "redxor", "redand", "implies", "iff", "ne"}
            \cup CompareOps \cup MulOvflOps \cup OvflOps -> 1
      [] OTHER                                       -> w

Result(o, w, a, b) ==
    CASE o = "or"      -> OrExp(w, a, b)       [] o = "xor"    -> XorExp(w, a, b)
      [] o = "xnor"    -> XnorExp(w, a, b)     [] o = "nand"   -> NandExp(w, a, b)
      [] o = "nor"     -> NorExp(w, a, b)      [] o = "implies" -> ImpliesExp(a, b)
      [] o = "iff"     -> IffExp(a, b)         [] o = "ne"     -> NeExp(a, b)
      [] o = "neg"     -> NegExp(w, a)         [] o = "sub"    -> SubExp(w, a, b)
      [] o = "inc"     -> IncExp(w, a)         [] o = "dec"    -> DecExp(w, a)
      [] o = "redor"   -> RedorExp(w, a)       [] o = "redxor" -> RedxorExp(w, a)
      [] o = "redand"  -> RedandExp(w, a)      [] o = "uext"   -> UextExp(w, a, b)
      [] o = "sext"    -> SextExp(w, a, b)     [] o = "slt"    -> SltExp(w, a, b)
      [] o = "slte"    -> SlteExp(w, a, b)     [] o = "sgt"    -> SgtExp(w, a, b)
      [] o = "sgte"    -> SgteExp(w, a, b)     [] o = "ulte"   -> UlteExp(a, b)
      [] o = "ugt"     -> UgtExp(a, b)         [] o = "ugte"   -> UgteExp(a, b)
      [] o = "uaddo"   -> UaddoExp(w, a, b)    [] o = "saddo"  -> SaddoExp(w, a, b)
      [] o = "umulo"   -> UmuloExp(w, a, b)    [] o = "smulo"  -> SmuloExp(w, a, b)
      [] o = "usubo"   -> UsuboExp(w, a, b)    [] o = "ssubo"  -> SsuboExp(w, a, b)
      [] o = "sdivo"   -> SdivoExp(w, a, b)    [] o = "sra"    -> SraExp(w, a, b)
      [] o = "rol"     -> RolExp(w, a, b)      [] o = "ror"    -> RorExp(w, a, b)
      [] o = "sdiv"    -> SdivExp(w, a, b)     [] o = "srem"   -> SremExp(w, a, b)
      [] o = "smod"    -> SmodExp(w, a, b)

VARIABLES
    op,    \* the constructor called ("none" before the call)
    w,     \* the width of its operands (of the index for an array call)
    x, y,  \* the values of e0 and e1 (y: the shift amount or extension);
           \* the index and the element of an array call
    res,   \* the value of the returned node
    vw,    \* the element width of an array call
    c,     \* the condition of a function conditional
    f, g,  \* the function operands of an array call
    path,  \* the branch the array constructor takes (lambda / parameterized)
    ares   \* the value (element or function) an array call returns

vars == <<op, w, x, y, res, vw, c, f, g, path, ares>>

ArrayOps == {"read", "write", "update", "acond"}

Arrays(iw, ew) == [BV(iw) -> BV(ew)]

TypeOK ==
    /\ op \in Ops \cup ArrayOps \cup {"none"}
    /\ w \in 0..MaxWidth
    /\ x \in BV(w)
    /\ op \notin ArrayOps => res \in BV(ResultWidth(op, w, y))
    /\ vw \in 0..MaxArrayW
    /\ path \in BOOLEAN
    /\ op = "read" => ares \in BV(vw)
    /\ op \in ArrayOps \ {"read"} => ares \in Arrays(w, vw)

Init == /\ op = "none" /\ w = 0 /\ x = 0 /\ y = 0 /\ res = 0
        /\ vw = 0 /\ c = 0 /\ f = <<>> /\ g = <<>> /\ path = FALSE /\ ares = 0

Call(o) ==
    /\ op = "none"
    /\ \E v \in Widths(o) : \E a \in BV(v), b \in Operand2(o, v) :
          /\ op' = o /\ w' = v /\ x' = a /\ y' = b
          /\ res' = Result(o, v, a, b)
    /\ UNCHANGED <<vw, c, f, g, path, ares>>

ArrayResult(o, iw, i, v, cd, a, b, pz) ==
    CASE o = "read"   -> ReadExp(a, i)
      [] o = "write"  -> WriteExp(iw, a, i, v, pz)
      [] o = "update" -> UpdateExp(iw, a, i, v, pz)
      [] o = "acond"  -> CondExp(iw, cd, a, b, pz)

\* one array constructor call on an array of index width iw and element
\* width ew (the second function only for the conditional)
ArrayCall(o) ==
    /\ op = "none"
    /\ \E iw, ew \in 1..MaxArrayW :
       \E a \in Arrays(iw, ew), i \in BV(iw), v \in BV(ew), cd \in BV(1) :
       \E b \in IF o = "acond" THEN Arrays(iw, ew) ELSE {a}, pz \in BOOLEAN :
          /\ op' = o /\ w' = iw /\ x' = i /\ y' = v /\ vw' = ew /\ c' = cd
          /\ f' = a /\ g' = b /\ path' = pz
          /\ ares' = ArrayResult(o, iw, i, v, cd, a, b, pz)
    /\ UNCHANGED res

\* one constructor call, after which the caller owns the result
Next == \/ \E o \in Ops : Call(o)
        \/ \E o \in ArrayOps : ArrayCall(o)

Spec == Init /\ [][Next]_vars

(***************************************************************************)
(* What each operator means: two's complement arithmetic on the integers, *)
(* and the SMT-LIB values for division by zero.                            *)
(***************************************************************************)
B(p) == IF p THEN 1 ELSE 0

ToInt(v, a)   == IF a >= 2^(v - 1) THEN a - 2^v ELSE a
FromInt(v, i) == i % 2^v
SRange(v)     == -(2^(v - 1))..2^(v - 1) - 1
AbsVal(i)     == IF i < 0 THEN -i ELSE i

\* integer division rounding towards zero
TruncDiv(i, j) ==
    IF (i < 0) = (j < 0) THEN AbsVal(i) \div AbsVal(j)
    ELSE -(AbsVal(i) \div AbsVal(j))

\* remainder with the sign of the divisor
FloorMod(i, j) == IF j > 0 THEN i % j ELSE -((-i) % (-j))

RECURSIVE PopCount(_)
PopCount(a) == IF a = 0 THEN 0 ELSE (a % 2) + PopCount(a \div 2)

Meaning(o, v, a, b) ==
    LET sa == ToInt(v, a)
        sb == ToInt(v, b)
    IN
    CASE o = "or"      -> a | b
      [] o = "xor"     -> a ^^ b
      [] o = "xnor"    -> Ones(v) - (a ^^ b)
      [] o = "nand"    -> Ones(v) - (a & b)
      [] o = "nor"     -> Ones(v) - (a | b)
      [] o = "implies" -> B(a = 0 \/ b = 1)
      [] o = "iff"     -> B(a = b)
      [] o = "ne"      -> B(a # b)
      [] o = "neg"     -> FromInt(v, -a)
      [] o = "sub"     -> FromInt(v, a - b)
      [] o = "inc"     -> FromInt(v, a + 1)
      [] o = "dec"     -> FromInt(v, a - 1)
      [] o = "redor"   -> B(a # 0)
      [] o = "redxor"  -> PopCount(a) % 2
      [] o = "redand"  -> B(a = Ones(v))
      [] o = "uext"    -> a
      [] o = "sext"    -> FromInt(v + b, sa)
      [] o = "slt"     -> B(sa < sb)
      [] o = "slte"    -> B(sa <= sb)
      [] o = "sgt"     -> B(sa > sb)
      [] o = "sgte"    -> B(sa >= sb)
      [] o = "ulte"    -> B(a <= b)
      [] o = "ugt"     -> B(a > b)
      [] o = "ugte"    -> B(a >= b)
      [] o = "uaddo"   -> B(a + b > Ones(v))
      [] o = "saddo"   -> B(sa + sb \notin SRange(v))
      [] o = "umulo"   -> B(a * b > Ones(v))
      [] o = "smulo"   -> B(sa * sb \notin SRange(v))
      [] o = "usubo"   -> B(a < b)
      [] o = "ssubo"   -> B(sa - sb \notin SRange(v))
      [] o = "sdivo"   -> B(b # 0 /\ TruncDiv(sa, sb) \notin SRange(v))
      [] o = "sra"     -> FromInt(v, sa \div 2^b)
      [] o = "rol"     -> (a * 2^b + a \div 2^(v - b)) % 2^v
      [] o = "ror"     -> (a \div 2^b + a * 2^(v - b)) % 2^v
      [] o = "sdiv"    -> IF b = 0 THEN IF sa < 0 THEN 1 ELSE Ones(v)
                          ELSE FromInt(v, TruncDiv(sa, sb))
      [] o = "srem"    -> IF b = 0 THEN a
                          ELSE FromInt(v, sa - sb * TruncDiv(sa, sb))
      [] o = "smod"    -> IF b = 0 THEN a ELSE FromInt(v, FloorMod(sa, sb))

Correct(ops) == op \in ops => res = Meaning(op, w, x, y)

\* The bitwise connectives, negation, subtraction, increments, reductions
\* and extensions built from and, eq, add, concat and inversion
\* (btor_or_exp .. btor_sext_exp, btor_inc_exp, btor_dec_exp) compute their
\* operator at every width.
LogicCorrect == Correct(LogicOps)

\* The signed comparisons built from the sign bits and ult of the lower
\* bits (btor_slt_exp) and the non-strict and reversed comparisons built
\* from slt and ult (btor_ulte_exp .. btor_sgte_exp) order as integers do.
CompareCorrect == Correct(CompareOps)

\* The multiplication overflow flags (btor_umulo_exp, btor_smulo_exp, with
\* their width 1 / width 2 / general cases and their or-trees over one-bit
\* slices) are set exactly when the true product leaves the range.
MulOverflowCorrect == Correct(MulOvflOps)

\* The addition, subtraction and division overflow flags (btor_uaddo_exp,
\* btor_saddo_exp, btor_usubo_exp, btor_ssubo_exp, btor_sdivo_exp) are set
\* exactly when the true result leaves the range.
OverflowCorrect == Correct(OvflOps)

\* The arithmetic shift and the rotates (btor_sra_exp, btor_rol_exp,
\* btor_ror_exp, the rotates by srl / sll of the negated amount) move the
\* bits as their operators do, including a zero amount.
ShiftCorrect == Correct(ShiftOps)

\* Signed division, remainder and modulus (btor_sdiv_exp, btor_srem_exp,
\* btor_smod_exp), normalising signs around udiv / urem, round and sign
\* their results as two's complement arithmetic does, including the
\* minimum divided by -1 and division by zero.
SignedDivCorrect == Correct(SDivOps)

\* What an array or function constructor returns, by SMT-LIB's theory of
\* arrays: a read is the element at the index, a write or update the array
\* changed at the index only, a conditional one of its two functions.
ArrayMeaning ==
    CASE op = "read"               -> f[x]
      [] op \in {"write", "update"} -> [j \in DOMAIN f |-> IF j = x THEN y ELSE f[j]]
      [] op = "acond"              -> IF c = 1 THEN f ELSE g

\* Every array constructor means the same whichever way the code builds it:
\* btor_lambda_write_exp's lambda over cond (eq (param, index), value,
\* read (array, param)) and the UPDATE node of btor_update_exp are the same
\* array, and btor_cond_exp_node's lambda over applies of fresh params is
\* the conditional of the two functions.
ArrayCorrect == op \in ArrayOps => ares = ArrayMeaning

=============================================================================
