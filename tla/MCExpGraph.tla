---------------------------- MODULE MCExpGraph ----------------------------
(* Model-checking instances of ExpGraph: the operation subsets per run.  *)
EXTENDS ExpGraph

\* constructors of bit-vector terms, release and lookups by id
BvOps     == {"const", "var", "not", "and", "beq", "ult", "release", "matchid"}
\* terms over one variable, turned into proxies and released
ProxyOps  == {"const", "var", "and", "beq", "release", "proxy"}
\* arrays, args, applications, reads and writes, copied and released
ApplyOps  == {"var", "array", "funcond", "read", "write", "copy", "release"}
\* several applications sharing a function or an args node
ApplyOrderOps == {"var", "not", "uf", "args", "apply", "update"}
\* params and lambdas over bit-vector bodies
LambdaOps == {"var", "param", "and", "lambda", "release"}
\* lookups by id next to release
MatchOps  == {"var", "not", "and", "release", "matchid"}

\* lambdas whose bodies use a param no lambda of the run binds
OpenLambdaOps == {"param", "and", "lambda"}

BvProxyKinds == {"var", "and", "beq", "cond"}
=============================================================================
