------------------------------ MODULE MCQuery ------------------------------
(* Columns: an integer of three bits, a double, two texts.  The rows bring *)
(* equal hashes of different texts, differences that overflow, division by *)
(* zero, and empty texts.                                                  *)
EXTENDS Query

Name(i) == [op |-> "name", arg |-> i]
Const(x) == [op |-> "const", arg |-> IntV(x)]
Node(o, l, r) == [op |-> o, left |-> l, right |-> r]
A == Name(1)
B == Name(2)
S == Name(3)
U == Name(4)

MCRows == {
    <<IntV(3),  FloatV(1), TextV(<<1>>),    TextV(<<2, 3>>)>>,
    <<IntV(-2), FloatV(2), TextV(<<1, 2>>), TextV(<<3>>)>>,
    <<IntV(1),  FloatV(1), TextV(<<1, 2>>), TextV(<<3>>)>>,
    <<IntV(0),  FloatV(0), TextV(<<>>),     TextV(<<1>>)>> }

MCTables == UNION {[1 .. n -> MCRows] : n \in 0 .. 4}

Q(w, g, o, m) == [where |-> w, group |-> g, order |-> o, master |-> m]
MCQueries == {
    Q(<<>>, <<>>, <<>>, <<>>),
    Q(<<Node(">", A, Const(-2))>>, <<>>, <<A>>, <<Node("*", A, A)>>),
    Q(<<Node("and", A, S), Node("<=", B, A)>>, <<S>>, <<U>>, <<S, A>>),
    Q(<<Node("or", Node("=", A, Const(3)), Node("<", A, B))>>, <<A>>, <<>>, <<Node("-", A, B)>>),
    Q(<<Node("<>", Node("%", Const(3), A), Const(1))>>, <<>>, <<B>>, <<>>),
    Q(<<S>>, <<S, U>>, <<S>>, <<A, Node("+", A, Node("+", S, A)), B>>),
    Q(<<>>, <<S, U>>, <<B, U>>, <<Node(">=", Node("+", A, B), Node("*", A, Const(2)))>>),
    Q(<<>>, <<A, S>>, <<Node("+", A, B), S>>, <<Node("/", Const(2), A), S>>),
    Q(<<Node("<", S, A)>>, <<>>, <<>>, <<>>),
    Q(<<>>, <<Node("*", A, S)>>, <<>>, <<>>),
    Q(<<>>, <<>>, <<Node("/", A, A)>>, <<>>),
    Q(<<>>, <<>>, <<>>, <<Name(0)>>),
    Q(<<>>, <<>>, <<Name(0)>>, <<>>),
    Q(<<>>, <<Name(0)>>, <<>>, <<>>),
    Q(<<Name(0)>>, <<>>, <<>>, <<>>) }
=============================================================================
