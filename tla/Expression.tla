----------------------------- MODULE Expression -----------------------------
(***************************************************************************)
(* Expressions (src/vdbe_expr.cpp): a tree is compiled to postfix and run  *)
(* on a stack.  A value is a pair of a type and a datum: an integer of     *)
(* Width bits (64 in the code), a double, here a whole one, or a text, a   *)
(* sequence of characters with numbers as their codes.  Division and       *)
(* remainder of doubles are left out, as they have results that are not    *)
(* whole.  A tree is a leaf [op, arg] or a node [op, left, right].         *)
(***************************************************************************)
EXTENDS Integers, Sequences, SequencesExt

CONSTANT Width

ASSUME WidthAssumption == Width \in Nat /\ Width >= 2

MinInt  == -(2 ^ (Width - 1))
Wrap(x) == ((x - MinInt) % (2 ^ Width)) + MinInt

IntV(x)   == <<"int", Wrap(x)>>
FloatV(x) == <<"float", x>>
TextV(s)  == <<"text", s>>
Bool(b)   == IntV(IF b THEN 1 ELSE 0)

\* What running an expression can end with besides a value.
Throws == <<"throw", 0>>
Dies   == <<"die", 0>>
Fails(v) == v[1] \in {"throw", "die"}

IsInt(v)     == v[1] = "int"
IsNumber(v)  == v[1] \in {"int", "float"}
Arithmetic   == {"+", "-", "*", "/", "%"}
Comparisons  == {"<", "<=", ">", ">=", "=", "<>"}
Connectives  == {"and", "or"}
Leaves       == {"name", "const"}

IsZero(v) == IF v[1] = "text" THEN v[2] = <<>> ELSE v[2] = 0

\* Division of the machine: towards zero, with a trap when there is no result.
Quotient(x, y) ==
    LET q == (IF x < 0 THEN -x ELSE x) \div (IF y < 0 THEN -y ELSE y)
    IN  IF (x < 0) = (y < 0) THEN q ELSE -q
Traps(x, y) == y = 0 \/ (x = MinInt /\ y = -1)

\* Minus is executed as plus.
Apply(op, x, y) == IF op = "*" THEN x * y ELSE x + y

ApplyOperation(op, v, w) ==
    IF ~(IsNumber(v) /\ IsNumber(w)) THEN Throws
    ELSE IF ~(IsInt(v) /\ IsInt(w)) THEN FloatV(Apply(op, v[2], w[2]))
    ELSE IF op \notin {"/", "%"} THEN IntV(Apply(op, v[2], w[2]))
    ELSE IF Traps(v[2], w[2]) THEN Dies
    ELSE LET q == Quotient(v[2], w[2]) IN IntV(IF op = "/" THEN q ELSE v[2] - q * w[2])

Relates(op, difference) ==
    CASE op = "<"  -> difference < 0  [] op = "<=" -> difference <= 0
      [] op = ">"  -> difference > 0  [] op = ">=" -> difference >= 0
      [] op = "="  -> difference = 0  [] op = "<>" -> difference # 0

\* Two integers are compared by their difference, as an integer.
Difference(v, w) == IF IsInt(v) /\ IsInt(w) THEN Wrap(v[2] - w[2]) ELSE v[2] - w[2]

ApplyCompare(op, v, w) ==
    IF IsNumber(v) /\ IsNumber(w) THEN Bool(Relates(op, Difference(v, w))) ELSE Throws

ApplyConnective(op, v, w) ==
    Bool(IF op = "and" THEN ~IsZero(v) /\ ~IsZero(w) ELSE ~IsZero(v) \/ ~IsZero(w))

Operate(op, v, w) ==
    CASE op \in Arithmetic  -> ApplyOperation(op, v, w)
      [] op \in Comparisons -> ApplyCompare(op, v, w)
      [] op \in Connectives -> ApplyConnective(op, v, w)

-----------------------------------------------------------------------------
(* generate and run                                                        *)

RECURSIVE Suffix(_)
Suffix(t) ==
    IF t.op \in Leaves THEN <<t>> ELSE Suffix(t.left) \o Suffix(t.right) \o <<[op |-> t.op]>>

\* Variant: the operands are taken from the stack in the other order.
ExecuteSwapped(stack, ins, row) ==
    LET n == Len(stack)
    IN  IF ins.op \in Leaves
        THEN Append(stack, IF ins.op = "name" THEN row[ins.arg] ELSE ins.arg)
        ELSE Append(SubSeq(stack, 1, n - 2), Operate(ins.op, stack[n], stack[n - 1]))

\* One instruction.  A result that is a failure marks that the machine stopped
\* there; both operands have left the stack by then.
Execute(stack, ins, row) ==
    LET n == Len(stack)
    IN  IF ins.op \in Leaves
        THEN Append(stack, IF ins.op = "name" THEN row[ins.arg] ELSE ins.arg)
        ELSE Append(SubSeq(stack, 1, n - 2), Operate(ins.op, stack[n - 1], stack[n]))

Stopped(stack) == stack # <<>> /\ Fails(stack[Len(stack)])

\* run: the value, and whether values are left on the stack, which happens only
\* when an instruction throws, and ends the process in the next run.
Run(clean, t, row) ==
    IF ~clean THEN [value |-> Dies, clean |-> FALSE]
    ELSE LET stack == FoldLeft(LAMBDA s, ins : IF Stopped(s) THEN s ELSE Execute(s, ins, row),
                               <<>>, Suffix(t))
         IN  [value |-> stack[Len(stack)], clean |-> Len(stack) = 1]

-----------------------------------------------------------------------------
(* What an expression means: its tree evaluated bottom-up, with exact      *)
(* comparisons, and minus as the code has it.                              *)

Exactly(op, v, w) ==
    IF op \in Comparisons
    THEN IF IsNumber(v) /\ IsNumber(w) THEN Bool(Relates(op, v[2] - w[2])) ELSE Throws
    ELSE Operate(op, v, w)

RECURSIVE Meaning(_, _)
Meaning(t, row) ==
    IF t.op = "name" THEN row[t.arg]
    ELSE IF t.op = "const" THEN t.arg
    ELSE LET v == Meaning(t.left, row)
             w == Meaning(t.right, row)
         IN  IF Fails(v) THEN v ELSE IF Fails(w) THEN w ELSE Exactly(t.op, v, w)

\* A comparison in the tree has a difference that is no integer of Width bits.
RECURSIVE Overflows(_, _)
Overflows(t, row) ==
    /\ t.op \notin Leaves
    /\ \/ Overflows(t.left, row) \/ Overflows(t.right, row)
       \/ LET v == Meaning(t.left, row)
              w == Meaning(t.right, row)
          IN  /\ t.op \in Comparisons
              /\ IsInt(v) /\ IsInt(w)
              /\ v[2] - w[2] # Wrap(v[2] - w[2])
=============================================================================
