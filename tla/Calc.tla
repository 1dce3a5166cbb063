-------------------------------- MODULE Calc --------------------------------
(***************************************************************************)
(* The runner's calculator, src/desktop/runner/calc.c: a recursive descent *)
(* over the line that is typed, which gives up past a depth.               *)
(* Numbers are integers, so that division is left out; a line is a         *)
(* sequence of digits and signs.                                           *)
(***************************************************************************)
EXTENDS Integers, Sequences, SequencesExt

CONSTANTS
  Keys,        (* what is typed: digits, "+", "-", "*", "%", "(", ")"        *)
  MaxLine,     (* bound: characters of a line; sizeof runner_buffer - 1 = 255*)
  MAXDEPTH     (* atoms inside each other; 64 in the code                    *)

ASSUME CalcAssumption ==
  /\ Keys \subseteq {"1", "2", "3", "+", "-", "*", "%", "(", ")"}
  /\ MaxLine \in Nat /\ MAXDEPTH \in Nat

VARIABLE expr    (* the line, without the prefix of the mode *)

Digits == {"1", "2", "3"}
Value(d) == CASE d = "1" -> 1 [] d = "2" -> 2 [] d = "3" -> 3

CalcInit == expr = <<>>

TypesKey(k) ==
  /\ Len(expr) < MaxLine
  /\ expr' \in {Append(expr, k), <<k>> \o expr}

CalcNext == \E k \in Keys : TypesKey(k)
CalcSpec == CalcInit /\ [][CalcNext]_expr

-----------------------------------------------------------------------------
(* The parser.  Its state: [at, depth, failed, value]; at is the cursor. *)

Char(s) == IF s.at <= Len(expr) THEN expr[s.at] ELSE "end"
Skip(s) == [s EXCEPT !.at = @ + 1]
Fails(s) == [s EXCEPT !.failed = TRUE, !.value = 0]

(* fmod: the remainder has the sign of the dividend *)
Remainder(a, b) ==
  LET abs(x) == IF x < 0 THEN -x ELSE x
  IN IF a < 0 THEN -(abs(a) % abs(b)) ELSE a % abs(b)

(* runner_calc_number, of one digit or more *)
RECURSIVE runner_calc_number(_)
runner_calc_number(s) ==
  IF Char(s) \in Digits
  THEN runner_calc_number([Skip(s) EXCEPT !.value = 10 * @ + Value(Char(s))])
  ELSE IF s.at > 1 /\ expr[s.at - 1] \in Digits THEN s ELSE Fails(s)

Combine(op, left, s) ==
  IF op = "%" /\ s.value = 0 THEN Fails(s)
  ELSE [s EXCEPT !.value = CASE op = "+" -> left + @ [] op = "-" -> left - @
                             [] op = "*" -> left * @ [] op = "%" -> Remainder(left, @)]

(* runner_calc_atom, runner_calc_term, runner_calc_expr; a term and an
   expression go on as long as operators of their own follow *)
RECURSIVE runner_calc_atom(_), runner_calc_term(_), runner_calc_expr(_),
          TermGoesOn(_), ExprGoesOn(_)

(* mutant: a number does not give its level of depth back *)
runner_calc_atom_Deeper(s) ==
  LET in == [s EXCEPT !.depth = @ + 1, !.value = 0]
      Out(t) == [t EXCEPT !.depth = @ - 1]
  IN IF in.depth > MAXDEPTH THEN Fails(in)
     ELSE CASE Char(in) = "-" -> LET t == runner_calc_atom(Skip(in))
                                 IN Out([t EXCEPT !.value = -@])
            [] Char(in) = "+" -> Out(runner_calc_atom(Skip(in)))
            [] Char(in) = "(" -> LET t == runner_calc_expr(Skip(in))
                                 IN Out(IF Char(t) = ")" THEN Skip(t) ELSE Fails(t))
            [] OTHER -> runner_calc_number(in)

runner_calc_atom(s) ==
  LET in == [s EXCEPT !.depth = @ + 1, !.value = 0]
      Out(t) == [t EXCEPT !.depth = @ - 1]
  IN IF in.depth > MAXDEPTH THEN Fails(in)
     ELSE CASE Char(in) = "-" -> LET t == runner_calc_atom(Skip(in))
                                 IN Out([t EXCEPT !.value = -@])
            [] Char(in) = "+" -> Out(runner_calc_atom(Skip(in)))
            [] Char(in) = "(" -> LET t == runner_calc_expr(Skip(in))
                                 IN Out(IF Char(t) = ")" THEN Skip(t) ELSE Fails(t))
            [] OTHER -> Out(runner_calc_number(in))

TermGoesOn(s) ==
  IF Char(s) \in {"*", "%"}
  THEN TermGoesOn(Combine(Char(s), s.value, runner_calc_atom(Skip(s)))) ELSE s
runner_calc_term(s) == TermGoesOn(runner_calc_atom(s))
ExprGoesOn(s) ==
  IF Char(s) \in {"+", "-"}
  THEN ExprGoesOn(Combine(Char(s), s.value, runner_calc_term(Skip(s)))) ELSE s
runner_calc_expr(s) == ExprGoesOn(runner_calc_term(s))

(* runner_is_expr, runner_calc: a line without a digit is not worth parsing *)
runner_calc ==
  IF \E i \in 1 .. Len(expr) : expr[i] \in Digits
  THEN LET s == runner_calc_expr([at |-> 1, depth |-> 0, failed |-> FALSE, value |-> 0])
       IN IF s.at <= Len(expr) THEN Fails(s) ELSE s
  ELSE [at |-> 1, depth |-> 0, failed |-> TRUE, value |-> 0]

-----------------------------------------------------------------------------
(* Properties. *)

(* What the grammar
     E -> T | E + T | E - T,  T -> A | T * A | T % A,  A -> N | -A | +A | (E)
   derives for the characters from i to j with no more than d As inside each
   other: the set of values, of which a line has one at most. *)
RECURSIVE Sums(_, _, _), Products(_, _, _), Operands(_, _, _)
Splits(i, j, signs) == {k \in i + 1 .. j - 1 : expr[k] \in signs}
Sums(i, j, d) ==
  Products(i, j, d) \cup
  UNION {{IF expr[k] = "+" THEN l + r ELSE l - r
          : l \in Sums(i, k - 1, d), r \in Products(k + 1, j, d)}
         : k \in Splits(i, j, {"+", "-"})}
Products(i, j, d) ==
  Operands(i, j, d) \cup
  UNION {{l * r : l \in Products(i, k - 1, d), r \in Operands(k + 1, j, d)}
         : k \in Splits(i, j, {"*"})} \cup
  UNION {{Remainder(l, r) : l \in Products(i, k - 1, d), r \in Operands(k + 1, j, d) \ {0}}
         : k \in Splits(i, j, {"%"})}
Operands(i, j, d) ==
  IF i > j \/ d = 0 THEN {}
  ELSE IF \A k \in i .. j : expr[k] \in Digits
  THEN {FoldLeft(LAMBDA n, c : 10 * n + Value(c), 0, SubSeq(expr, i, j))}
  ELSE IF expr[i] = "-" THEN {-v : v \in Operands(i + 1, j, d - 1)}
  ELSE IF expr[i] = "+" THEN Operands(i + 1, j, d - 1)
  ELSE IF expr[i] = "(" /\ expr[j] = ")" THEN Sums(i + 1, j - 1, d - 1) ELSE {}

(* The descent computes what the grammar says for a line whose signs and
   parentheses are no deeper than MAXDEPTH, and nothing for a deeper line or
   one that is not an expression.  The depth is that of the nesting and not the
   number of operands, so that the length of a flat sum does not matter.  The
   comment at calc.c:32-34 says more, that no line of the prompt comes close to
   the limit; lines of 65 parentheses and more fit in it and are refused. *)
ComputesTheGrammar ==
  LET s == runner_calc
      values == Sums(1, Len(expr), MAXDEPTH)
  IN IF s.failed THEN values = {} ELSE values = {s.value}
=============================================================================
