--------------------------- MODULE LibraryBlocks ---------------------------
(***************************************************************************)
(* What the blocks of the actor library compute, for the data type int: v  *)
(* is the sequence of the values at the input ports of one firing.  The    *)
(* blocks of simulink_tt (suffix _p) are fired by the periodic runtime     *)
(* (module PeriodicActor); what they compute is here.                      *)
(***************************************************************************)
EXTENDS Integers, Sequences, Folds, Functions

Least(a, b)    == IF a < b THEN a ELSE b
Greatest(a, b) == IF a > b THEN a ELSE b
Bit(b)         == IF b THEN 1 ELSE 0

(* Integer division of C++: towards zero. *)
Quotient(a, b) == LET q == (IF a < 0 THEN -a ELSE a) \div (IF b < 0 THEN -b ELSE b)
                  IN  IF (a < 0) = (b < 0) THEN q ELSE -q

-----------------------------------------------------------------------------
(* One input, no memory. *)
Abs(x)   == IF x < 0 THEN -x ELSE x
Abs_p(x) == IF x < 0 THEN -x ELSE x         \* by way of double
Gain(x, gain)   == x * gain
Gain_p(x, gain) == LET temp == x * gain IN temp

(* Three tests one after the other; the last that holds has written. *)
Signum(x) == LET zero == IF x = 0 THEN 0 ELSE x
                 pos  == IF x > 0 THEN 1 ELSE zero
             IN  IF x < 0 THEN -1 ELSE pos
Signum_p(x) == CASE x = 0 -> 0 [] x > 0 -> 1 [] x < 0 -> -1

CompareToX(x, op, bound) ==
  Bit(CASE op = 0 -> x = bound  [] op = 1 -> x # bound [] op = 2 -> x < bound
        [] op = 3 -> x <= bound [] op = 4 -> x > bound [] op = 5 -> x >= bound)
CompareToX_p(x, op, bound) ==
  Bit(CASE op = 0 -> x = bound  [] op = 1 -> x # bound [] op = 2 -> x < bound
        [] op = 3 -> x <= bound [] op = 4 -> x > bound [] op = 5 -> x >= bound
        [] OTHER  -> FALSE)

(* The conversion to unsigned char. *)
DataTypeConversion(x)   == x % 2^8
DataTypeConversion_p(x) == x % 2^8
IOAdapter(x) == x
SignalSpecification_p(x) == x

(* sqrt and exp; the result is truncated to int.  exp is left symbolic. *)
Math(x, mathOperator) ==
  CASE mathOperator = 1 -> CHOOSE r \in 0 .. x : r * r <= x /\ (r + 1) * (r + 1) > x
    [] mathOperator = 2 -> <<"exp", x>>
    [] OTHER            -> 0

(* The last support below x, or the first; it and the next one give the    *)
(* line.  Reads past the table where x is above the last support.          *)
boundary(x, inputs) ==
  LET below == {k \in DOMAIN inputs : x > inputs[k]}
  IN  IF below = {} THEN 1 ELSE CHOOSE k \in below : \A j \in below : j <= k
Lookup(x, inputs, table) ==
  LET k == boundary(x, inputs)
  IN  Quotient(table[k + 1] - table[k], inputs[k + 1] - inputs[k]) * (x - inputs[k]) + table[k]
Lookup_p(x, inputs, table) == Lookup(x, inputs, table)

-----------------------------------------------------------------------------
(* Several inputs.  A loop over the ports is a recursive function of the   *)
(* number of ports done.                                                   *)
Sum(v, operators) ==
  LET output[i \in 0 .. Len(v)] ==
        IF i = 0 THEN 0
        ELSE CASE operators[i] = "+" -> output[i - 1] + v[i]
               [] operators[i] = "-" -> output[i - 1] - v[i]
               [] OTHER              -> output[i - 1]
  IN  output[Len(v)]
Sum_p(v, operators) ==                       \* another operator: assert(0)
  LET output[i \in 0 .. Len(v)] ==
        IF i = 0 THEN 0
        ELSE IF operators[i] = "+" THEN output[i - 1] + v[i] ELSE output[i - 1] - v[i]
  IN  output[Len(v)]

Product(v, operators) ==
  LET output[i \in 0 .. Len(v)] ==
        IF i = 0 THEN 1
        ELSE IF operators[i] = "*" THEN output[i - 1] * v[i] ELSE Quotient(output[i - 1], v[i])
  IN  output[Len(v)]
(* A divisor 0 ends the loop: the inputs behind it are left out. *)
Product_p(v, operators) ==
  LET stops == {i \in DOMAIN v : operators[i] = "/" /\ v[i] = 0}
      done  == IF stops = {} THEN Len(v) ELSE (CHOOSE i \in stops : \A j \in stops : i <= j) - 1
  IN  Product(SubSeq(v, 1, done), operators)

(* The loop starts from 0, whatever the inputs are. *)
MinMax(v, function) == IF function = "<" THEN FoldFunction(Least, 0, v)
                       ELSE FoldFunction(Greatest, 0, v)
(* Function 1 also takes the else branch of the test for 2. *)
MinMax_p(v, function) ==
  LET min(a, b) == Least(Least(a, b), b)
  IN  IF function = 2 THEN FoldFunction(Greatest, 0, v) ELSE FoldFunction(min, 0, v)

(* The first input is taken as it is, every further one is folded in. *)
Logic(v, op) ==
  LET Loop(f(_, _)) == LET output[i \in 1 .. Len(v)] ==
                             IF i = 1 THEN v[1] ELSE f(output[i - 1], v[i])
                       IN  output[Len(v)]
      and(a, b) == Bit(a # 0 /\ b # 0)
      or(a, b)  == Bit(a # 0 \/ b # 0)
      xor(a, b) == Bit(a # b)
      not(a)    == Bit(a = 0)
  IN  CASE op = 0 -> Loop(and)      [] op = 1 -> Loop(or)      [] op = 2 -> not(Loop(and))
        [] op = 3 -> not(Loop(or))  [] op = 4 -> Loop(xor)     [] op = 5 -> not(Loop(xor))
        [] op = 6 -> not(v[1])      [] OTHER -> v[1]
Logic_p(v, op) == Logic(v, op)

(* The inputs go through an array of bool first; the periodic block        *)
(* compares them as they are.                                              *)
Compared(a, b, op) ==
  Bit(CASE op = 0 -> a = b  [] op = 1 -> a # b  [] op = 2 -> a < b
        [] op = 3 -> a <= b [] op = 4 -> a >= b [] op = 5 -> a > b
        [] OTHER  -> FALSE)
RelationalOperator(v, op)   == Compared(Bit(v[1] # 0), Bit(v[2] # 0), op)
RelationalOperator_p(v, op) == Compared(v[1], v[2], op)

Switch(v, threshold, criteria) ==
  IF CASE criteria = 1 -> v[2] >= threshold [] criteria = 2 -> v[2] > threshold
       [] criteria = 3 -> v[2] # 0          [] OTHER -> TRUE
  THEN v[1] ELSE v[3]

-----------------------------------------------------------------------------
(* With memory: what is sent and what is kept, from the input and what was *)
(* kept.                                                                   *)
Memory(x, previous_in) == <<previous_in, x>>
IOAdapter_p(x, init)   == IF init # 0 THEN <<init, 0>> ELSE <<x, 0>>
Memory_p(x, init)      == IF init # 0 THEN <<init, 0>> ELSE <<x, 0>>
DiscreteIntegrator(x, state, gain, sampleTime)   == <<state, state + gain * sampleTime * x>>
DiscreteIntegrator_p(x, state, gain, sampleTime) == <<state, state + (gain * sampleTime) * x>>
DiscreteDerivative_p(x, in_, gain, sampleTime)   == <<Quotient((x - in_) * gain, sampleTime), x>>
=============================================================================
