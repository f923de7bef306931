------------------------------- MODULE Amounts -------------------------------
(***************************************************************************)
(* mercury/models/amounts.py: decimal amounts and raw token units.         *)
(*                                                                         *)
(* A decimal is a coefficient and an exponent, as in Python's decimal      *)
(* module, whose arithmetic rounds every result to the precision of the    *)
(* context.  An amount text is such a decimal with a sign, or no finite    *)
(* number at all.  Its length is taken as the digits of the coefficient,   *)
(* the least it can be.                                                    *)
(***************************************************************************)
EXTENDS Integers

CONSTANTS
    Prec,           \* digits of Python's default decimal context (28)
    MAX_DECIMALS    \* 77

ASSUME AmountsAssumption == Prec \in Nat \ {0} /\ MAX_DECIMALS \in Nat

AmountText ==
    [form : {"number", "other"}, negative : BOOLEAN, coefficient : Nat, exponent : Int]

Error == -1     \* stands for the ValueError the functions raise

Larger(a, b) == IF a > b THEN a ELSE b

\* len(str(n))
Digits(n, k) == n < 10^k /\ (k = 1 \/ n >= 10^(k - 1))
digits(n) == CHOOSE k \in 1..(n + 1) : Digits(n, k)

\* The decimal c * 10^e rounded half-even to p digits.
rounded(c, e, p) ==
    LET drop == Larger(digits(c) - p, 0)
        unit == 10^drop
        rest == 2 * (c % unit)
        up   == rest > unit \/ (rest = unit /\ (c \div unit) % 2 = 1)
    IN  [coefficient |-> (c \div unit) + (IF up THEN 1 ELSE 0), exponent |-> e + drop]

trailing_zeros(c) == CHOOSE z \in 0..digits(c) : c % 10^z = 0 /\ c % 10^(z + 1) # 0

\* Digits after the point of Decimal.normalize(): the default context applies.
fractional_digits(a) ==
    LET r == rounded(a.coefficient, a.exponent, Prec)
    IN  IF r.coefficient = 0 THEN 0
        ELSE Larger(0 - (r.exponent + trailing_zeros(r.coefficient)), 0)

\* Mutant: the product is computed in the default context.
scaled_default_context(a, decimals) == rounded(a.coefficient, a.exponent + decimals, Prec)

\* parsed * 10**decimals in the local context parse_units sets up.
scaled(a, decimals) ==
    rounded(a.coefficient, a.exponent + decimals,
            Larger(digits(a.coefficient), decimals) + decimals + 4)

\* raw == raw.to_integral_value()
is_integral(x) == x.exponent >= 0 \/ x.coefficient % 10^(0 - x.exponent) = 0

to_int(x) ==
    IF x.exponent >= 0 THEN x.coefficient * 10^x.exponent
    ELSE x.coefficient \div 10^(0 - x.exponent)

validate_token_decimals(decimals) == decimals \in 0..MAX_DECIMALS

parse_units(a, decimals) ==
    IF \/ ~validate_token_decimals(decimals)
       \/ a.form # "number"
       \/ a.negative /\ a.coefficient # 0
       \/ fractional_digits(a) > decimals
       \/ ~is_integral(scaled(a, decimals))
    THEN Error
    ELSE to_int(scaled(a, decimals))

\* Mutant: the quotient is computed in the default context.
quotient_default_context(raw, decimals) == rounded(raw, 0 - decimals, Prec)

\* raw / 10**decimals in the local context format_units sets up.
quotient(raw, decimals) == rounded(raw, 0 - decimals, Larger(digits(raw), decimals) + 2)

\* The formatted text, as the decimal it denotes.
format_units(raw, decimals) ==
    LET q == quotient(raw, decimals)
    IN  [form |-> IF validate_token_decimals(decimals) /\ raw >= 0 THEN "number" ELSE "other",
         negative |-> FALSE, coefficient |-> q.coefficient, exponent |-> q.exponent]

\* c * 10^e = n, without fractions.
Denotes(c, e, n) == IF e >= 0 THEN n = c * 10^e ELSE n * 10^(0 - e) = c

\* Only digits: no sign but +, no point, no exponent.
parse_integer_raw_amount(a) ==
    IF a.form = "number" /\ ~a.negative /\ a.exponent = 0 THEN a.coefficient ELSE Error

\* ERC20Amount.validate_amount_pair accepts the pair.
amount_pair_valid(a, decimals, raw) == parse_units(a, decimals) = raw

=============================================================================
