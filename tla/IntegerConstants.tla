-------------------------- MODULE IntegerConstants --------------------------
(***************************************************************************)
(* What the compiler does to one integer on its way from a literal to the  *)
(* place it is stored in: folding while it has no type, the choice of a    *)
(* size, implicit and explicit conversions, operators on typed constants,  *)
(* and the conversions of its value once the compiler no longer knows it.  *)
(* Beside what the compiler has, the model keeps what the program means.   *)
(***************************************************************************)
EXTENDS IntegerTypes

CONSTANTS
  Literals,   \* the values of the literals
  MaxSteps    \* bound: operations on one integer

ASSUME LiteralsAssumption == Literals \subseteq Nat /\ MaxSteps \in Nat

VARIABLES
  type,       \* "literal" until a type is chosen
  bits,       \* the width of the constant
  value,      \* the value the compiler, or the compiled program, has
  known,      \* whether it is a constant
  exact,      \* history: the value the program means
  notes,      \* history: what happened to it: "reported", "folded", "crossed"
  steps

vars == <<type, bits, value, known, exact, notes, steps>>

Sized == type # "literal"

(* A literal takes one bit more than its digits need, in 32, 64 or 128.    *)
LiteralBits(n) ==
  CHOOSE b \in {Bits[32], Bits[64], Bits[128]} :
    /\ SignedBits(n) <= b
    /\ \A c \in {Bits[32], Bits[64], Bits[128]} : SignedBits(n) <= c => b <= c

Init ==
  /\ exact \in {n \in Literals : SignedBits(n) <= Bits[128]}
  /\ type = "literal" /\ value = exact /\ bits = LiteralBits(exact)
  /\ known = TRUE /\ notes = {} /\ steps = 0

Take == steps < MaxSteps /\ steps' = steps + 1

(* Constants are folded in their own width.                                *)
Folded(result) ==
  /\ value' = IF Sized THEN Wrap(result, type) ELSE Signed(result, bits)
  /\ notes' = IF value' = result THEN notes ELSE notes \cup {"folded"}

Apply(op, a, b) ==
  CASE op = "add" -> a + b [] op = "subtract" -> a - b [] op = "multiply" -> a * b

(* The other operand is a literal too, or a constant of the same type; of  *)
(* two literals the code needs the same width.                             *)
Operand(n) == IF Sized THEN Fits(n, type) ELSE LiteralBits(n) = bits

Operators == {"add", "subtract", "multiply"}
Combine(op, n) ==
  /\ Take /\ known /\ Operand(n) /\ type \notin {"char", "bool"}
  /\ Folded(Apply(op, value, n)) /\ exact' = Apply(op, exact, n)
  /\ UNCHANGED <<type, bits, known>>

(* Negation widens a literal whose bits are all ones.                      *)
Wider(b) == IF b < Bits[32] THEN Bits[32] ELSE IF b < Bits[64] THEN Bits[64] ELSE Bits[128]
Negate ==
  /\ Take /\ known /\ type \notin {"char", "bool"}
  /\ exact' = -exact
  /\ IF ~Sized /\ value = -1
       THEN bits < Bits[128] /\ bits' = Wider(bits) /\ value' = 1 /\ notes' = notes
       ELSE bits' = bits /\ Folded(-value)
  /\ UNCHANGED <<type, known>>

-----------------------------------------------------------------------------
(* Conversions.                                                            *)

Rank(t) ==
  IF ~known THEN VariableRank(type, t)
  ELSE IF Sized THEN ConstantRank(value, type, t)
  ELSE IF t = "bool" THEN IntegerToBool
  ELSE LiteralRank(value, bits, t)

(* Mutant: a wider constant is filled with zeros.                          *)
ConvertedUnsigned(t) ==
  IF t = "bool" THEN IF value = 0 THEN 0 ELSE 1
  ELSE IF ~Sized /\ bits < NumBits(t) THEN Wrap(value % 2 ^ bits, t)
  ELSE Wrap(value, t)

(* A literal that becomes wider and unsigned is filled with zeros.         *)
Converted(t) ==
  IF t = "bool" THEN IF value = 0 THEN 0 ELSE 1
  ELSE IF ~Sized /\ bits < NumBits(t) /\ t \in UnsignedTypes THEN value % 2 ^ bits
  ELSE Wrap(value, t)

(* A constant of a type that becomes one of the other sign.                *)
Crosses(t) ==
  known /\ Sized /\ {type, t} \cap SignedTypes # {} /\ {type, t} \cap UnsignedTypes # {}

Become(t) == type' = t /\ bits' = NumBits(t) /\ value' = Converted(t)

(* implicitCast() reports whatever may lose something, and goes on.        *)
ImplicitCast(t) ==
  /\ Take /\ known' = known /\ exact' = exact
  /\ IF Rank(t) = Incompatible
       THEN notes' = notes \cup {"reported"} /\ UNCHANGED <<type, bits, value>>
       ELSE /\ Become(t)
            /\ notes' = notes \cup (IF IsWarning(Rank(t)) THEN {"reported"} ELSE {})
                              \cup (IF Crosses(t) THEN {"crossed"} ELSE {})

(* explicitCast() reports the impossible only: the program means the value *)
(* that is left.                                                           *)
ExplicitCast(t) ==
  /\ Take /\ known' = known
  /\ IF Rank(t) = Incompatible
       THEN notes' = notes \cup {"reported"} /\ UNCHANGED <<type, bits, value, exact>>
       ELSE Become(t) /\ exact' = value' /\ notes' = notes \cap {"reported"}

(* A variable without a type gets one from its initial value.              *)
Declare ==
  /\ type = "literal"
  /\ ImplicitCast(SizeOfVariable(value))

(* Once it is stored the compiler does not know it any more.               *)
Store ==
  /\ Take /\ known /\ Sized /\ known' = FALSE
  /\ UNCHANGED <<type, bits, value, exact, notes>>

Types == SizedTypes \cup {"bool"}
Next ==
  \/ \E op \in Operators, n \in Literals : Combine(op, n)
  \/ Negate
  \/ \E t \in Types : ImplicitCast(t) \/ ExplicitCast(t)
  \/ Declare \/ Store

Spec == Init /\ [][Next]_vars

-----------------------------------------------------------------------------
(* Properties.                                                             *)

(* Whatever is folded, converted, stored and converted again, a program    *)
(* that is compiled without an error computes with the value it means,     *)
(* unless an operator left its width or a typed constant changed its sign. *)
UnreportedKeepsValue == notes = {} => value = exact

(* The places that judge one value agree on it.  Overload resolution asks  *)
(* for subtypes and conversion for ranks: a literal is a subtype of the    *)
(* types that hold its value and no others, and converts silently to just  *)
(* these; a value of a type converts silently to its supertypes.  That the *)
(* compiler knows a value never makes a conversion worse: a call accepted  *)
(* for a variable is accepted for a constant of its type.  The three       *)
(* places that choose a size for a literal choose one that holds it, if    *)
(* one does.                                                               *)
ConversionsAgree ==
  IF type = "literal"
    THEN /\ \A t \in SizedTypes :
              /\ LiteralSubtype(value, t) <=> Fits(value, t)
              /\ LiteralSubtype(value, t) <=> ~IsWarning(Rank(t))
         /\ Fits(value, "int64") \/ Fits(value, "uint64") => Fits(value, SizeOfVariable(value))
         /\ Fits(value, "int64") => /\ Fits(value, SizeOfSwitch(value))
                                   /\ Fits(value, SizeOfTemplate(value))
    ELSE \A t \in SizedTypes :
           /\ SizedSubtype(type, t) => ~IsWarning(Rank(t))
           /\ known /\ type # "bool" /\ IsWarning(Rank(t)) => IsWarning(VariableRank(type, t))
=============================================================================
