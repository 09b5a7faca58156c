---------------------------- MODULE IntegerTypes ----------------------------
(***************************************************************************)
(* The integer types of the Tart compiler: the sized ones, bool and char,  *)
(* and the type a literal has before a size is chosen, which stands for    *)
(* one value.  Values are integers; the number of bits of a type is given  *)
(* by a constant, so that small numbers can stand for 8 to 128 bits.       *)
(***************************************************************************)
EXTENDS Integers, FiniteSets

CONSTANT Bits   \* [{1, 8, 16, 32, 64, 128} -> Nat]: the bits a width stands for

ASSUME BitsAssumption ==
  /\ DOMAIN Bits = {1, 8, 16, 32, 64, 128} /\ Bits[1] = 1
  /\ \A w \in DOMAIN Bits : Bits[w] \in Nat
  /\ \A v, w \in DOMAIN Bits : v < w => Bits[v] < Bits[w]

SignedTypes == {"int8", "int16", "int32", "int64"}
UnsignedTypes == {"uint8", "uint16", "uint32", "uint64", "char"}
SizedTypes == SignedTypes \cup UnsignedTypes

(* numBits() *)
Width == [int8 |-> 8, int16 |-> 16, int32 |-> 32, int64 |-> 64, uint8 |-> 8,
          uint16 |-> 16, uint32 |-> 32, uint64 |-> 64, char |-> 32, bool |-> 1]
NumBits(t) == Bits[Width[t]]

(* How many bits a value takes, signed and unsigned.                       *)
SignedBits(v) ==
  CHOOSE n \in 1 .. Bits[128] + 1 :
    /\ -(2 ^ (n - 1)) <= v /\ v < 2 ^ (n - 1)
    /\ n = 1 \/ v < -(2 ^ (n - 2)) \/ v >= 2 ^ (n - 2)
ActiveBits(v, bits) == IF v < 0 THEN bits ELSE SignedBits(v) - 1

Fits(v, t) ==
  IF t \in SignedTypes THEN SignedBits(v) <= NumBits(t)
  ELSE 0 <= v /\ v < 2 ^ NumBits(t)

(* The value of the low bits of v, read as t does.                         *)
Signed(v, bits) == ((v + 2 ^ (bits - 1)) % 2 ^ bits) - 2 ^ (bits - 1)
Wrap(v, t) ==
  IF t \in SignedTypes THEN Signed(v, NumBits(t)) ELSE v % 2 ^ NumBits(t)

-----------------------------------------------------------------------------
(* Subtypes.                                                               *)

MoreGeneral ==
  [int8 |-> {"int16", "int32", "int64"}, int16 |-> {"int32", "int64"},
   int32 |-> {"int64"}, int64 |-> {},
   uint8 |-> {"int16", "int32", "int64", "uint16", "uint32", "uint64"},
   uint16 |-> {"int32", "int64", "uint32", "uint64"},
   uint32 |-> {"int64", "uint64"}, uint64 |-> {}, char |-> {}, bool |-> {}]
SizedSubtype(s, t) == s = t \/ t \in MoreGeneral[s]

(* A literal is a subtype of what holds its value.                         *)
LiteralSubtype(v, t) ==
  IF t \in UnsignedTypes THEN v >= 0 /\ SignedBits(v) - 1 <= NumBits(t)
  ELSE SignedBits(v) <= NumBits(t)

(* commonBase(): the first supertype of s, in the order the code tries     *)
(* them, that is one of t; "none" if there is none.  It depends on the     *)
(* order of its arguments.                                                 *)
BasesToTry ==
  [int8 |-> <<"int8", "int16", "int32", "int64">>, int16 |-> <<"int16", "int32", "int64">>,
   int32 |-> <<"int32", "int64">>, int64 |-> <<"int64">>,
   uint8 |-> <<"uint8", "uint16", "uint32", "uint64", "int64", "int32", "int16">>,
   uint16 |-> <<"uint16", "uint32", "uint64", "int64", "int32">>,
   uint32 |-> <<"uint32", "uint64", "int64">>,
   uint64 |-> <<"uint64">>, char |-> <<"char">>, bool |-> <<"bool">>]
FirstBase(s, IsBase(_)) ==
  LET Q == BasesToTry[s]
      N == {n \in DOMAIN Q : IsBase(Q[n])}
  IN IF N = {} THEN "none" ELSE Q[CHOOSE n \in N : \A m \in N : n <= m]

-----------------------------------------------------------------------------
(* Ranks of conversions.                                                   *)

Incompatible == 0
Truncation == 2
SignedUnsigned == 3
IntegerToBool == 5
NonPreferred == 6
ExactConversion == 7
IdenticalTypes == 8
IsWarning(rank) == rank < NonPreferred

(* Of a value the compiler does not know.                                  *)
VariableRank(s, t) ==
  LET narrower == NumBits(s) > NumBits(t)
  IN IF s = t THEN IdenticalTypes
     ELSE IF t = "bool" THEN IntegerToBool
     ELSE IF s = "bool"
       THEN IF t \in SignedTypes THEN ExactConversion ELSE Incompatible
     ELSE IF s \in SignedTypes /\ t \in UnsignedTypes THEN SignedUnsigned
     ELSE IF narrower THEN Truncation
     ELSE IF s \in UnsignedTypes /\ t \in SignedTypes
       THEN IF NumBits(s) = NumBits(t) THEN SignedUnsigned ELSE NonPreferred
     ELSE IF "char" \in {s, t} THEN NonPreferred
     ELSE ExactConversion

(* Mutant: one bit more than the type has.                                 *)
LiteralRankOneBitMore(v, bits, t) ==
  LET needed == IF t \in SignedTypes THEN SignedBits(v) - 1 ELSE ActiveBits(v, bits)
  IN IF needed > NumBits(t) THEN Truncation
     ELSE IF t \in SignedTypes THEN IdenticalTypes
     ELSE IF v < 0 THEN SignedUnsigned ELSE ExactConversion

(* Of a literal of a number of bits.                                       *)
LiteralRank(v, bits, t) ==
  LET needed == IF t \in SignedTypes THEN SignedBits(v) ELSE ActiveBits(v, bits)
  IN IF needed > NumBits(t) THEN Truncation
     ELSE IF t \in SignedTypes THEN IdenticalTypes
     ELSE IF v < 0 THEN SignedUnsigned ELSE ExactConversion

(* Of a constant of a sized type: only its bits are looked at, not whether *)
(* the sign means the same.                                                *)
ConstantRank(v, s, t) ==
  LET needed == IF s \in SignedTypes THEN SignedBits(v) ELSE ActiveBits(v, NumBits(s))
  IN IF s = t THEN IdenticalTypes
     ELSE IF t = "bool" THEN IntegerToBool
     ELSE IF s = "bool" THEN Incompatible
     ELSE IF needed > NumBits(t) THEN Truncation
     ELSE IF <<s, t>> \in {<<"char", "uint32">>, <<"uint32", "char">>, <<"int32", "char">>}
       THEN NonPreferred
     ELSE ExactConversion

-----------------------------------------------------------------------------
(* The size that is chosen for a literal.                                  *)

FitInteger(bits, unsigned) ==  \* int64 with an error if there is none
  LET T == {t \in (IF unsigned THEN UnsignedTypes \ {"char"} ELSE SignedTypes) :
              bits <= NumBits(t)}
  IN IF T = {} THEN "int64" ELSE CHOOSE t \in T : \A u \in T : NumBits(t) <= NumBits(u)
AtLeast(w, bits) == IF bits < Bits[w] THEN Bits[w] ELSE bits

(* Of a variable without a type (int is int32), of the expression of a     *)
(* switch, of a template argument that nothing else bounds.                *)
SizeOfVariable(v) ==
  LET bits == AtLeast(32, SignedBits(v))
  IN IF bits <= Bits[64] \/ v < 0 THEN FitInteger(bits, FALSE)
     ELSE FitInteger(SignedBits(v) - 1, TRUE)
SizeOfSwitch(v) == FitInteger(AtLeast(32, SignedBits(v)), FALSE)
SizeOfTemplate(v) == IF SignedBits(v) <= Bits[32] THEN "int32" ELSE "int64"
=============================================================================
