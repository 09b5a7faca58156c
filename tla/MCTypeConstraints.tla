------------------------- MODULE MCTypeConstraints --------------------------
(* Two parameters of rival candidates, integer types and literals.         *)
EXTENDS TypeConstraints, TLC

CONSTANTS a, b, c

MCBits == (1 :> 1) @@ (8 :> 2) @@ (16 :> 3) @@ (32 :> 4) @@ (64 :> 5) @@ (128 :> 6)
I == INSTANCE IntegerTypes WITH Bits <- MCBits

Of(name) == [name |-> name, value |-> 0]
Lit(v) == [name |-> "literal", value |-> v]

MCSized == {Of(n) : n \in I!SizedTypes \ {"char"}}
MCLiteral == {Lit(1), Lit(-1), Lit(7)}
MCType == MCSized \cup MCLiteral

MCSub(s, t) ==
  IF s.name = "literal"
    THEN IF t.name = "literal" THEN I!SignedBits(s.value) <= I!SignedBits(t.value)
         ELSE I!LiteralSubtype(s.value, t.name)
    ELSE t.name # "literal" /\ I!SizedSubtype(s.name, t.name)
MCBase(s, t) ==
  LET IsBase(n) == MCSub(t, Of(n))
      base == IF s.name = "literal" THEN "none" ELSE I!FirstBase(s.name, IsBase)
  IN IF base = "none" THEN NoType ELSE Of(base)
MCSizeOf(t) == Of(I!SizeOfTemplate(t.value))

MCOwner == <<a, b>>
MCRival(x, y) == {x, y} = {a, b}
Offer(p, t, k, v) == [param |-> p, type |-> t, kind |-> k, provisions |-> v]
MCOffers ==
  {Offer(1, t, "lower", {}) : t \in {Of("int8"), Of("uint8")} \cup MCLiteral}
  \cup {Offer(1, Of("int16"), k, {}) : k \in Kinds}
  \cup {Offer(1, Of("int16"), "exact", {c}), Offer(1, Of("uint8"), "upper", {c}),
        Offer(1, Of("int8"), "lower", {b})}
  \cup {Offer(2, Of("int8"), "lower", {}), Offer(2, Of("int8"), "upper", {c})}
=============================================================================
