---------------------------- MODULE FilterProofs ----------------------------
(***************************************************************************)
(* What the tool filter says of its flags, for every list of flag values   *)
(* and every page of tools, whatever a glob matches:                       *)
(*   - the patterns of a flag are the pieces of all its values but the     *)
(*     blank ones (BuildSet);                                              *)
(*   - a page keeps the tools that are permitted, each of them and no      *)
(*     other (FilterPage).                                                 *)
(***************************************************************************)
EXTENDS CommandLine, SequenceTheorems, WellFoundedInduction, TLAPS

-----------------------------------------------------------------------------
(* Numbers: a set of them that is not empty has a least one.               *)

LEMMA LeastNatural ==
  ASSUME NEW T, T \subseteq Nat, T # {}
  PROVE  \E x \in T : \A y \in T : x <= y
<1>1. OpToRel(<, Nat) = {ss \in Nat \X Nat : ss[1] < ss[2]}
  BY Zenon DEF OpToRel
<1>2. PICK x \in T : \A y \in T : ~(<<y, x>> \in OpToRel(<, Nat))
  BY NatLessThanWellFounded, WFMin
<1>3. \A y \in T : ~(<<y, x>> \in {ss \in Nat \X Nat : ss[1] < ss[2]})
  BY <1>1, <1>2, Zenon
<1>4. ASSUME NEW y \in T PROVE x <= y
  <2>1. x \in Nat /\ y \in Nat
    OBVIOUS
  <2>2. ~(<<y, x>> \in {ss \in Nat \X Nat : ss[1] < ss[2]})
    BY <1>3
  <2>3. ~(y < x)
    BY <2>1, <2>2
  <2> QED
    BY <2>1, <2>3
<1> QED
  BY <1>4

-----------------------------------------------------------------------------
(* The elements of a sequence of sequences.                                *)

LEMMA ElementsOfConcat ==
  ASSUME NEW S, NEW s \in Seq(S), NEW t \in Seq(S)
  PROVE  s \o t \in Seq(S) /\ ToSet(s \o t) = ToSet(s) \cup ToSet(t)
<1>1. /\ s \o t \in Seq(S)
      /\ Len(s \o t) = Len(s) + Len(t)
      /\ \A i \in 1 .. Len(s) + Len(t) :
           (s \o t)[i] = IF i <= Len(s) THEN s[i] ELSE t[i - Len(s)]
  BY ConcatProperties
<1>2. /\ DOMAIN s = 1 .. Len(s) /\ Len(s) \in Nat
      /\ DOMAIN t = 1 .. Len(t) /\ Len(t) \in Nat
      /\ DOMAIN (s \o t) = 1 .. Len(s) + Len(t)
  BY <1>1, LenProperties
<1> DEFINE st == s \o t
<1> HIDE DEF st
<1>3. ASSUME NEW i \in DOMAIN st PROVE st[i] \in ToSet(s) \cup ToSet(t)
  <2>1. i <= Len(s) => i \in DOMAIN s /\ st[i] = s[i]
    BY <1>1, <1>2 DEF st
  <2>2. ~(i <= Len(s)) => (i - Len(s)) \in DOMAIN t /\ st[i] = t[i - Len(s)]
    BY <1>1, <1>2 DEF st
  <2> QED
    BY <2>1, <2>2 DEF ToSet
<1>4. ASSUME NEW i \in DOMAIN s PROVE s[i] \in ToSet(st)
  <2>1. i \in DOMAIN st /\ st[i] = s[i]
    BY <1>1, <1>2 DEF st
  <2> QED
    BY <2>1 DEF ToSet
<1>5. ASSUME NEW i \in DOMAIN t PROVE t[i] \in ToSet(st)
  <2>1. (i + Len(s)) \in DOMAIN st /\ st[i + Len(s)] = t[i]
    BY <1>1, <1>2 DEF st
  <2> QED
    BY <2>1 DEF ToSet
<1>6. ToSet(st) = ToSet(s) \cup ToSet(t)
  BY <1>3, <1>4, <1>5, Zenon DEF ToSet
<1> QED
  BY <1>1, <1>6 DEF st

\* f is the function that FlattenSeq builds on the first n of seqs.
Flattens(f, seqs, n) ==
  f = [i \in 1 .. n |-> IF i = 1 THEN seqs[i] ELSE f[i - 1] \o seqs[i]]

LEMMA SomethingFlattens ==
  ASSUME NEW seqs, NEW n \in Nat
  PROVE  \E f : Flattens(f, seqs, n)
<1> DEFINE T == {m \in Nat : ~ \E f : Flattens(f, seqs, m)}
<1>1. ASSUME T # {} PROVE FALSE
  <2>1. PICK x \in T : \A y \in T : x <= y
    BY <1>1, LeastNatural
  <2>2. x # 0
    <3>1. Flattens(<<>>, seqs, 0)
      BY DEF Flattens
    <3> QED
      BY <3>1
  <2>3. x - 1 \in Nat /\ x - 1 \notin T
    <3>1. x \in Nat
      OBVIOUS
    <3> HIDE DEF T
    <3> QED
      BY <2>1, <2>2, <3>1
  <2>4. PICK g : Flattens(g, seqs, x - 1)
    BY <2>3
  <2> DEFINE f == [i \in 1 .. x |-> IF i = 1 THEN seqs[i] ELSE g[i - 1] \o seqs[i]]
  <2>5. ASSUME NEW i \in 1 .. x PROVE f[i] = IF i = 1 THEN seqs[i] ELSE f[i - 1] \o seqs[i]
    <3>1. x \in Nat
      OBVIOUS
    <3>2. CASE i = 1
      BY <3>2
    <3>3. CASE i # 1
      <4>1. i - 1 \in 1 .. x - 1 /\ i - 1 \in 1 .. x
        BY <3>1, <3>3
      <4>2. g[i - 1] = IF i - 1 = 1 THEN seqs[i - 1] ELSE g[i - 1 - 1] \o seqs[i - 1]
        BY <2>4, <4>1 DEF Flattens
      <4>3. f[i - 1] = IF i - 1 = 1 THEN seqs[i - 1] ELSE g[i - 1 - 1] \o seqs[i - 1]
        BY <4>1
      <4>4. f[i] = g[i - 1] \o seqs[i]
        BY <3>3
      <4> HIDE DEF f
      <4> QED
        BY <3>3, <4>2, <4>3, <4>4
    <3> QED
      BY <3>2, <3>3
  <2>6. f = [i \in 1 .. x |-> IF i = 1 THEN seqs[i] ELSE f[i - 1] \o seqs[i]]
    <3>1. f = [i \in 1 .. x |-> f[i]]
      OBVIOUS
    <3> HIDE DEF f
    <3> QED
      BY <2>5, <3>1, Zenon
  <2>7. Flattens(f, seqs, x)
    BY <2>6 DEF Flattens
  <2> HIDE DEF f
  <2> QED
    BY <2>7
<1> QED
  BY <1>1

\* What the first n of seqs have.
Gathered(seqs, n) == UNION {ToSet(seqs[j]) : j \in 1 .. n}

\* Every prefix has the elements of its members.
LEMMA ElementsOfFlattening ==
  ASSUME NEW S, NEW seqs \in Seq(Seq(S)), NEW f, Flattens(f, seqs, Len(seqs)),
         NEW n \in 1 .. Len(seqs)
  PROVE  f[n] \in Seq(S) /\ ToSet(f[n]) = Gathered(seqs, n)
<1> DEFINE P(m) == f[m] \in Seq(S) /\ ToSet(f[m]) = Gathered(seqs, m)
           T == {m \in 1 .. Len(seqs) : ~P(m)}
<1>0. Len(seqs) \in Nat
  BY LenProperties
<1>1. ASSUME T # {} PROVE FALSE
  <2>0. T \subseteq Nat
    BY <1>0
  <2>1. PICK x \in T : \A y \in T : x <= y
    <3> HIDE DEF T
    <3> QED
      BY <1>1, <2>0, LeastNatural
  <2>2. x \in 1 .. Len(seqs) /\ seqs[x] \in Seq(S)
    BY <1>0, ElementOfSeq
  <2>3. f[x] = IF x = 1 THEN seqs[x] ELSE f[x - 1] \o seqs[x]
    BY <1>0, <2>2 DEF Flattens
  <2>4. CASE x = 1
    <3>1. 1 .. x = {1}
      BY <2>4
    <3>2. f[x] = seqs[x]
      BY <2>3, <2>4
    <3>3. ToSet(f[x]) = Gathered(seqs, x)
      BY <2>4, <3>1, <3>2, Zenon DEF Gathered
    <3> QED
      BY <2>2, <3>2, <3>3
  <2>5. CASE x # 1
    <3>1. x - 1 \in 1 .. Len(seqs) /\ ~(x <= x - 1)
      BY <1>0, <2>2, <2>5
    <3>2. P(x - 1)
      <4>1. x - 1 \notin T
        <5> HIDE DEF T
        <5> QED
          BY <2>1, <3>1
      <4> HIDE DEF P
      <4> QED
        BY <3>1, <4>1
    <3>3. f[x] = f[x - 1] \o seqs[x]
      BY <2>3, <2>5
    <3>4. f[x] \in Seq(S) /\ ToSet(f[x]) = ToSet(f[x - 1]) \cup ToSet(seqs[x])
      BY <2>2, <3>2, <3>3, ElementsOfConcat
    <3>5. 1 .. x = (1 .. x - 1) \cup {x}
      BY <2>2, <1>0
    <3>6. Gathered(seqs, x) = Gathered(seqs, x - 1) \cup ToSet(seqs[x])
      BY <3>5, Zenon DEF Gathered
    <3> QED
      BY <3>2, <3>4, <3>6
  <2> QED
    BY <2>4, <2>5
<1> QED
  BY <1>1

\* What the members of seqs have.
Elements(seqs) == UNION {ToSet(seqs[j]) : j \in DOMAIN seqs}

\* FlattenSeq, which flat_map is modelled by: what it has is what its members
\* have.
LEMMA ElementsOfFlattenSeq ==
  ASSUME NEW S, NEW seqs \in Seq(Seq(S))
  PROVE  ToSet(FlattenSeq(seqs)) = Elements(seqs)
<1>1. Len(seqs) \in Nat /\ DOMAIN seqs = 1 .. Len(seqs)
  BY LenProperties
<1>2. CASE Len(seqs) = 0
  <2>1. DOMAIN seqs = {}
    BY <1>1, <1>2
  <2>2. FlattenSeq(seqs) = seqs
    BY <1>2 DEF FlattenSeq
  <2> QED
    BY <2>1, <2>2, Zenon DEF ToSet, Elements
<1>3. CASE Len(seqs) # 0
  <2>1. PICK f : Flattens(f, seqs, Len(seqs)) /\ FlattenSeq(seqs) = f[Len(seqs)]
    <3> DEFINE f == CHOOSE g : g = [i \in 1 .. Len(seqs) |-> IF i = 1 THEN seqs[i] ELSE g[i - 1] \o seqs[i]]
    <3>1. FlattenSeq(seqs) = f[Len(seqs)]
      BY <1>3, Zenon DEF FlattenSeq
    <3>2. \E g : g = [i \in 1 .. Len(seqs) |-> IF i = 1 THEN seqs[i] ELSE g[i - 1] \o seqs[i]]
      BY <1>1, SomethingFlattens DEF Flattens
    <3>3. f = [i \in 1 .. Len(seqs) |-> IF i = 1 THEN seqs[i] ELSE f[i - 1] \o seqs[i]]
      BY <3>2, Zenon
    <3> HIDE DEF f
    <3> QED
      BY <3>1, <3>3 DEF Flattens
  <2>2. Len(seqs) \in 1 .. Len(seqs)
    BY <1>1, <1>3
  <2>3. ToSet(f[Len(seqs)]) = UNION {ToSet(seqs[j]) : j \in 1 .. Len(seqs)}
    <3>1. ToSet(f[Len(seqs)]) = Gathered(seqs, Len(seqs))
      BY <2>1, <2>2, ElementsOfFlattening
    <3> QED
      BY <3>1, Zenon DEF Gathered
  <2> QED
    BY <1>1, <2>1, <2>3, Zenon DEF Elements
<1> QED
  BY <1>2, <1>3

-----------------------------------------------------------------------------
(* The flags.                                                              *)

\* The patterns of a flag, whichever of its values they are a piece of.
Patterns(values) == Elements(values) \ {""}

Wanted(allow, deny, t) ==
  /\ Patterns(allow) = {} \/ \E g \in Patterns(allow) : Matches(g, t)
  /\ \A g \in Patterns(deny) : ~Matches(g, t)

LEMMA WhatBuildSetSays ==
  ASSUME NEW values \in Seq(Seq(STRING)), BuildSet(values).ok
  PROVE  BuildSet(values) = Parsed(IF Patterns(values) = {} THEN <<>> ELSE <<Patterns(values)>>)
<1>1. ToSet(FlattenSeq(values)) \ {""} = Patterns(values)
  BY ElementsOfFlattenSeq DEF Patterns
<1> QED
  BY <1>1 DEF BuildSet, Refused

\* What serves permits what the flags want: deny beats allow, and no allow
\* list means every tool.
LEMMA PermittedIsWanted ==
  ASSUME NEW allow \in Seq(Seq(STRING)), NEW deny \in Seq(Seq(STRING)),
         FromCli(allow, deny).ok, NEW t
  PROVE  Permits(FromCli(allow, deny).value, t) <=> Wanted(allow, deny, t)
<1> DEFINE a == Patterns(allow)
           d == Patterns(deny)
           filter == FromCli(allow, deny).value
<1>1. BuildSet(allow).ok /\ BuildSet(deny).ok
  BY DEF FromCli, Refused
<1>2. /\ BuildSet(allow) = Parsed(IF a = {} THEN <<>> ELSE <<a>>)
      /\ BuildSet(deny) = Parsed(IF d = {} THEN <<>> ELSE <<d>>)
  BY <1>1, WhatBuildSetSays
<1> HIDE DEF a, d
<1>3. /\ filter.allow = IF a = {} THEN <<>> ELSE <<a>>
      /\ filter.deny = d
      /\ filter.noop <=> a = {} /\ d = {}
  <2> DEFINE x == IF a = {} THEN <<>> ELSE <<a>>
             y == IF d = {} THEN <<>> ELSE <<d>>
  <2>1. BuildSet(allow).value = x /\ BuildSet(deny).value = y
    BY <1>2 DEF Parsed
  <2>2. (x = <<>> <=> a = {}) /\ (y = <<>> <=> d = {}) /\ (d # {} => y[1] = d)
    OBVIOUS
  <2> HIDE DEF x, y
  <2>3. filter = [allow |-> x, deny |-> IF y = <<>> THEN {} ELSE y[1], noop |-> x = <<>> /\ y = <<>>]
    BY <1>1, <2>1 DEF FromCli, Parsed
  <2> HIDE DEF filter
  <2>4. /\ filter.allow = x
        /\ filter.deny = IF y = <<>> THEN {} ELSE y[1]
        /\ filter.noop = (x = <<>> /\ y = <<>>)
    BY <2>3
  <2> QED
    BY <2>2, <2>4 DEF x
<1> HIDE DEF filter
<1>4. (\A i \in DOMAIN filter.allow : IsMatch(filter.allow[i], t))
        <=> a = {} \/ \E g \in a : Matches(g, t)
  BY <1>3 DEF IsMatch
<1>5. ~IsMatch(filter.deny, t) <=> \A g \in d : ~Matches(g, t)
  BY <1>3 DEF IsMatch
<1>6. Permits(filter, t) <=> Wanted(allow, deny, t)
  BY <1>3, <1>4, <1>5 DEF Permits, Wanted, a, d
<1> QED
  BY <1>6 DEF filter

-----------------------------------------------------------------------------
(* A page.                                                                 *)

\* A page loses the tools that are not permitted and gains none.
LEMMA PageIsWhatIsPermitted ==
  ASSUME NEW S, NEW tools \in Seq(S), NEW filter
  PROVE  ToSet(FilterPage(filter, tools)) = {t \in ToSet(tools) : Permits(filter, t)}
<1>1. CASE filter.noop
  BY <1>1 DEF FilterPage, Permits
<1>2. CASE ~filter.noop
  <2> DEFINE pieces == [i \in DOMAIN tools |-> IF Permits(filter, tools[i]) THEN <<tools[i]>> ELSE <<>>]
  <2>1. FilterPage(filter, tools) = FlattenSeq(pieces)
    BY <1>2 DEF FilterPage
  <2>2. Len(tools) \in Nat /\ DOMAIN tools = 1 .. Len(tools)
    BY LenProperties
  <2>3. \A i \in DOMAIN tools : tools[i] \in S
    BY <2>2, ElementOfSeq
  <2>4. \A i \in DOMAIN tools : pieces[i] \in Seq(S)
    <3>1. <<>> \in Seq(S)
      BY EmptySeq
    <3>2. \A x \in S : <<x>> \in Seq(S)
      OBVIOUS
    <3> QED
      BY <2>3, <3>1, <3>2
  <2>5. DOMAIN pieces = 1 .. Len(tools) /\ pieces \in Seq(Seq(S))
    <3>1. DOMAIN pieces = 1 .. Len(tools)
      BY <2>2
    <3>2. pieces \in [1 .. Len(tools) -> Seq(S)]
      BY <2>2, <2>4
    <3> HIDE DEF pieces
    <3>3. pieces \in UNION {[1 .. n -> Seq(S)] : n \in Nat}
      BY <2>2, <3>2
    <3> QED
      BY <3>1, <3>3, SeqDef, Zenon
  <2>6. \A i \in DOMAIN tools : ToSet(pieces[i]) = {t \in {tools[i]} : Permits(filter, t)}
    <3> SUFFICES ASSUME NEW i \in DOMAIN tools
                 PROVE  ToSet(pieces[i]) = {t \in {tools[i]} : Permits(filter, t)}
      OBVIOUS
    <3>1. CASE Permits(filter, tools[i])
      <4>1. pieces[i] = <<tools[i]>>
        BY <3>1
      <4>2. \A x : ToSet(<<x>>) = {x}
        BY DEF ToSet
      <4> HIDE DEF pieces
      <4> QED
        BY <3>1, <4>1, <4>2
    <3>2. CASE ~Permits(filter, tools[i])
      <4>1. pieces[i] = <<>>
        BY <3>2
      <4>2. ToSet(<<>>) = {}
        BY DEF ToSet
      <4> HIDE DEF pieces
      <4> QED
        BY <3>2, <4>1, <4>2
    <3> QED
      BY <3>1, <3>2
  <2> HIDE DEF pieces
  <2>7. ToSet(FlattenSeq(pieces)) = Elements(pieces)
    BY <2>5, ElementsOfFlattenSeq
  <2>8. \A t : t \in Elements(pieces) <=> \E i \in DOMAIN tools : t \in ToSet(pieces[i])
    BY <2>2, <2>5, Zenon DEF Elements
  <2>9. \A t : t \in ToSet(tools) <=> \E i \in DOMAIN tools : t = tools[i]
    BY Zenon DEF ToSet
  <2>10. \A t : t \in Elements(pieces) <=> t \in ToSet(tools) /\ Permits(filter, t)
    BY <2>6, <2>8, <2>9
  <2> QED
    BY <2>1, <2>7, <2>10
<1> QED
  BY <1>1, <1>2
=============================================================================
