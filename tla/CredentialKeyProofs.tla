------------------------- MODULE CredentialKeyProofs -------------------------
(***************************************************************************)
(* What the credential key says of the arguments, for every URL and every  *)
(* resource indicator: two launches have one key exactly when they name    *)
(* the same server (scheme, host, effective port, path up to the slashes   *)
(* it ends in) and the same resource.                                      *)
(***************************************************************************)
EXTENDS Startup, SequenceTheorems, WellFoundedInduction, TLAPS

-----------------------------------------------------------------------------
(* Where the slashes at the end of a path begin.                           *)

\* A bounded set of numbers has a greatest one.
LEMMA MaxOfNaturals ==
  ASSUME NEW S, S \subseteq Nat, S # {}, NEW n \in Nat, \A s \in S : s <= n
  PROVE  Max(S) \in S /\ \A s \in S : s <= Max(S)
<1> DEFINE T == {n - s : s \in S}
<1>1. OpToRel(<, Nat) = {ss \in Nat \X Nat : ss[1] < ss[2]}
  BY Zenon DEF OpToRel
<1>2. T \subseteq Nat /\ T # {}
  <2>1. \A s \in S : n - s \in Nat
    OBVIOUS
  <2> QED
    BY <2>1
<1>3. PICK x \in T : \A y \in T : ~(<<y, x>> \in OpToRel(<, Nat))
  BY <1>2, NatLessThanWellFounded, WFMin
<1>4. \A y \in T : ~(<<y, x>> \in {ss \in Nat \X Nat : ss[1] < ss[2]})
  BY <1>1, <1>3, Zenon
<1>5. ASSUME NEW y \in T PROVE x <= y
  <2> HIDE DEF T
  <2>1. x \in Nat /\ y \in Nat
    BY <1>2
  <2>2. ~(<<y, x>> \in {ss \in Nat \X Nat : ss[1] < ss[2]})
    BY <1>4
  <2>3. ~(y < x)
    BY <2>1, <2>2
  <2> QED
    BY <2>1, <2>3
<1>6. PICK m \in S : x = n - m
  BY <1>3
<1>7. \A s \in S : s <= m
  <2> SUFFICES ASSUME NEW s \in S PROVE s <= m
    OBVIOUS
  <2>1. n - s \in T
    OBVIOUS
  <2>2. x <= n - s
    BY <1>5, <2>1
  <2> HIDE DEF T
  <2> QED
    BY <1>6, <2>2
<1> HIDE DEF T
<1>8. \E k \in S : \A s \in S : k >= s
  BY <1>7
<1> QED
  BY <1>8 DEF Max

LastSegment(path) == Max({0} \cup {i \in DOMAIN path : path[i] # ""})

LEMMA LastMark ==
  ASSUME NEW n \in Nat, NEW marks, marks \subseteq 1 .. n
  PROVE  /\ Max({0} \cup marks) \in 0 .. n
         /\ Max({0} \cup marks) # 0 => Max({0} \cup marks) \in marks
         /\ \A i \in marks : i <= Max({0} \cup marks)
<1> DEFINE all == {0} \cup marks
<1>1. all \subseteq Nat /\ all # {} /\ \A i \in all : i <= n
  OBVIOUS
<1>2. Max(all) \in all /\ \A i \in all : i <= Max(all)
  <2> HIDE DEF all
  <2> QED
    BY <1>1, MaxOfNaturals
<1>3. /\ Max(all) \in 0 .. n
      /\ Max(all) = 0 \/ Max(all) \in marks
      /\ \A i \in marks : i <= Max(all)
  <2>1. \A i : i \in all <=> i = 0 \/ i \in marks
    OBVIOUS
  <2> DEFINE m == Max(all)
  <2>2. m \in all /\ \A i \in all : i <= m
    BY <1>2
  <2> HIDE DEF all, m
  <2>3. m \in Nat /\ m <= n
    BY <1>1, <2>2
  <2>4. m = 0 \/ m \in marks
    BY <2>1, <2>2
  <2>5. \A i \in marks : i <= m
    BY <2>1, <2>2
  <2> QED
    BY <2>3, <2>4, <2>5 DEF m
<1> QED
  BY <1>3

\* What trim_end_matches('/') leaves of a path ends in its last segment.
LEMMA WhereSlashesBegin ==
  ASSUME NEW S, NEW path \in Seq(S)
  PROVE  /\ LastSegment(path) \in 0 .. Len(path)
         /\ LastSegment(path) # 0 => path[LastSegment(path)] # ""
         /\ \A i \in 1 .. Len(path) : i > LastSegment(path) => path[i] = ""
<1> DEFINE marks == {i \in DOMAIN path : path[i] # ""}
<1>1. DOMAIN path = 1 .. Len(path) /\ Len(path) \in Nat
  BY LenProperties
<1>2. marks \subseteq 1 .. Len(path)
  BY <1>1
<1>3. LastSegment(path) = Max({0} \cup marks)
  BY DEF LastSegment
<1>4. /\ LastSegment(path) \in 0 .. Len(path)
      /\ LastSegment(path) # 0 => LastSegment(path) \in marks
      /\ \A i \in marks : i <= LastSegment(path)
  <2> HIDE DEF marks, LastSegment
  <2> QED
    BY <1>1, <1>2, <1>3, LastMark
<1>5. ASSUME NEW i \in 1 .. Len(path), i > LastSegment(path) PROVE path[i] = ""
  <2>1. i \notin marks
    <3> HIDE DEF marks, LastSegment
    <3> QED
      BY <1>1, <1>4, <1>5
  <2> QED
    BY <1>1, <2>1
<1>6. LastSegment(path) # 0 => path[LastSegment(path)] # ""
  BY <1>4
<1> QED
  BY <1>4, <1>5, <1>6

LEMMA TrimmedPath ==
  ASSUME NEW S, NEW path \in Seq(S)
  PROVE  /\ TrimSlashes(path) \in Seq(S) /\ Len(TrimSlashes(path)) = LastSegment(path)
         /\ \A i \in 1 .. LastSegment(path) : TrimSlashes(path)[i] = path[i]
<1>1. LastSegment(path) \in 0 .. Len(path) /\ Len(path) \in Nat
  BY WhereSlashesBegin, LenProperties
<1>2. TrimSlashes(path) = SubSeq(path, 1, LastSegment(path))
  BY DEF TrimSlashes, LastSegment
<1>3. \A i \in 1 .. LastSegment(path) : path[i] \in S
  BY <1>1, ElementOfSeq
<1>4. 1 \in Int /\ LastSegment(path) \in Int
  BY <1>1
<1> HIDE DEF LastSegment
<1>5. /\ SubSeq(path, 1, LastSegment(path)) \in Seq(S)
      /\ Len(SubSeq(path, 1, LastSegment(path)))
           = IF 1 <= LastSegment(path) THEN LastSegment(path) - 1 + 1 ELSE 0
      /\ \A i \in 1 .. LastSegment(path) - 1 + 1 : SubSeq(path, 1, LastSegment(path))[i] = path[1 + i - 1]
  BY <1>3, <1>4, SubSeqProperties
<1> QED
  BY <1>1, <1>2, <1>5

LEMMA MinOfTwo ==
  ASSUME NEW m \in Nat, NEW n \in Nat
  PROVE  Min({m, n}) \in {m, n} /\ Min({m, n}) <= m /\ Min({m, n}) <= n
<1>1. \E k \in {m, n} : \A j \in {m, n} : k =< j
  BY m <= n \/ n <= m
<1> QED
  BY <1>1 DEF Min

\* What SamePath says, without its pairs.
LEMMA SamePathSpelledOut ==
  ASSUME NEW p, NEW q
  PROVE  LET k == Min({Len(p), Len(q)})
         IN  SamePath(p, q) <=> /\ \A i \in 1 .. k : p[i] = q[i]
                                /\ \A i \in (k + 1) .. Len(p) : p[i] = ""
                                /\ \A i \in (k + 1) .. Len(q) : q[i] = ""
<1>1. \A x, y : (x = y \/ {x, y} = {""}) <=> x = y
  <2> SUFFICES ASSUME NEW x, NEW y, {x, y} = {""} PROVE x = y
    OBVIOUS
  <2>1. x \in {x, y} /\ y \in {x, y}
    OBVIOUS
  <2> QED
    BY <2>1
<1> QED
  BY <1>1, Zenon DEF SamePath

Marks(path) == {i \in DOMAIN path : path[i] # ""}

\* How far two paths go together.
LEMMA CommonLength ==
  ASSUME NEW S, NEW p \in Seq(S), NEW q \in Seq(S)
  PROVE  /\ Len(p) \in Nat /\ Len(q) \in Nat
         /\ DOMAIN p = 1 .. Len(p) /\ DOMAIN q = 1 .. Len(q)
         /\ Min({Len(p), Len(q)}) \in {Len(p), Len(q)}
         /\ Min({Len(p), Len(q)}) <= Len(p) /\ Min({Len(p), Len(q)}) <= Len(q)
<1> DEFINE m == Len(p)
           n == Len(q)
<1>1. m \in Nat /\ n \in Nat /\ DOMAIN p = 1 .. m /\ DOMAIN q = 1 .. n
  BY LenProperties
<1>2. Min({m, n}) \in {m, n} /\ Min({m, n}) <= m /\ Min({m, n}) <= n
  <2> HIDE DEF m, n
  <2> QED
    BY <1>1, MinOfTwo
<1> QED
  BY <1>1, <1>2

\* A number of the first k is one of the first m, if k is at most m.
LEMMA Among ==
  ASSUME NEW m \in Nat, NEW k \in Nat, k <= m, NEW i \in 1 .. m
  PROVE  i \in 1 .. k \/ i \in (k + 1) .. m
OBVIOUS

LEMMA SamePathSameMarks ==
  ASSUME NEW S, NEW p \in Seq(S), NEW q \in Seq(S), SamePath(p, q)
  PROVE  /\ Marks(p) = Marks(q)
         /\ \A i \in Marks(p) : i <= Min({Len(p), Len(q)})
         /\ \A i \in 1 .. Min({Len(p), Len(q)}) : p[i] = q[i]
<1> DEFINE m == Len(p)
           n == Len(q)
           k == Min({Len(p), Len(q)})
<1>1. /\ m \in Nat /\ n \in Nat /\ k \in Nat /\ k <= m /\ k <= n
      /\ DOMAIN p = 1 .. m /\ DOMAIN q = 1 .. n
  BY CommonLength
<1>2. /\ \A i \in 1 .. k : p[i] = q[i]
      /\ \A i \in (k + 1) .. m : p[i] = ""
      /\ \A i \in (k + 1) .. n : q[i] = ""
  BY SamePathSpelledOut
<1> HIDE DEF m, n, k
<1>3. 1 .. k \subseteq 1 .. m /\ 1 .. k \subseteq 1 .. n
  BY <1>1
<1>4. \A i \in 1 .. m : i \in 1 .. k \/ i \in (k + 1) .. m
  BY <1>1, Among
<1>5. \A i \in 1 .. n : i \in 1 .. k \/ i \in (k + 1) .. n
  BY <1>1, Among
<1>6. Marks(p) = {i \in 1 .. k : p[i] # ""}
  BY <1>1, <1>2, <1>3, <1>4, Zenon DEF Marks
<1>7. Marks(q) = {i \in 1 .. k : p[i] # ""}
  BY <1>1, <1>2, <1>3, <1>5, Zenon DEF Marks
<1>8. \A i \in 1 .. k : i <= k
  BY <1>1
<1>9. \A i \in Marks(p) : i <= k
  BY <1>6, <1>8, Zenon
<1> QED
  BY <1>2, <1>6, <1>7, <1>9, Zenon DEF k

\* Two spellings of a path are cut to the same path.
LEMMA SamePathIsSameTrimmed ==
  ASSUME NEW S, NEW p \in Seq(S), NEW q \in Seq(S)
  PROVE  TrimSlashes(p) = TrimSlashes(q) <=> SamePath(p, q)
<1> DEFINE a == LastSegment(p)
           b == LastSegment(q)
           m == Len(p)
           n == Len(q)
           k == Min({Len(p), Len(q)})
<1>1. /\ m \in Nat /\ n \in Nat /\ k \in Nat /\ k <= m /\ k <= n /\ k \in {m, n}
      /\ DOMAIN p = 1 .. m /\ DOMAIN q = 1 .. n
  BY CommonLength
<1>2. /\ a \in 0 .. m /\ (a # 0 => p[a] # "")
      /\ \A i \in 1 .. m : i > a => p[i] = ""
      /\ b \in 0 .. n /\ \A i \in 1 .. n : i > b => q[i] = ""
  BY WhereSlashesBegin
<1>3. /\ TrimSlashes(p) \in Seq(S) /\ Len(TrimSlashes(p)) = a
      /\ \A i \in 1 .. a : TrimSlashes(p)[i] = p[i]
      /\ TrimSlashes(q) \in Seq(S) /\ Len(TrimSlashes(q)) = b
      /\ \A i \in 1 .. b : TrimSlashes(q)[i] = q[i]
  BY TrimmedPath
<1>4. SamePath(p, q) <=> /\ \A i \in 1 .. k : p[i] = q[i]
                         /\ \A i \in (k + 1) .. m : p[i] = ""
                         /\ \A i \in (k + 1) .. n : q[i] = ""
  BY SamePathSpelledOut
<1>5. a \in 0 .. m /\ b \in 0 .. n /\ (k = m \/ k = n)
  BY <1>1, <1>2, Zenon
<1>6. m \in Nat /\ n \in Nat /\ k \in Nat /\ k <= m /\ k <= n
  BY <1>1
<1>7. ASSUME TrimSlashes(p) = TrimSlashes(q) PROVE SamePath(p, q)
  <2>1. a = b /\ \A i \in 1 .. a : p[i] = q[i]
    BY <1>3, <1>7, Zenon
  <2> HIDE DEF a, b, m, n, k
  <2>2. a \in Nat /\ a <= k
    <3>1. a = b
      BY <2>1
    <3> QED
      BY <1>5, <1>6, <3>1
  <2>3. \A i \in 1 .. k : i \in 1 .. m /\ i \in 1 .. n /\ (i \in 1 .. a \/ i > a)
    BY <1>1, <2>2
  <2>4. \A i \in (k + 1) .. m : i \in 1 .. m /\ i > a
    BY <1>1, <2>2
  <2>5. \A i \in (k + 1) .. n : i \in 1 .. n /\ i > a
    BY <1>1, <2>2
  <2>6. \A i \in 1 .. k : p[i] = q[i]
    BY <1>2, <2>1, <2>3, Zenon
  <2>7. \A i \in (k + 1) .. m : p[i] = ""
    BY <1>2, <2>4, Zenon
  <2>8. \A i \in (k + 1) .. n : q[i] = ""
    BY <1>2, <2>1, <2>5, Zenon
  <2> QED
    BY <1>4, <2>6, <2>7, <2>8, Zenon
<1>8. ASSUME SamePath(p, q) PROVE TrimSlashes(p) = TrimSlashes(q)
  <2>1. /\ Marks(p) = Marks(q) /\ \A i \in Marks(p) : i <= k
        /\ \A i \in 1 .. k : p[i] = q[i]
    BY <1>8, SamePathSameMarks
  <2>2. a = b
    BY <2>1 DEF LastSegment, Marks
  <2>3. a \in Nat /\ a <= k
    <3>1. a # 0 => a \in 1 .. m
      <4> HIDE DEF a, b, k, m, n
      <4> QED
        BY <1>5, <1>6
    <3>2. a # 0 => a \in Marks(p)
      BY <1>1, <1>2, <3>1 DEF Marks
    <3> HIDE DEF a, b, k, m, n
    <3>3. CASE a = 0
      BY <1>1, <3>3
    <3>4. CASE a # 0
      <4>1. a <= k
        BY <2>1, <3>2, <3>4, Zenon
      <4> QED
        BY <1>5, <1>6, <4>1
    <3> QED
      BY <3>3, <3>4
  <2>4. \A i \in 1 .. a : i \in 1 .. k
    <3> HIDE DEF a, b, k, m, n
    <3> QED
      BY <1>1, <2>3
  <2>5. \A i \in 1 .. a : TrimSlashes(p)[i] = TrimSlashes(q)[i]
    BY <1>3, <2>1, <2>2, <2>4, Zenon
  <2> HIDE DEF a, b, k, m, n
  <2> QED
    BY <1>3, <2>2, <2>5, SeqEqual
<1> QED
  BY <1>7, <1>8

\* What is left is never a single "/".
LEMMA NeverBlank ==
  ASSUME NEW S, NEW p \in Seq(S)
  PROVE  TrimSlashes(p) # <<"">>
<1>1. 1 \in 1 .. 1 /\ 1 # 0
  OBVIOUS
<1> SUFFICES ASSUME TrimSlashes(p) = <<"">> PROVE FALSE
  OBVIOUS
<1>2. Len(<<"">>) = 1 /\ <<"">>[1] = ""
  OBVIOUS
<1>3. LastSegment(p) = 1
  BY <1>2, TrimmedPath
<1> DEFINE trimmed == TrimSlashes(p)
           last == LastSegment(p)
<1>4. trimmed[1] = "" /\ last = 1 /\ \A i \in 1 .. last : trimmed[i] = p[i]
  BY <1>2, <1>3, TrimmedPath
<1>5. last # 0 => p[last] # ""
  BY WhereSlashesBegin
<1> HIDE DEF trimmed, last
<1> QED
  BY <1>1, <1>4, <1>5, Zenon

\* An empty path is the root, and the root is cut to nothing.
LEMMA RootIsCutToNothing == TrimSlashes(<<>>) = <<>> /\ TrimSlashes(<<"">>) = <<>>
<1>1. <<>> \in Seq({""}) /\ Len(<<>>) = 0
  BY EmptySeq
<1>2. <<"">> \in Seq({""}) /\ Len(<<"">>) = 1 /\ <<"">>[1] = ""
  OBVIOUS
<1> DEFINE a == LastSegment(<<>>)
           b == LastSegment(<<"">>)
<1>3. a \in 0 .. 0
  BY <1>1, WhereSlashesBegin
<1>4. b \in 0 .. 1 /\ (b # 0 => <<"">>[b] # "")
  BY <1>2, WhereSlashesBegin
<1>5. /\ TrimSlashes(<<>>) \in Seq({""}) /\ Len(TrimSlashes(<<>>)) = a
      /\ TrimSlashes(<<"">>) \in Seq({""}) /\ Len(TrimSlashes(<<"">>)) = b
  BY <1>1, <1>2, TrimmedPath
<1>6. b # 1
  <2>1. 1 # 0
    OBVIOUS
  <2> HIDE DEF b
  <2> QED
    BY <1>2, <1>4, <2>1, Zenon
<1>7. a = 0 /\ b = 0
  <2>1. \A x \in 0 .. 0 : x = 0
    OBVIOUS
  <2>2. \A x \in 0 .. 1 : x = 0 \/ x = 1
    OBVIOUS
  <2> HIDE DEF a, b
  <2> QED
    BY <1>3, <1>4, <1>6, <2>1, <2>2, Zenon
<1> HIDE DEF a, b
<1> QED
  BY <1>5, <1>7, EmptySeq

\* What is kept of a server's URL.
LEMMA WhatNormalizationKeeps ==
  ASSUME NEW S, NEW u, u.path \in Seq(S)
  PROVE  NormalizeServerUrl(u) =
           [scheme |-> u.scheme, host |-> u.host,
            port |-> IF u.port = DefaultPort(u.scheme) THEN 0 ELSE u.port,
            path |-> IF TrimSlashes(u.path) = <<>> THEN <<"">> ELSE TrimSlashes(u.path),
            query |-> FALSE, fragment |-> FALSE]
<1>1. TrimSlashes(UrlParse(u).path) = TrimSlashes(u.path)
  BY RootIsCutToNothing DEF UrlParse
<1> DEFINE d == DefaultPort(u.scheme)
           t == TrimSlashes(u.path)
           parsed == UrlParse(u)
<1>2. parsed = [scheme |-> u.scheme, host |-> u.host,
                port |-> IF u.port = d THEN 0 ELSE u.port, path |-> parsed.path,
                query |-> u.query, fragment |-> u.fragment]
  BY DEF UrlParse
<1>3. NormalizeServerUrl(u) =
        [parsed EXCEPT !.query = FALSE, !.fragment = FALSE,
                       !.port = IF @ = d THEN 0 ELSE @,
                       !.path = IF t = <<>> THEN <<"">> ELSE t]
  <2>1. parsed.scheme = u.scheme
    BY <1>2
  <2>2. TrimSlashes(parsed.path) = t
    BY <1>1
  <2>3. NormalizeServerUrl(u) =
          [parsed EXCEPT !.query = FALSE, !.fragment = FALSE,
                         !.port = IF @ = DefaultPort(parsed.scheme) THEN 0 ELSE @,
                         !.path = IF TrimSlashes(parsed.path) = <<>> THEN <<"">>
                                  ELSE TrimSlashes(parsed.path)]
    BY Zenon DEF NormalizeServerUrl
  <2> HIDE DEF parsed
  <2> QED
    BY <2>1, <2>2, <2>3
<1> DEFINE port == IF u.port = d THEN 0 ELSE u.port
           path == parsed.path
           kept == IF t = <<>> THEN <<"">> ELSE t
<1>4. (IF port = d THEN 0 ELSE port) = port
  OBVIOUS
<1>5. NormalizeServerUrl(u) =
        [[scheme |-> u.scheme, host |-> u.host, port |-> port, path |-> path,
          query |-> u.query, fragment |-> u.fragment]
           EXCEPT !.query = FALSE, !.fragment = FALSE,
                  !.port = IF @ = d THEN 0 ELSE @, !.path = kept]
  BY <1>2, <1>3
<1>6. NormalizeServerUrl(u) =
        [scheme |-> u.scheme, host |-> u.host, port |-> port, path |-> kept,
         query |-> FALSE, fragment |-> FALSE]
  <2> HIDE DEF port, path, kept, d
  <2> QED
    BY <1>4, <1>5
<1> QED
  BY <1>6

\* Two URLs are normalized to the same one exactly when they name one server.
LEMMA SameServerIsSameNormalized ==
  ASSUME NEW S, NEW u, NEW v, u.path \in Seq(S), v.path \in Seq(S)
  PROVE  NormalizeServerUrl(u) = NormalizeServerUrl(v) <=> SameServer(u, v)
<1>1. /\ TrimSlashes(u.path) = TrimSlashes(v.path) <=> SamePath(u.path, v.path)
      /\ TrimSlashes(u.path) # <<"">> /\ TrimSlashes(v.path) # <<"">>
  BY SamePathIsSameTrimmed, NeverBlank
<1> DEFINE kept(w) ==
             [scheme |-> w.scheme, host |-> w.host,
              port |-> IF w.port = DefaultPort(w.scheme) THEN 0 ELSE w.port,
              path |-> IF TrimSlashes(w.path) = <<>> THEN <<"">> ELSE TrimSlashes(w.path),
              query |-> FALSE, fragment |-> FALSE]
<1>2. NormalizeServerUrl(u) = kept(u) /\ NormalizeServerUrl(v) = kept(v)
  BY WhatNormalizationKeeps
<1>3. kept(u) = kept(v) <=> /\ u.scheme = v.scheme /\ u.host = v.host
                            /\ kept(u).port = kept(v).port /\ kept(u).path = kept(v).path
  OBVIOUS
<1>4. kept(u).path = kept(v).path <=> TrimSlashes(u.path) = TrimSlashes(v.path)
  BY <1>1
<1>5. u.scheme = v.scheme => (kept(u).port = kept(v).port <=> EffectivePort(u) = EffectivePort(v))
  BY DEF EffectivePort
<1> HIDE DEF kept
<1> QED
  BY <1>1, <1>2, <1>3, <1>4, <1>5 DEF SameServer

-----------------------------------------------------------------------------
(* The key.                                                                *)

\* A resource is there once or not at all, and kept as it was parsed.
LEMMA SameResourceIsSameParsed ==
  ASSUME NEW r, NEW s, Optional(r), Optional(s)
  PROVE  [i \in DOMAIN r |-> UrlParse(r[i])] = [i \in DOMAIN s |-> UrlParse(s[i])]
           <=> Len(r) = Len(s) /\ \A i \in DOMAIN r : UrlParse(r[i]) = UrlParse(s[i])
<1> DEFINE parsed(list) == [i \in DOMAIN list |-> UrlParse(list[i])]
<1>1. \A list : Optional(list) => Len(list) \in Nat /\ DOMAIN list = 1 .. Len(list)
  <2> SUFFICES ASSUME NEW list, Optional(list)
               PROVE  Len(list) \in Nat /\ DOMAIN list = 1 .. Len(list)
    OBVIOUS
  <2>1. list \in Seq({list[1]})
    <3>1. CASE list = <<>>
      BY <3>1, EmptySeq
    <3>2. CASE list = <<list[1]>>
      <4> DEFINE x == list[1]
      <4>1. list = <<x>>
        BY <3>2
      <4> HIDE DEF x
      <4>2. list \in Seq({x})
        BY <4>1
      <4> QED
        BY <4>2 DEF x
    <3> QED
      BY <3>1, <3>2 DEF Optional
  <2> QED
    BY <2>1, LenProperties
<1>2. /\ Len(r) \in Nat /\ DOMAIN r = 1 .. Len(r)
      /\ Len(s) \in Nat /\ DOMAIN s = 1 .. Len(s)
  BY <1>1
<1>3. \A m, n \in Nat : 1 .. m = 1 .. n => m = n
  <2> SUFFICES ASSUME NEW m \in Nat, NEW n \in Nat, m < n PROVE 1 .. m # 1 .. n
    OBVIOUS
  <2>1. n \in 1 .. n /\ n \notin 1 .. m
    OBVIOUS
  <2> QED
    BY <2>1
<1>4. DOMAIN r = DOMAIN s <=> Len(r) = Len(s)
  BY <1>2, <1>3, Zenon
<1>5. ASSUME parsed(r) = parsed(s)
      PROVE  Len(r) = Len(s) /\ \A i \in DOMAIN r : UrlParse(r[i]) = UrlParse(s[i])
  <2>1. DOMAIN parsed(r) = DOMAIN r /\ DOMAIN parsed(s) = DOMAIN s
    OBVIOUS
  <2>2. DOMAIN r = DOMAIN s
    BY <1>5, <2>1, Zenon
  <2>3. \A i \in DOMAIN r : parsed(r)[i] = UrlParse(r[i]) /\ parsed(s)[i] = UrlParse(s[i])
    BY <2>2, Zenon
  <2> QED
    BY <1>4, <1>5, <2>2, <2>3, Zenon
<1>6. ASSUME Len(r) = Len(s), \A i \in DOMAIN r : UrlParse(r[i]) = UrlParse(s[i])
      PROVE  parsed(r) = parsed(s)
  BY <1>4, <1>6, Zenon
<1> QED
  BY <1>5, <1>6

\* One key, one server and one resource.
LEMMA SameKeyIsSameServer ==
  ASSUME NEW one \in Launch, NEW other \in Launch, one.serverUrl # <<>>, other.serverUrl # <<>>
  PROVE  CredentialKey(one.serverUrl[1], one.resource)
           = CredentialKey(other.serverUrl[1], other.resource)
         <=> /\ SameServer(one.serverUrl[1], other.serverUrl[1])
             /\ Len(one.resource) = Len(other.resource)
             /\ \A i \in DOMAIN one.resource :
                  UrlParse(one.resource[i]) = UrlParse(other.resource[i])
<1> DEFINE u == one.serverUrl[1]
           v == other.serverUrl[1]
<1>1. \A l \in Launch : l.serverUrl # <<>> =>
        l.serverUrl[1].path \in Seq(ToSet(l.serverUrl[1].path))
  <2> SUFFICES ASSUME NEW l \in Launch, l.serverUrl # <<>>
               PROVE  l.serverUrl[1].path \in Seq(ToSet(l.serverUrl[1].path))
    OBVIOUS
  <2>1. l.serverUrl = <<l.serverUrl[1]>>
    BY LaunchAssumption DEF Optional
  <2>2. 1 \in DOMAIN l.serverUrl
    BY <2>1
  <2>3. l.serverUrl[1] \in ToSet(l.serverUrl)
    BY <2>2 DEF ToSet
  <2> QED
    BY <2>3, LaunchAssumption
<1> DEFINE segments == ToSet(u.path) \cup ToSet(v.path)
<1>2. u.path \in Seq(segments) /\ v.path \in Seq(segments)
  <2>1. u.path \in Seq(ToSet(u.path)) /\ v.path \in Seq(ToSet(v.path))
    BY <1>1
  <2>2. \A S, T : S \subseteq T => Seq(S) \subseteq Seq(T)
    OBVIOUS
  <2>3. ToSet(u.path) \subseteq segments /\ ToSet(v.path) \subseteq segments
    OBVIOUS
  <2> HIDE DEF segments, u, v
  <2> QED
    BY <2>1, <2>2, <2>3
<1>3. NormalizeServerUrl(u) = NormalizeServerUrl(v) <=> SameServer(u, v)
  BY <1>2, SameServerIsSameNormalized
<1>4. Optional(one.resource) /\ Optional(other.resource)
  BY LaunchAssumption
<1> DEFINE parsed(list) == [i \in DOMAIN list |-> UrlParse(list[i])]
           nu == NormalizeServerUrl(u)
           nv == NormalizeServerUrl(v)
           ru == parsed(one.resource)
           rv == parsed(other.resource)
<1>5. ru = rv <=> /\ Len(one.resource) = Len(other.resource)
                  /\ \A i \in DOMAIN one.resource :
                       UrlParse(one.resource[i]) = UrlParse(other.resource[i])
  BY <1>4, SameResourceIsSameParsed, Zenon
<1>6. CredentialKey(u, one.resource) = <<nu, ru>> /\ CredentialKey(v, other.resource) = <<nv, rv>>
  BY DEF CredentialKey
<1>7. <<nu, ru>> = <<nv, rv>> <=> nu = nv /\ ru = rv
  <2> HIDE DEF nu, nv, ru, rv
  <2> QED
    OBVIOUS
<1>8. CredentialKey(u, one.resource) = CredentialKey(v, other.resource) <=> nu = nv /\ ru = rv
  <2> HIDE DEF nu, nv, ru, rv, u, v
  <2> QED
    BY <1>6, <1>7, Zenon
<1> QED
  BY <1>3, <1>5, <1>8, Zenon
=============================================================================
