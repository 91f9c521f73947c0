--------------------------- MODULE RequestProofs ---------------------------
(***************************************************************************)
(* Proofs about what a request passes on its way: Dispatch, Addresses,     *)
(* Guards and Totp, which share no state.  They are for every set of       *)
(* hosts, routes, path rules and paths, every list of address ranges,      *)
(* every configuration of the traps, every policy of the country filter,   *)
(* every set of TOTP instances, and any number of clients, browsers and    *)
(* requests.                                                               *)
(*                                                                         *)
(* The tries and the lookups are built by recursive functions; what they   *)
(* compute is proved by induction on the number of steps, as a statement   *)
(* about the set of the numbers it holds for (SetInduction).               *)
(***************************************************************************)
EXTENDS Dispatch, Addresses, Guards, Totp,
        FiniteSetTheorems, SequenceTheorems, WellFoundedInduction, TLAPS

(* Induction over the natural numbers for a set: the least number that is not *)
(* in it has a predecessor that is.                                           *)
LEMMA SetInduction ==
    ASSUME NEW S, 0 \in S, \A n \in Nat : n \in S => n + 1 \in S
    PROVE  Nat \subseteq S
<1> DEFINE T == Nat \ S
           R == OpToRel(<, Nat)
<1> SUFFICES ASSUME T # {} PROVE FALSE
  OBVIOUS
<1>1. PICK x \in T : \A y \in T : ~(<<y, x>> \in R)
  <2>1. IsWellFoundedOn(R, Nat)
    BY NatLessThanWellFounded
  <2>2. T \subseteq Nat
    OBVIOUS
  <2> HIDE DEF R, T
  <2> QED BY <2>1, <2>2, WFMin
<1>2. x # 0 /\ x - 1 \in Nat
  OBVIOUS
<1>3. x - 1 \in T
  BY <1>2
<1>4. <<x - 1, x>> \in R
  BY <1>2 DEF OpToRel
<1> QED BY <1>1, <1>3, <1>4

-----------------------------------------------------------------------------
(* Prefixes.                                                                 *)

\* u is where s starts.
Starts(u, s) == Len(u) <= Len(s) /\ \A i \in 1 .. Len(u) : u[i] = s[i]

\* The first d elements of a sequence.
LEMMA FirstElements ==
    ASSUME NEW D, NEW s \in Seq(D), NEW d \in 0 .. Len(s)
    PROVE  /\ SubSeq(s, 1, d) \in Seq(D) /\ Len(SubSeq(s, 1, d)) = d
           /\ \A i \in 1 .. d : SubSeq(s, 1, d)[i] = s[i]
<1>1. d \in Int /\ 1 \in Int /\ Len(s) \in Nat /\ \A i \in 1 .. d : s[i] \in D
  OBVIOUS
<1>2. /\ SubSeq(s, 1, d) \in Seq(D) /\ Len(SubSeq(s, 1, d)) = IF 1 <= d THEN d - 1 + 1 ELSE 0
      /\ \A i \in 1 .. d - 1 + 1 : SubSeq(s, 1, d)[i] = s[1 + i - 1]
  BY ONLY <1>1, SubSeqProperties
<1> QED BY <1>1, <1>2

\* The prefixes of the community modules in terms of Starts.
LEMMA PrefixesStart ==
    ASSUME NEW D, NEW s \in Seq(D)
    PROVE  /\ \A u : u \in Prefixes(s) <=> u \in Seq(D) /\ Starts(u, s)
           /\ \A u \in Seq(D) : IsPrefix(u, s) <=> Starts(u, s)
           /\ \A u \in Seq(D) : IsStrictPrefix(u, s) <=> Starts(u, s) /\ u # s
<1>1. Len(s) \in Nat /\ Prefixes(s) = {SubSeq(s, 1, d) : d \in 0 .. Len(s)}
  BY DEF Prefixes
<1>2. \A d \in 0 .. Len(s) :
          /\ SubSeq(s, 1, d) \in Seq(D) /\ Len(SubSeq(s, 1, d)) = d
          /\ \A i \in 1 .. d : SubSeq(s, 1, d)[i] = s[i]
  BY ONLY <1>1, s \in Seq(D), FirstElements
<1>3. ASSUME NEW u \in Seq(D), Starts(u, s) PROVE Len(u) \in 0 .. Len(s) /\ u = SubSeq(s, 1, Len(u))
  <2>1. Len(u) \in 0 .. Len(s) /\ Len(u) \in Nat
    BY <1>1, <1>3 DEF Starts
  <2> DEFINE p == SubSeq(s, 1, Len(u))
  <2>2. p \in Seq(D) /\ Len(p) = Len(u) /\ \A i \in 1 .. Len(u) : p[i] = u[i]
    BY <1>2, <1>3, <2>1 DEF Starts
  <2> HIDE DEF p
  <2>3. p = u
    BY <2>2
  <2> QED BY <2>1, <2>3 DEF p
<1>4. ASSUME NEW d \in 0 .. Len(s) PROVE Starts(SubSeq(s, 1, d), s)
  BY <1>1, <1>2 DEF Starts
<1>5. \A u : u \in Prefixes(s) <=> u \in Seq(D) /\ Starts(u, s)
  BY <1>1, <1>2, <1>3, <1>4
<1>6. ASSUME NEW u \in Seq(D) PROVE IsPrefix(u, s) <=> Starts(u, s)
  <2>1. SubSeq(u, 1, Len(u)) = u
    <3> DEFINE p == SubSeq(u, 1, Len(u))
    <3>1. Len(u) \in 0 .. Len(u)
      OBVIOUS
    <3>2. p \in Seq(D) /\ Len(p) = Len(u) /\ \A i \in 1 .. Len(u) : p[i] = u[i]
      BY ONLY <3>1, u \in Seq(D), FirstElements
    <3> HIDE DEF p
    <3>3. p = u
      BY <3>2
    <3> QED BY <3>3 DEF p
  <2>2. ASSUME IsPrefix(u, s) PROVE Starts(u, s)
    <3>1. Len(u) \in 0 .. Len(s) /\ u = SubSeq(s, 1, Len(u))
      BY <1>1, <2>1, <2>2 DEF IsPrefix
    <3> QED BY <1>4, <3>1
  <2>3. ASSUME Starts(u, s) PROVE IsPrefix(u, s)
    <3>1. Len(u) <= Len(s) /\ u = SubSeq(s, 1, Len(u))
      BY <1>3, <2>3 DEF Starts
    <3> QED BY <2>1, <3>1 DEF IsPrefix
  <2> QED BY <2>2, <2>3
<1>7. \A u \in Seq(D) : IsStrictPrefix(u, s) <=> Starts(u, s) /\ u # s
  BY <1>6 DEF IsStrictPrefix
<1> QED BY <1>5, <1>6, <1>7

\* Starts is an order, and total below a sequence.
LEMMA StartsOrder ==
    ASSUME NEW D, NEW u \in Seq(D), NEW v \in Seq(D), NEW s \in Seq(D)
    PROVE  /\ Starts(u, u)
           /\ Starts(u, v) /\ Starts(v, s) => Starts(u, s)
           /\ Starts(u, v) /\ Starts(v, u) => u = v
           /\ Starts(u, s) /\ Starts(v, s) => Starts(u, v) \/ Starts(v, u)
<1>1. Len(u) \in Nat /\ Len(v) \in Nat /\ Len(s) \in Nat
  OBVIOUS
<1>2. Starts(u, u)
  BY <1>1 DEF Starts
<1>3. Starts(u, v) /\ Starts(v, s) => Starts(u, s)
  BY <1>1 DEF Starts
<1>4. Starts(u, v) /\ Starts(v, u) => u = v
  BY <1>1 DEF Starts
<1>5. Starts(u, s) /\ Starts(v, s) => Starts(u, v) \/ Starts(v, u)
  BY <1>1 DEF Starts
<1> QED BY <1>2, <1>3, <1>4, <1>5

-----------------------------------------------------------------------------
(* Hosts: the lookup in the trie of labels.                                *)

\* what stands in the nodes of the trie of hosts
Token == {ToLower(l) : l \in STRING} \union {"*"}

\* A host is looked up by its labels from the right, in lower case, without port and
\* final dot: as it is spelled.
LEMMA Spelling ==
    ASSUME NEW w \in Host
    PROVE  reverseAndTokenizeHost(w) = Spelled(w) /\ Spelled(w) \in Seq(Token) /\ Len(Spelled(w)) > 0
<1> DEFINE blank == ""
           D == STRING \union {blank}
           ls == w.labels
<1>1. ls \in Seq(STRING) /\ ls # <<>>
  BY Zenon DEF Host
<1>0. ~w.dot => (Len(ls) > 1 => Last(ls) # blank)
  BY Zenon DEF Host
<1> HIDE DEF ls, blank
<1>2. ls \in Seq(D) /\ Len(ls) \in Nat /\ Len(ls) > 0 /\ \A i \in 1 .. Len(ls) : ls[i] \in STRING
  <2>1. Len(ls) \in Nat /\ Len(ls) > 0 /\ DOMAIN ls = 1 .. Len(ls) /\ \A i \in 1 .. Len(ls) : ls[i] \in STRING
    BY <1>1
  <2>2. ls \in [1 .. Len(ls) -> D]
    BY <1>1, <2>1
  <2>3. ls \in Seq(D)
    <3> HIDE DEF D
    <3> QED BY <2>1, <2>2
  <2> QED BY <2>1, <2>3
<1>d. DOMAIN ls = 1 .. Len(ls) /\ blank \in D
  BY <1>1
<1> HIDE DEF D
<1>3. TrimDot(SplitHost(w)) = ls
  <2>1. CASE w.dot
    <3> DEFINE all == ls \o <<blank>>
    <3>1. SplitHost(w) = all
      BY <2>1, Zenon DEF SplitHost, ls, blank
    <3>2. all \in Seq(D) /\ Len(all) = Len(ls) + 1 /\ all[Len(ls) + 1] = blank /\ \A i \in 1 .. Len(ls) : all[i] = ls[i]
      BY <1>2, <1>d
    <3> HIDE DEF all
    <3>3. TrimDot(all) = SubSeq(all, 1, Len(ls))
      <4>1. Len(all) > 1 /\ Last(all) = blank /\ Len(all) - 1 = Len(ls)
        BY <1>2, <3>2 DEF Last
      <4> QED BY <4>1, Zenon DEF TrimDot, Front, blank
    <3> DEFINE u == SubSeq(all, 1, Len(ls))
    <3>4. u \in Seq(D) /\ Len(u) = Len(ls) /\ \A i \in 1 .. Len(ls) : u[i] = all[i]
      <4>1. Len(ls) \in 0 .. Len(all)
        BY <1>2, <3>2
      <4> QED BY <3>2, <4>1, FirstElements
    <3> HIDE DEF u
    <3>5. u = ls
      BY <1>2, <3>2, <3>4
    <3> QED BY <3>1, <3>3, <3>5 DEF u
  <2>2. CASE ~w.dot
    <3>1. SplitHost(w) = ls \o <<>>
      BY <2>2, Zenon DEF SplitHost, ls
    <3>2. ls \o <<>> = ls
      BY <1>2, ConcatEmptySeq
    <3>3. TrimDot(ls) = ls
      BY <1>0, <2>2, Zenon DEF TrimDot, blank
    <3> QED BY <3>1, <3>2, <3>3
  <2> QED BY <2>1, <2>2
<1>4. reverseAndTokenizeHost(w) = Spelled(w)
  BY <1>3, Zenon DEF reverseAndTokenizeHost, Spelled, ls
<1> DEFINE low == [i \in DOMAIN ls |-> ToLower(ls[i])]
<1>5. low \in [1 .. Len(ls) -> Token] /\ Len(low) = Len(ls)
  <2>1. \A i \in 1 .. Len(ls) : ToLower(ls[i]) \in Token
    BY <1>2 DEF Token
  <2>2. low \in [1 .. Len(ls) -> Token]
    BY <1>d, <2>1
  <2> HIDE DEF low
  <2>3. low \in Seq(Token)
    BY <1>2, <2>2
  <2>4. Len(low) = Len(ls)
    BY <1>2, <2>2, <2>3
  <2> QED BY <2>2, <2>4
<1> HIDE DEF low
<1>6. Reverse(low) \in [1 .. Len(ls) -> Token]
  BY <1>2, <1>5 DEF Reverse
<1>7. Reverse(low) \in Seq(Token) /\ Len(Reverse(low)) = Len(ls)
  BY <1>2, <1>6
<1>8. Spelled(w) = Reverse(low)
  BY DEF Spelled, low, ls
<1> QED BY <1>2, <1>4, <1>7, <1>8

\* Walk's equation.
LEMMA WalkDef ==
    ASSUME NEW t, NEW tokens \in Seq(Token)
    PROVE  /\ Walk(t, tokens)[0] = {<<>>}
           /\ \A i \in 1 .. Len(tokens) :
                  Walk(t, tokens)[i] = UNION {Child(t, n, tokens[i]) : n \in Walk(t, tokens)[i - 1]}
<1> DEFINE Step(x, i) == UNION {Child(t, n, tokens[i]) : n \in x}
           Ok(h, m) == h = [i \in 0 .. m |-> IF i = 0 THEN {<<>>} ELSE UNION {Child(t, n, tokens[i]) : n \in h[i - 1]}]
           Solves(h, m) == /\ h = [i \in 0 .. m |-> h[i]] /\ h[0] = {<<>>}
                           /\ \A i \in 1 .. m : h[i] = Step(h[i - 1], i)
           S == {m \in Nat : \E h : Solves(h, m)}
<1>1. ASSUME NEW h, NEW m \in Nat PROVE Ok(h, m) <=> Solves(h, m)
  <2>1. ASSUME Ok(h, m) PROVE Solves(h, m)
    <3>1. \A i \in 0 .. m : h[i] = IF i = 0 THEN {<<>>} ELSE Step(h[i - 1], i)
      BY <2>1, Zenon
    <3>2. h = [i \in 0 .. m |-> h[i]]
      BY <2>1
    <3> HIDE DEF Step
    <3> QED BY <3>1, <3>2
  <2>2. ASSUME Solves(h, m) PROVE Ok(h, m)
    <3>1. \A i \in 0 .. m : h[i] = IF i = 0 THEN {<<>>} ELSE Step(h[i - 1], i)
      <4> HIDE DEF Step
      <4>1. h[0] = {<<>>} /\ \A i \in 1 .. m : h[i] = Step(h[i - 1], i)
        BY <2>2
      <4>2. ASSUME NEW i \in 0 .. m, i # 0 PROVE h[i] = Step(h[i - 1], i)
        <5>1. i \in 1 .. m
          BY <4>2
        <5> QED BY <4>1, <5>1
      <4> QED BY <4>1, <4>2
    <3>2. h = [i \in 0 .. m |-> h[i]]
      BY <2>2
    <3> QED BY <3>1, <3>2, Zenon
  <2> QED BY <2>1, <2>2
<1>2. 0 \in S
  <2> DEFINE h == [i \in 0 .. 0 |-> {<<>>}]
  <2>1. Solves(h, 0)
    OBVIOUS
  <2> QED BY <2>1, Zenon
<1>3. ASSUME NEW m \in Nat, m \in S PROVE m + 1 \in S
  <2> HIDE DEF Step
  <2>1. PICK h : Solves(h, m)
    BY <1>3
  <2> DEFINE k == [i \in 0 .. m + 1 |-> IF i = m + 1 THEN Step(h[m], m + 1) ELSE h[i]]
  <2>2. /\ \A i \in 0 .. m : k[i] = h[i]
        /\ k[m + 1] = Step(h[m], m + 1)
        /\ k = [i \in 0 .. m + 1 |-> k[i]]
    OBVIOUS
  <2>3. h[0] = {<<>>} /\ \A i \in 1 .. m : h[i] = Step(h[i - 1], i)
    BY <2>1
  <2> HIDE DEF k
  <2>4. k[0] = {<<>>} /\ \A i \in 1 .. m + 1 : k[i] = Step(k[i - 1], i)
    <3>1. k[0] = {<<>>}
      BY <2>2, <2>3
    <3>2. ASSUME NEW i \in 1 .. m PROVE k[i] = Step(k[i - 1], i)
      <4>1. i \in 0 .. m /\ i - 1 \in 0 .. m
        OBVIOUS
      <4> QED BY <2>2, <2>3, <4>1
    <3>3. k[m + 1] = Step(k[m + 1 - 1], m + 1)
      <4>1. m \in 0 .. m /\ m + 1 - 1 = m
        OBVIOUS
      <4> QED BY <2>2, <4>1
    <3>4. \A i \in 1 .. m + 1 : i \in 1 .. m \/ i = m + 1
      OBVIOUS
    <3>5. ASSUME NEW i \in 1 .. m + 1 PROVE k[i] = Step(k[i - 1], i)
      <4>1. CASE i \in 1 .. m
        BY <3>2, <4>1
      <4>2. CASE i = m + 1
        BY <3>3, <4>2
      <4> QED BY <3>4, <4>1, <4>2
    <3> QED BY <3>1, <3>5
  <2>5. Solves(k, m + 1)
    BY <2>2, <2>4
  <2>6. \E j : Solves(j, m + 1)
    BY <2>5, Zenon
  <2>7. m + 1 \in Nat
    OBVIOUS
  <2> QED BY <2>6, <2>7
<1>4. Len(tokens) \in Nat
  OBVIOUS
<1>5. Len(tokens) \in S
  <2> HIDE DEF S
  <2> QED BY <1>2, <1>3, <1>4, SetInduction
<1>6. \E h : Ok(h, Len(tokens))
  BY <1>1, <1>4, <1>5, ZenonT(30)
<1>7. Walk(t, tokens) = CHOOSE h : Ok(h, Len(tokens))
  BY DEF Walk
<1> HIDE DEF Ok
<1>8. Ok(Walk(t, tokens), Len(tokens))
  BY <1>6, <1>7
<1> QED BY <1>1, <1>4, <1>8

\* A prefix grows by the next element.
LEMMA NextPrefix ==
    ASSUME NEW D, NEW r \in Seq(D), NEW k \in 1 .. Len(r)
    PROVE  Append(SubSeq(r, 1, k - 1), r[k]) = SubSeq(r, 1, k)
<1> DEFINE u == SubSeq(r, 1, k - 1)
           v == SubSeq(r, 1, k)
<1>1. k - 1 \in 0 .. Len(r) /\ k \in 0 .. Len(r) /\ r[k] \in D
  OBVIOUS
<1>2. u \in Seq(D) /\ Len(u) = k - 1 /\ \A i \in 1 .. k - 1 : u[i] = r[i]
  BY <1>1, FirstElements
<1>3. v \in Seq(D) /\ Len(v) = k /\ \A i \in 1 .. k : v[i] = r[i]
  BY <1>1, FirstElements
<1> HIDE DEF u, v
<1>4. Append(u, r[k]) = v
  <2> DEFINE a == Append(u, r[k])
  <2>1. a \in Seq(D) /\ Len(a) = k /\ a[k] = r[k] /\ \A i \in 1 .. k - 1 : a[i] = u[i]
    BY <1>1, <1>2
  <2> HIDE DEF a
  <2>2. \A i \in 1 .. k : a[i] = v[i]
    BY <1>2, <1>3, <2>1, SMTT(30)
  <2>3. a = v
    BY <1>3, <2>1, <2>2
  <2> QED BY <2>3 DEF a
<1> QED BY <1>4 DEF u, v

\* The lookup has one node at most after each token, and the node's labels are the
\* tokens or wildcards.
LEMMA WalkSound ==
    ASSUME NEW t, DOMAIN t \subseteq Seq(Token), NEW tokens \in Seq(Token), NEW i \in 0 .. Len(tokens),
           NEW n \in Walk(t, tokens)[i]
    PROVE  /\ n \in Seq(Token) /\ Len(n) = i /\ (i > 0 => n \in DOMAIN t)
           /\ \A k \in 1 .. i : n[k] \in {"*", tokens[k]}
           /\ Walk(t, tokens)[i] = {n}
<1> DEFINE W(j) == Walk(t, tokens)[j]
           Fits(j) == \A m \in W(j) : /\ m \in Seq(Token) /\ Len(m) = j /\ (j > 0 => m \in DOMAIN t)
                                      /\ \A k \in 1 .. j : m[k] \in {"*", tokens[k]}
                                      /\ W(j) = {m}
           S == {j \in Nat : j <= Len(tokens) => Fits(j)}
<1>1. 0 \in S
  <2>1. W(0) = {<<>>}
    BY WalkDef
  <2> HIDE DEF W
  <2>2. \A m \in W(0) : m = <<>>
    BY <2>1
  <2>3. <<>> \in Seq(Token) /\ Len(<<>>) = 0 /\ 1 .. 0 = {}
    OBVIOUS
  <2>4. ASSUME NEW m \in W(0)
        PROVE  /\ m \in Seq(Token) /\ Len(m) = 0 /\ (0 > 0 => m \in DOMAIN t)
               /\ \A k \in 1 .. 0 : m[k] \in {"*", tokens[k]}
               /\ W(0) = {m}
    <3>1. m = <<>> /\ W(0) = {m} /\ ~(0 > 0)
      BY <2>1, <2>2
    <3>2. m \in Seq(Token) /\ Len(m) = 0
      BY <2>3, <3>1
    <3> QED BY <2>3, <3>1, <3>2
  <2> QED BY <2>4
<1>2. ASSUME NEW j \in Nat, j \in S PROVE j + 1 \in S
  <2> SUFFICES ASSUME j + 1 <= Len(tokens), NEW m \in W(j + 1)
               PROVE  /\ m \in Seq(Token) /\ Len(m) = j + 1 /\ m \in DOMAIN t
                      /\ \A k \in 1 .. j + 1 : m[k] \in {"*", tokens[k]}
                      /\ W(j + 1) = {m}
    OBVIOUS
  <2>1. Len(tokens) \in Nat /\ j + 1 \in 1 .. Len(tokens) /\ j + 1 - 1 = j /\ tokens[j + 1] \in Token
    OBVIOUS
  <2>2. W(j + 1) = UNION {Child(t, x, tokens[j + 1]) : x \in W(j)}
    BY <2>1, WalkDef
  <2>3. Fits(j)
    BY <1>2, <2>1
  <2> HIDE DEF W
  <2>4. PICK x \in W(j) : m \in Child(t, x, tokens[j + 1])
    BY <2>2
  <2>5. x \in Seq(Token) /\ Len(x) = j /\ (\A k \in 1 .. j : x[k] \in {"*", tokens[k]}) /\ W(j) = {x}
    BY <2>3
  <2>6. W(j + 1) = Child(t, x, tokens[j + 1])
    BY <2>2, <2>5, ZenonT(30)
  <2>7. PICK l \in {"*", tokens[j + 1]} : Child(t, x, tokens[j + 1]) = {Append(x, l)} /\ Append(x, l) \in DOMAIN t
    BY <2>4 DEF Child
  <2>8. m = Append(x, l) /\ W(j + 1) = {m} /\ m \in DOMAIN t
    BY <2>4, <2>6, <2>7
  <2>9. l \in Token
    BY <2>1 DEF Token
  <2>10. m \in Seq(Token) /\ Len(m) = j + 1 /\ m[j + 1] = l /\ \A k \in 1 .. j : m[k] = x[k]
    BY <2>5, <2>8, <2>9
  <2>11. ASSUME NEW k \in 1 .. j + 1 PROVE m[k] \in {"*", tokens[k]}
    <3>1. CASE k = j + 1
      BY <2>10, <3>1
    <3>2. CASE k \in 1 .. j
      BY <2>5, <2>10, <3>2
    <3> QED BY <3>1, <3>2
  <2> QED BY <2>8, <2>10, <2>11
<1>3. i \in S
  <2>1. i \in Nat
    OBVIOUS
  <2> HIDE DEF S
  <2> QED BY <1>1, <1>2, <2>1, SetInduction
<1>4. Fits(i)
  BY <1>3
<1> QED BY <1>4

\* The lookup follows a host that covers the asked one and that no label of the trie
\* leads away from.
LEMMA WalkAlong ==
    ASSUME NEW t, NEW tokens \in Seq(Token), NEW r \in Seq(Token), Len(r) = Len(tokens),
           \A k \in 1 .. Len(r) : r[k] \in {"*", tokens[k]},
           \A k \in 0 .. Len(r) : SubSeq(r, 1, k) \in DOMAIN t,
           \A k \in 1 .. Len(r) : r[k] = tokens[k] \/ Append(SubSeq(r, 1, k - 1), tokens[k]) \notin DOMAIN t
    PROVE  Walk(t, tokens)[Len(tokens)] = {r}
<1> DEFINE W(j) == Walk(t, tokens)[j]
           start(j) == SubSeq(r, 1, j)
           S == {j \in Nat : j <= Len(r) => W(j) = {start(j)}}
<1>0. Len(r) \in Nat
  OBVIOUS
<1>1. 0 \in S
  <2>1. W(0) = {<<>>}
    BY WalkDef
  <2>2. 0 \in 0 .. Len(r)
    BY <1>0
  <2>3. start(0) \in Seq(Token) /\ Len(start(0)) = 0
    BY <2>2, FirstElements
  <2> HIDE DEF W, start
  <2>4. start(0) = <<>>
    BY <2>3
  <2> QED BY <2>1, <2>4
<1>2. ASSUME NEW j \in Nat, j \in S PROVE j + 1 \in S
  <2> SUFFICES ASSUME j + 1 <= Len(r) PROVE W(j + 1) = {start(j + 1)}
    OBVIOUS
  <2>1. j + 1 \in 1 .. Len(r) /\ j + 1 - 1 = j /\ j + 1 \in 0 .. Len(r) /\ j <= Len(r)
    BY <1>0
  <2>2. W(j + 1) = UNION {Child(t, x, tokens[j + 1]) : x \in W(j)}
    BY <2>1, WalkDef, SMTT(30)
  <2>3. Append(start(j), r[j + 1]) = start(j + 1)
    BY <2>1, NextPrefix
  <2>4. start(j + 1) \in DOMAIN t /\ r[j + 1] \in {"*", tokens[j + 1]}
    BY <2>1
  <2>5. r[j + 1] = tokens[j + 1] \/ Append(start(j), tokens[j + 1]) \notin DOMAIN t
    BY <2>1
  <2>6. W(j) = {start(j)}
    BY <1>2, <2>1
  <2> HIDE DEF W, start
  <2>7. W(j + 1) = Child(t, start(j), tokens[j + 1])
    <3>1. PICK s : s = start(j)
      OBVIOUS
    <3>2. W(j + 1) = UNION {Child(t, x, tokens[j + 1]) : x \in {s}}
      BY <2>2, <2>6, <3>1
    <3>3. UNION {Child(t, x, tokens[j + 1]) : x \in {s}} = Child(t, s, tokens[j + 1])
      BY Zenon
    <3> QED BY <3>1, <3>2, <3>3
  <2>8. Child(t, start(j), tokens[j + 1]) = {start(j + 1)}
    BY <2>3, <2>4, <2>5 DEF Child
  <2> QED BY <2>7, <2>8
<1>3. Len(r) \in S
  <2> HIDE DEF S
  <2> QED BY <1>0, <1>1, <1>2, SetInduction
<1>4. W(Len(r)) = {start(Len(r))}
  BY <1>0, <1>3
<1>5. start(Len(r)) = r
  <2>1. Len(r) \in 0 .. Len(r)
    BY <1>0
  <2>2. start(Len(r)) \in Seq(Token) /\ Len(start(Len(r))) = Len(r) /\ \A i \in 1 .. Len(r) : start(Len(r))[i] = r[i]
    BY <2>1, FirstElements
  <2> HIDE DEF start
  <2> QED BY <2>2
<1> QED BY <1>4, <1>5

-----------------------------------------------------------------------------
\* the routes that were built with the host n
For(n) == {i \in Built : RouteOf(i) = n}
RouteList == routes \in Seq([host : Host, built : BOOLEAN])
NodesFromRoutes ==
    \A n : n \in DOMAIN trie <=> n = <<>> \/ (n \in Seq(Token) /\ \E i \in Built : Starts(n, RouteOf(i)))
LastOfHost ==
    \A n \in DOMAIN trie : IF For(n) = {} THEN trie[n] = 0
                           ELSE trie[n] \in For(n) /\ \A i \in For(n) : i <= trie[n]

(* The invariant of the host dispatcher: the nodes of the trie are where the  *)
(* hosts of the built routes lead along, and a node has the last route with   *)
(* its host.                                                                  *)
HostInv ==
    /\ hostPhase \in {"building", "ready", "error"} /\ default \in BOOLEAN
    /\ RouteList /\ NodesFromRoutes /\ LastOfHost

\* What a built route's host is like.
LEMMA BuiltRoutes ==
    ASSUME RouteList, NEW i \in Built
    PROVE  i \in 1 .. Len(routes) /\ Len(routes) \in Nat /\ RouteOf(i) \in Seq(Token) /\ Len(RouteOf(i)) > 0
<1>1. i \in DOMAIN routes
  BY DEF Built
<1>2. routes[i] \in [host : Host, built : BOOLEAN] /\ i \in 1 .. Len(routes) /\ Len(routes) \in Nat
  <2> DEFINE D == [host : Host, built : BOOLEAN]
  <2>1. routes \in Seq(D)
    BY DEF RouteList
  <2> HIDE DEF D
  <2>2. routes[i] \in D /\ i \in 1 .. Len(routes) /\ Len(routes) \in Nat
    BY <1>1, <2>1
  <2> QED BY <2>2 DEF D
<1>3. routes[i].host \in Host
  BY <1>2
<1> QED BY <1>2, <1>3, Spelling DEF RouteOf

\* Only the root, which has no route.
LEMMA HostInitInv == HostInit => HostInv
<1> SUFFICES ASSUME HostInit PROVE HostInv
  OBVIOUS
<1>1. routes = <<>> /\ DOMAIN trie = {<<>>} /\ trie[<<>>] = 0
  BY DEF HostInit
<1>2. RouteList
  BY <1>1 DEF RouteList
<1>3. Built = {}
  <2>1. DOMAIN routes = {}
    BY <1>1
  <2> QED BY <2>1 DEF Built
<1>4. NodesFromRoutes /\ LastOfHost
  BY <1>1, <1>3 DEF NodesFromRoutes, LastOfHost, For
<1>5. hostPhase \in {"building", "ready", "error"} /\ default \in BOOLEAN
  BY DEF HostInit
<1> QED BY <1>2, <1>4, <1>5 DEF HostInv

\* One step of buildHostDispatcher.
LEMMA HostStep == ASSUME HostInv, HostNext PROVE HostInv'
<1>1. ASSUME NEW w \in RouteHosts, NEW target \in Targets, AddRoute(w, target) PROVE HostInv'
  <2>0. PICK N, s : N = Len(routes) + 1 /\ s = Spelled(w)
    OBVIOUS
  <2> DEFINE ok == w # EmptyHost /\ buildRouteHandler(target)
             route == [host |-> w, built |-> ok]
  <2>1. /\ routes' = Append(routes, route)
        /\ ok => trie' = insert(trie, reverseAndTokenizeHost(w), N)
        /\ ~ok => trie' = trie
        /\ hostPhase' = hostPhase /\ default' = default
    BY <1>1, <2>0, Zenon DEF AddRoute
  <2>2. w \in Host
    BY DispatchAssumption DEF DispatchAssumption
  <2>3. s \in Seq(Token) /\ Len(s) > 0 /\ reverseAndTokenizeHost(w) = s
    BY <2>0, <2>2, Spelling
  <2>4. route.host = w /\ (ok => route.built) /\ (~ok => ~route.built) /\ route \in [host : Host, built : BOOLEAN]
    BY <2>2, Zenon
  <2>5. routes \in Seq([host : Host, built : BOOLEAN]) /\ Len(routes) \in Nat
    BY DEF HostInv, RouteList
  <2> HIDE DEF route, ok
  <2>6. /\ routes' \in Seq([host : Host, built : BOOLEAN]) /\ DOMAIN routes' = 1 .. N
        /\ routes'[N] = route /\ \A i \in 1 .. Len(routes) : routes'[i] = routes[i]
    <3> DEFINE D == [host : Host, built : BOOLEAN]
    <3>1. route \in D /\ routes \in Seq(D)
      BY <2>4, <2>5
    <3> HIDE DEF D
    <3>2. /\ routes' \in Seq(D) /\ DOMAIN routes' = 1 .. N
          /\ routes'[N] = route /\ \A i \in 1 .. Len(routes) : routes'[i] = routes[i]
      BY <2>0, <2>1, <2>5, <3>1
    <3> QED BY <3>2 DEF D
  <2>7. RouteList'
    BY <2>6 DEF RouteList
  <2>8. /\ \A i \in 1 .. Len(routes) : RouteOf(i)' = RouteOf(i)
        /\ RouteOf(N)' = s
    BY <2>0, <2>4, <2>6, Zenon DEF RouteOf
  <2>9. Built \subseteq 1 .. Len(routes) /\ N \notin Built /\ \A i \in Built : RouteOf(i) \in Seq(Token) /\ Len(RouteOf(i)) > 0
    <3>1. \A i \in Built : i \in 1 .. Len(routes) /\ RouteOf(i) \in Seq(Token) /\ Len(RouteOf(i)) > 0
      BY BuiltRoutes DEF HostInv
    <3>2. N \notin 1 .. Len(routes)
      BY <2>0, <2>5
    <3> QED BY <3>1, <3>2
  <2>10. CASE ~ok
    <3>1. Built' = Built
      <4>1. \A i : i \in Built' => i \in Built
        <5> SUFFICES ASSUME NEW i \in 1 .. N, routes'[i].built PROVE i \in Built
          BY <2>6 DEF Built
        <5>1. i \in 1 .. Len(routes)
          <6>1. i # N
            BY <2>4, <2>6, <2>10
          <6> QED BY <2>0, <2>5, <6>1
        <5>2. DOMAIN routes = 1 .. Len(routes)
          BY <2>5
        <5> QED BY <2>6, <5>1, <5>2 DEF Built
      <4>2. ASSUME NEW i \in Built PROVE i \in Built'
        <5>1. i \in 1 .. Len(routes) /\ i \in 1 .. N /\ routes[i].built
          BY <2>0, <2>5, <2>9 DEF Built
        <5> QED BY <2>6, <5>1 DEF Built
      <4> QED BY <4>1, <4>2
    <3>2. \A i \in Built : RouteOf(i)' = RouteOf(i)
      BY <2>8, <2>9
    <3>3. trie' = trie
      BY <2>1, <2>10
    <3>4. \A n : For(n)' = For(n)
      BY <3>1, <3>2 DEF For
    <3>5. NodesFromRoutes' /\ LastOfHost'
      BY <3>1, <3>2, <3>3, <3>4 DEF HostInv, NodesFromRoutes, LastOfHost
    <3> QED BY <2>1, <2>7, <3>5 DEF HostInv
  <2>11. CASE ok
    <3>1. Built' = Built \union {N}
      <4>1. \A i : i \in Built' => i \in Built \union {N}
        <5> SUFFICES ASSUME NEW i \in 1 .. N, routes'[i].built PROVE i \in Built \union {N}
          BY <2>6 DEF Built
        <5>1. CASE i # N
          <6>1. i \in 1 .. Len(routes) /\ DOMAIN routes = 1 .. Len(routes)
            BY <2>0, <2>5, <5>1
          <6> QED BY <2>6, <6>1 DEF Built
        <5> QED BY <5>1
      <4>2. ASSUME NEW i \in Built PROVE i \in Built'
        <5>1. i \in 1 .. Len(routes) /\ i \in 1 .. N /\ routes[i].built
          BY <2>0, <2>5, <2>9 DEF Built
        <5> QED BY <2>6, <5>1 DEF Built
      <4>3. N \in Built'
        <5>1. N \in 1 .. N /\ routes'[N].built
          BY <2>0, <2>4, <2>5, <2>6, <2>11
        <5> QED BY <2>6, <5>1 DEF Built
      <4> QED BY <4>1, <4>2, <4>3
    <3>2. \A i \in Built : RouteOf(i)' = RouteOf(i)
      BY <2>8, <2>9
    <3>3. trie' = insert(trie, s, N)
      BY <2>1, <2>3, <2>11
    <3>4. \A n : n \in Prefixes(s) <=> n \in Seq(Token) /\ Starts(n, s)
      BY <2>3, PrefixesStart
    <3>5. s \in Prefixes(s)
      BY <2>3, <3>4, StartsOrder
    <3>6. /\ DOMAIN trie' = DOMAIN trie \union Prefixes(s) /\ trie'[s] = N
          /\ \A n \in DOMAIN trie : n # s => trie'[n] = trie[n]
          /\ \A n \in Prefixes(s) : n # s /\ n \notin DOMAIN trie => trie'[n] = 0
      BY <3>3, <3>5, Zenon DEF insert
    <3>7. NodesFromRoutes'
      <4>1. \A n : n \in DOMAIN trie <=> n = <<>> \/ (n \in Seq(Token) /\ \E i \in Built : Starts(n, RouteOf(i)))
        BY DEF HostInv, NodesFromRoutes
      <4>2. \A n : (\E i \in Built' : Starts(n, RouteOf(i)')) <=> (\E i \in Built : Starts(n, RouteOf(i))) \/ Starts(n, s)
        BY <2>8, <3>1, <3>2
      <4>3. \A n : n \in DOMAIN trie' <=> n = <<>> \/ (n \in Seq(Token) /\ \E i \in Built' : Starts(n, RouteOf(i)'))
        BY <3>4, <3>6, <4>1, <4>2
      <4> QED BY <4>3 DEF NodesFromRoutes
    <3>8. LastOfHost'
      <4>1. For(s)' = For(s) \union {N}
        BY <2>8, <3>1, <3>2 DEF For
      <4>2. \A n : n # s => For(n)' = For(n)
        BY <2>8, <3>1, <3>2 DEF For
      <4>3. \A n : For(n) \subseteq 1 .. Len(routes)
        BY <2>9 DEF For
      <4> SUFFICES ASSUME NEW n \in DOMAIN trie'
                   PROVE  IF For(n)' = {} THEN trie'[n] = 0
                          ELSE trie'[n] \in For(n)' /\ \A i \in For(n)' : i <= trie'[n]
        BY DEF LastOfHost
      <4>4. CASE n = s
        <5>1. \A i \in For(s)' : i <= N
          BY <2>0, <2>5, <4>1, <4>3
        <5> QED BY <3>6, <4>1, <4>4, <5>1
      <4>5. CASE n # s /\ n \in DOMAIN trie
        BY <3>6, <4>2, <4>5 DEF HostInv, LastOfHost
      <4>6. CASE n # s /\ n \notin DOMAIN trie
        <5>1. n \in Seq(Token) /\ ~\E i \in Built : Starts(n, RouteOf(i))
          BY <3>4, <3>6, <4>6 DEF HostInv, NodesFromRoutes
        <5>2. For(n) = {}
          <6> SUFFICES ASSUME NEW i \in Built, RouteOf(i) = n PROVE FALSE
            BY DEF For
          <6> QED BY <5>1, StartsOrder
        <5> QED BY <3>6, <4>2, <4>6, <5>2
      <4> QED BY <4>4, <4>5, <4>6
    <3> QED BY <2>1, <2>7, <3>7, <3>8 DEF HostInv
  <2> QED BY <2>10, <2>11
<1>2. ASSUME UNCHANGED <<routes, trie>>, hostPhase' \in {"building", "ready", "error"}, default' \in BOOLEAN
      PROVE  HostInv'
  BY <1>2 DEF HostInv, RouteList, NodesFromRoutes, LastOfHost, For, Built, RouteOf
<1>3. ASSUME NEW target \in Targets, AddDefault(target) PROVE HostInv'
  BY <1>2, <1>3 DEF AddDefault, HostInv
<1>4. CASE FinishHosts
  BY <1>2, <1>4 DEF FinishHosts, HostInv
<1> QED BY <1>1, <1>3, <1>4 DEF HostNext

-----------------------------------------------------------------------------
\* What ServeHost answers, by the node that the lookup ends at.
LEMMA Served ==
    ASSUME HostInv, NEW w \in Asked
    PROVE  /\ w \in Host /\ Spelled(w) \in Seq(Token) /\ DOMAIN trie \subseteq Seq(Token)
           /\ \A n : Walk(trie, Spelled(w))[Len(Spelled(w))] = {n} /\ trie[n] # 0 => ServeHost(w) = trie[n]
           /\ ServeHost(w) > 0 =>
                  \E n \in Walk(trie, Spelled(w))[Len(Spelled(w))] : ServeHost(w) = trie[n]
<1> DEFINE s == Spelled(w)
           found == Walk(trie, s)[Len(s)]
<1>1. w \in Host /\ w.port # "broken"
  BY DispatchAssumption DEF DispatchAssumption, Asked
<1>2. s \in Seq(Token) /\ Len(s) > 0 /\ reverseAndTokenizeHost(w) = s
  BY <1>1, Spelling
<1>3. DOMAIN trie \subseteq Seq(Token)
  <2>1. <<>> \in Seq(Token)
    OBVIOUS
  <2> QED BY <2>1 DEF HostInv, NodesFromRoutes
<1>4. HostContains(trie, s) = IF found = {} THEN 0 ELSE trie[CHOOSE n \in found : TRUE]
  BY DEF HostContains
<1> HIDE DEF s, found
<1>5. /\ HostContains(trie, s) # 0 => ServeHost(w) = HostContains(trie, s)
      /\ HostContains(trie, s) = 0 => ServeHost(w) \in {Default, BadGateway}
  BY <1>1, <1>2, Zenon DEF ServeHost
<1>6. ASSUME NEW n, found = {n}, trie[n] # 0 PROVE ServeHost(w) = trie[n]
  <2>1. (CHOOSE m \in found : TRUE) = n /\ found # {}
    BY <1>6
  <2> QED BY <1>4, <1>5, <1>6, <2>1
<1>7. ASSUME ServeHost(w) > 0 PROVE \E n \in found : ServeHost(w) = trie[n]
  <2>1. HostContains(trie, s) # 0
    BY <1>5, <1>7 DEF Default, BadGateway
  <2>2. found # {}
    BY <1>4, <2>1
  <2>3. (CHOOSE m \in found : TRUE) \in found
    BY <2>2
  <2> QED BY <1>4, <1>5, <2>1, <2>2, <2>3
<1> QED BY <1>1, <1>2, <1>3, <1>6, <1>7 DEF s, found

\* The lookup reaches a built route that covers the host unless a label of the trie
\* leads away from it, and finds the last route with that host.
LEMMA Reached ==
    ASSUME HostInv, NEW w \in Asked, NEW i \in Built, Covers(i, w),
           \A k \in 1 .. Len(RouteOf(i)) :
               RouteOf(i)[k] = Spelled(w)[k] \/ Append(SubSeq(RouteOf(i), 1, k - 1), Spelled(w)[k]) \notin DOMAIN trie
    PROVE  ServeHost(w) \in For(RouteOf(i)) /\ \A j \in For(RouteOf(i)) : j <= ServeHost(w)
<1> DEFINE s == Spelled(w)
           r == RouteOf(i)
<1>1. s \in Seq(Token) /\ DOMAIN trie \subseteq Seq(Token)
  BY Served
<1>2. r \in Seq(Token) /\ Len(r) > 0
  BY BuiltRoutes DEF HostInv
<1>3. Len(r) = Len(s) /\ \A k \in 1 .. Len(r) : r[k] \in {"*", s[k]}
  <2>1. DOMAIN s = 1 .. Len(s)
    BY <1>1
  <2> QED BY <2>1 DEF Covers
<1>4. ASSUME NEW k \in 0 .. Len(r) PROVE SubSeq(r, 1, k) \in DOMAIN trie
  <2> HIDE DEF r
  <2>1. SubSeq(r, 1, k) \in Seq(Token) /\ SubSeq(r, 1, k) \in Prefixes(r)
    BY <1>2, FirstElements DEF Prefixes
  <2>2. Starts(SubSeq(r, 1, k), r)
    BY <1>2, <2>1, PrefixesStart
  <2> QED BY <2>1, <2>2 DEF HostInv, NodesFromRoutes, r
<1>5. r \in DOMAIN trie /\ i \in For(r)
  <2>1. Starts(r, r)
    BY <1>2, StartsOrder
  <2> QED BY <1>2, <2>1 DEF HostInv, NodesFromRoutes, For
<1>6. \A k \in 1 .. Len(r) : r[k] = s[k] \/ Append(SubSeq(r, 1, k - 1), s[k]) \notin DOMAIN trie
  OBVIOUS
<1> HIDE DEF s, r
<1>7. Walk(trie, s)[Len(s)] = {r}
  BY <1>1, <1>2, <1>3, <1>4, <1>6, WalkAlong
<1>8. trie[r] \in For(r) /\ \A j \in For(r) : j <= trie[r]
  BY <1>5 DEF HostInv, LastOfHost
<1>9. trie[r] # 0
  <2>1. trie[r] \in 1 .. Len(routes) /\ Len(routes) \in Nat
    BY <1>8, BuiltRoutes DEF HostInv, For
  <2> QED BY <2>1
<1>10. ServeHost(w) = trie[r]
  BY <1>7, <1>9, Served DEF s
<1> QED BY <1>8, <1>10 DEF r

\* The three statements about hosts follow from the invariant.
LEMMA HostsFollow == HostInv => ExactHostWins /\ RouteCoversHost /\ WildcardUnlessShadowed
<1> SUFFICES ASSUME HostInv PROVE ExactHostWins /\ RouteCoversHost /\ WildcardUnlessShadowed
  OBVIOUS
<1>1. ASSUME NEW w \in Asked, NEW e \in Built, RouteOf(e) = Spelled(w)
      PROVE  LET exact == {i \in Built : RouteOf(i) = Spelled(w)}
             IN  ServeHost(w) \in exact /\ \A i \in exact : i <= ServeHost(w)
  <2>1. Covers(e, w)
    BY <1>1 DEF Covers
  <2>2. ServeHost(w) \in For(RouteOf(e)) /\ \A j \in For(RouteOf(e)) : j <= ServeHost(w)
    BY <1>1, <2>1, Reached
  <2> QED BY <1>1, <2>2 DEF For
<1>2. ExactHostWins
  BY <1>1 DEF ExactHostWins
<1>3. ASSUME NEW w \in Asked, ServeHost(w) > 0 PROVE Covers(ServeHost(w), w)
  <2> DEFINE s == Spelled(w)
  <2>1. PICK n \in Walk(trie, s)[Len(s)] : ServeHost(w) = trie[n]
    BY <1>3, Served
  <2>2. s \in Seq(Token) /\ DOMAIN trie \subseteq Seq(Token) /\ w \in Host
    BY Served
  <2>3. Len(s) \in 0 .. Len(s) /\ Len(s) > 0
    <3>1. Len(s) > 0 /\ Len(s) \in Nat
      BY <2>2, Spelling
    <3> QED BY <3>1
  <2> HIDE DEF s
  <2>4. Len(n) = Len(s) /\ n \in DOMAIN trie /\ \A k \in 1 .. Len(s) : n[k] \in {"*", s[k]}
    BY <2>1, <2>2, <2>3, WalkSound
  <2>5. RouteOf(trie[n]) = n
    <3>1. trie[n] # 0
      BY <1>3, <2>1
    <3> QED BY <2>4, <3>1 DEF HostInv, LastOfHost, For
  <2>6. DOMAIN s = 1 .. Len(s)
    BY <2>2
  <2> QED BY <2>1, <2>4, <2>5, <2>6 DEF Covers, s
<1>4. RouteCoversHost
  BY <1>3 DEF RouteCoversHost
<1>5. ASSUME NEW w \in Asked, NEW i \in Built, Covers(i, w), ~\E j \in Built : Shadows(j, i, w)
      PROVE  ServeHost(w) > 0 /\ RouteOf(ServeHost(w)) = RouteOf(i)
  <2> DEFINE s == Spelled(w)
             r == RouteOf(i)
  <2>1. s \in Seq(Token) /\ DOMAIN s = 1 .. Len(s) /\ Len(s) \in Nat
    <3>1. s \in Seq(Token)
      BY Served
    <3> QED BY <3>1
  <2>2. r \in Seq(Token) /\ Len(r) = Len(s)
    BY <1>5, BuiltRoutes DEF HostInv, Covers
  <2>3. \A k \in 1 .. Len(s) : r[k] \in {"*", s[k]}
    BY <1>5, <2>1 DEF Covers
  <2>4. ASSUME NEW k \in 1 .. Len(r), r[k] # s[k], Append(SubSeq(r, 1, k - 1), s[k]) \in DOMAIN trie PROVE FALSE
    <3> DEFINE u == SubSeq(r, 1, k - 1)
               a == Append(u, s[k])
    <3>1. u \in Seq(Token) /\ Len(u) = k - 1 /\ \A m \in 1 .. k - 1 : u[m] = r[m]
      <4>1. k - 1 \in 0 .. Len(r)
        BY <2>1, <2>2
      <4> HIDE DEF r
      <4> QED BY <2>2, <4>1, FirstElements
    <3>2. s[k] \in Token /\ r[k] = "*"
      BY <2>1, <2>2, <2>3, <2>4
    <3> HIDE DEF u, s, r
    <3>3. a \in Seq(Token) /\ Len(a) = k /\ a[k] = s[k] /\ \A m \in 1 .. k - 1 : a[m] = u[m]
      BY <2>1, <2>2, <3>1, <3>2
    <3>4. a # <<>> /\ a \in DOMAIN trie
      <4>1. a \in DOMAIN trie
        BY <2>4 DEF u
      <4> HIDE DEF a
      <4>2. k # 0
        BY <2>1, <2>2
      <4> QED BY <3>3, <4>1, <4>2
    <3> HIDE DEF a
    <3>5. PICK j \in Built : Starts(a, RouteOf(j))
      BY <3>4 DEF HostInv, NodesFromRoutes
    <3>6. k <= Len(RouteOf(j)) /\ RouteOf(j)[k] = s[k] /\ \A m \in 1 .. k - 1 : RouteOf(j)[m] = r[m]
      <4>1. k \in 1 .. k /\ 1 .. k - 1 \subseteq 1 .. k
        BY <2>1, <2>2
      <4> QED BY <3>1, <3>3, <3>5, <4>1 DEF Starts
    <3>7. Shadows(j, i, w)
      <4>1. k \in DOMAIN s
        BY <2>1, <2>2
      <4> QED BY <3>2, <3>6, <4>1 DEF Shadows, s, r
    <3> QED BY <1>5, <3>7
  <2>5. ServeHost(w) \in For(r)
    BY <1>5, <2>4, Reached
  <2>6. ServeHost(w) \in Built /\ RouteOf(ServeHost(w)) = r
    BY <2>5 DEF For
  <2>7. ServeHost(w) \in 1 .. Len(routes) /\ Len(routes) \in Nat
    BY <2>6, BuiltRoutes DEF HostInv
  <2> QED BY <2>6, <2>7
<1>6. WildcardUnlessShadowed
  BY <1>5 DEF WildcardUnlessShadowed
<1> QED BY <1>2, <1>4, <1>6

-----------------------------------------------------------------------------
(* The patterns of the mux.                                                   *)

Pattern == [segs : Seq(STRING \union {AnySegment}), end : {"exact", "slash", "rest"}]

\* what a rule registers
PatternOf(r) == IF r.backend = "own" THEN ensureSubtree(normalizePattern(r)) ELSE normalizePattern(r)

\* The pattern of a rule has its segments, stars replaced, and its end opened.
LEMMA PatternShape ==
    ASSUME NEW r \in PathRule
    PROVE  /\ normalizePattern(r) \in Pattern /\ PatternOf(r) \in Pattern
           /\ Len(PatternOf(r).segs) = Len(r.segs) /\ Len(r.segs) \in Nat
           /\ DOMAIN r.segs = 1 .. Len(r.segs)
           /\ \A i \in DOMAIN r.segs :
                  PatternOf(r).segs[i] = IF r.segs[i] = "*" THEN AnySegment ELSE r.segs[i]
           /\ r.backend = "own" => PatternOf(r).end # "exact"
           /\ r.segs = <<>> => PatternOf(r).end # "exact"
<1> DEFINE segs == [i \in DOMAIN r.segs |-> IF r.segs[i] = "*" THEN AnySegment ELSE r.segs[i]]
           p == normalizePattern(r)
           e == IF r.end \in {"star", "glued"} THEN "rest" ELSE r.end
<1>1. r.segs \in Seq(STRING) /\ r.end \in {"exact", "slash", "star", "glued"} /\ (r.segs = <<>> => r.end \in {"slash", "star"})
  BY DEF PathRule
<1>2. Len(r.segs) \in Nat /\ DOMAIN r.segs = 1 .. Len(r.segs) /\ \A i \in DOMAIN r.segs : r.segs[i] \in STRING
  BY <1>1
<1>3. segs \in Seq(STRING \union {AnySegment}) /\ Len(segs) = Len(r.segs)
  <2>1. segs \in [1 .. Len(r.segs) -> STRING \union {AnySegment}]
    BY <1>2
  <2> HIDE DEF segs
  <2> QED BY <1>2, <2>1
<1>4. p = [segs |-> segs, end |-> e]
  BY DEF normalizePattern
<1>5. e \in {"exact", "slash", "rest"} /\ (r.segs = <<>> => e # "exact")
  BY <1>1
<1>6. \A i \in DOMAIN r.segs : segs[i] = IF r.segs[i] = "*" THEN AnySegment ELSE r.segs[i]
  OBVIOUS
<1> HIDE DEF segs, e, p
<1>7. p \in Pattern /\ p.segs = segs /\ p.end = e
  BY <1>3, <1>4, <1>5 DEF Pattern
<1>8. ensureSubtree(p) \in Pattern /\ ensureSubtree(p).segs = segs /\ ensureSubtree(p).end # "exact"
  BY <1>7 DEF Pattern, ensureSubtree
<1>9. PatternOf(r) = IF r.backend = "own" THEN ensureSubtree(p) ELSE p
  BY DEF PatternOf, p
<1>10. PatternOf(r) \in Pattern /\ PatternOf(r).segs = segs
  BY <1>7, <1>8, <1>9
<1>11. (r.backend = "own" => PatternOf(r).end # "exact") /\ (r.segs = <<>> => PatternOf(r).end # "exact")
  BY <1>5, <1>7, <1>8, <1>9
<1>12. normalizePattern(r) \in Pattern
  BY <1>7 DEF p
<1> QED BY <1>2, <1>3, <1>6, <1>10, <1>11, <1>12

\* Within is inclusion of what is matched and an order; patterns that match one path
\* overlap.
LEMMA WithinOrder ==
    ASSUME NEW p \in Pattern, NEW q \in Pattern
    PROVE  /\ Within(p, p) /\ Overlap(p, p)
           /\ \A r \in Pattern : Within(p, q) /\ Within(q, r) => Within(p, r)
           /\ \A path \in Path : Matches(p, path) /\ Matches(q, path) => Overlap(p, q)
           /\ \A path \in Path : Matches(p, path) /\ Within(p, q) => Matches(q, path)
<1> DEFINE S == STRING \union {AnySegment}
<1>1. /\ p.segs \in Seq(S) /\ q.segs \in Seq(S)
      /\ p.end \in {"exact", "slash", "rest"} /\ q.end \in {"exact", "slash", "rest"}
  BY DEF Pattern
<1>2. /\ Len(p.segs) \in Nat /\ DOMAIN p.segs = 1 .. Len(p.segs)
      /\ Len(q.segs) \in Nat /\ DOMAIN q.segs = 1 .. Len(q.segs)
  BY <1>1
<1>3. Within(p, p) /\ Overlap(p, p)
  BY <1>1, <1>2 DEF Within, Overlap
<1>4. ASSUME NEW r \in Pattern, Within(p, q), Within(q, r) PROVE Within(p, r)
  <2>1. Len(r.segs) \in Nat /\ DOMAIN r.segs = 1 .. Len(r.segs) /\ r.end \in {"exact", "slash", "rest"}
    BY DEF Pattern
  <2>2. Len(r.segs) <= Len(p.segs)
    BY <1>2, <1>4, <2>1 DEF Within
  <2>3. ASSUME NEW i \in DOMAIN r.segs PROVE r.segs[i] \in {AnySegment, p.segs[i]}
    <3>1. i \in DOMAIN q.segs
      BY <1>2, <1>4, <2>1 DEF Within
    <3> QED BY <1>4, <3>1 DEF Within
  <2>4. IF r.end = "exact" THEN Len(p.segs) = Len(r.segs) /\ p.end = "exact"
        ELSE Len(p.segs) = Len(r.segs) => p.end # "exact"
    BY <1>1, <1>2, <1>4, <2>1 DEF Within
  <2> QED BY <2>2, <2>3, <2>4 DEF Within
<1>5. ASSUME NEW path \in Path, Matches(p, path), Matches(q, path) PROVE Overlap(p, q)
  <2>1. Len(path.segs) \in Nat /\ path.slash \in BOOLEAN
    BY DEF Path
  <2>2. ASSUME NEW i \in DOMAIN p.segs \cap DOMAIN q.segs
        PROVE  p.segs[i] = q.segs[i] \/ AnySegment \in {p.segs[i], q.segs[i]}
    BY <1>5 DEF Matches
  <2>3. /\ p.end = "exact" => IF q.end = "exact" THEN Len(q.segs) = Len(p.segs) ELSE Len(q.segs) < Len(p.segs)
        /\ q.end = "exact" /\ p.end # "exact" => Len(p.segs) < Len(q.segs)
    BY <1>1, <1>2, <1>5, <2>1 DEF Matches
  <2> QED BY <2>2, <2>3 DEF Overlap
<1>6. ASSUME NEW path \in Path, Matches(p, path), Within(p, q) PROVE Matches(q, path)
  <2>1. Len(path.segs) \in Nat /\ path.slash \in BOOLEAN
    BY DEF Path
  <2>2. Len(q.segs) <= Len(path.segs)
    BY <1>2, <1>6, <2>1 DEF Within, Matches
  <2>3. ASSUME NEW i \in DOMAIN q.segs PROVE q.segs[i] \in {AnySegment, path.segs[i]}
    <3>1. i \in DOMAIN p.segs
      BY <1>2, <1>6 DEF Within
    <3> QED BY <1>6, <3>1 DEF Within, Matches
  <2>4. IF q.end = "exact" THEN Len(q.segs) = Len(path.segs) /\ ~path.slash
       ELSE Len(q.segs) = Len(path.segs) => path.slash
    BY <1>1, <1>2, <1>6, <2>1 DEF Within, Matches
  <2> QED BY <2>2, <2>3, <2>4 DEF Matches
<1> QED BY <1>3, <1>4, <1>5, <1>6

-----------------------------------------------------------------------------
\* The most specific ones of a set of patterns; a set is decided when there is one for
\* every path that it matches.
BestIn(D, path) == {p \in D : /\ Matches(p, path)
                              /\ \A q \in D : Matches(q, path) /\ q # p => MoreSpecific(p, q)}
Decided(D) ==
    /\ D \subseteq Pattern
    /\ \A path \in Path : (\E p \in D : Matches(p, path)) => BestIn(D, path) # {}

\* A pattern that conflicts with none is new, and the set stays decided with it.
LEMMA AddPattern ==
    ASSUME NEW D, Decided(D), NEW q \in Pattern, ~\E o \in D : Conflict(o, q)
    PROVE  q \notin D /\ Decided(D \union {q})
<1> DEFINE E == D \union {q}
<1>1. D \subseteq Pattern
  BY DEF Decided
<1>2. q \notin D
  BY WithinOrder DEF Conflict, MoreSpecific
<1>3. ASSUME NEW path \in Path, NEW p \in E, Matches(p, path) PROVE BestIn(E, path) # {}
  <2>1. CASE ~Matches(q, path)
    <3>1. PICK b \in D : /\ Matches(b, path)
                         /\ \A o \in D : Matches(o, path) /\ o # b => MoreSpecific(b, o)
      BY <1>3, <2>1 DEF Decided, BestIn
    <3> QED BY <2>1, <3>1 DEF BestIn
  <2>2. CASE Matches(q, path) /\ ~\E o \in D : Matches(o, path)
    BY <2>2 DEF BestIn
  <2>3. CASE Matches(q, path) /\ \E o \in D : Matches(o, path)
    <3>1. PICK b \in D : /\ Matches(b, path)
                         /\ \A o \in D : Matches(o, path) /\ o # b => MoreSpecific(b, o)
      BY <2>3 DEF Decided, BestIn
    <3>2. MoreSpecific(b, q) \/ MoreSpecific(q, b)
      BY <1>1, <2>3, <3>1, WithinOrder DEF Conflict
    <3>3. CASE MoreSpecific(b, q)
      BY <3>1, <3>3 DEF BestIn
    <3>4. CASE MoreSpecific(q, b)
      <4>1. ASSUME NEW o \in D, Matches(o, path) PROVE MoreSpecific(q, o)
        <5>1. CASE o = b
          BY <3>4, <5>1
        <5>2. CASE o # b
          <6>1. Within(q, b) /\ Within(b, o) /\ ~Within(o, b) /\ b \in Pattern /\ o \in Pattern
            BY <1>1, <3>1, <3>4, <4>1, <5>2 DEF MoreSpecific
          <6>2. Within(q, o)
            BY <6>1, WithinOrder
          <6>3. ~Within(o, q)
            BY <6>1, WithinOrder
          <6> QED BY <6>2, <6>3 DEF MoreSpecific
        <5> QED BY <5>1, <5>2
      <4> QED BY <2>3, <4>1 DEF BestIn
    <3> QED BY <3>2, <3>3, <3>4
  <2> QED BY <2>1, <2>2, <2>3
<1> QED BY <1>1, <1>2, <1>3 DEF Decided

Root == [segs |-> <<>>, end |-> "slash"]

\* the rules that reached the mux: the last one did not when it was refused
Done == IF pathPhase \in {"building", "ready"} THEN Len(rules) ELSE Len(rules) - 1

RulesIn == \A i \in 1 .. Done : PatternOf(rules[i]) \in DOMAIN mux /\ mux[PatternOf(rules[i])] = i
FromRules ==
    \A p \in DOMAIN mux :
        \/ mux[p] \in 1 .. Done /\ p = PatternOf(rules[mux[p]])
        \/ /\ mux[p] = 0 /\ p = Root /\ pathPhase = "ready"
           /\ \A q \in DOMAIN mux : q.segs = <<>> => q = Root

(* The invariant of the path dispatcher: what is registered are the patterns  *)
(* of the rules handled so far, each with its rule, at the end the route's    *)
(* own pattern where no rule has it; and for every path the patterns that     *)
(* match it have a most specific one.                                         *)
PathInv ==
    /\ pathPhase \in {"building", "ready", "error", "panic"}
    /\ rules \in Seq(PathRule)
    /\ pathPhase \in {"error", "panic"} => rules # <<>>
    /\ RulesIn /\ FromRules
    /\ Decided(DOMAIN mux)
    /\ pathPhase = "ready" => HasCatchAll
    /\ pathPhase = "panic" => normalizePattern(Last(rules)) \notin DOMAIN mux

\* Nothing is registered at the start.
LEMMA PathInitInv == PathInit => PathInv
<1> SUFFICES ASSUME PathInit PROVE PathInv
  OBVIOUS
<1>1. DOMAIN mux = {} /\ rules = <<>> /\ pathPhase = "building" /\ Done = 0
  BY DEF PathInit, Done
<1>2. rules \in Seq(PathRule)
  BY <1>1
<1>3. Decided(DOMAIN mux)
  BY <1>1 DEF Decided
<1> QED BY <1>1, <1>2, <1>3 DEF PathInv, RulesIn, FromRules

\* One step of buildPathDispatcher.
LEMMA PathStep == ASSUME PathInv, PathNext PROVE PathInv'
<1> DEFINE n == Len(rules)
<1>0. rules \in Seq(PathRule) /\ n \in Nat /\ Decided(DOMAIN mux)
  BY DEF PathInv
<1>1. ASSUME NEW r \in Rules, rules' = Append(rules, r)
      PROVE  /\ r \in PathRule /\ rules' \in Seq(PathRule) /\ Len(rules') = n + 1 /\ rules' # <<>>
             /\ Last(rules') = r /\ rules'[n + 1] = r /\ \A i \in 1 .. n : rules'[i] = rules[i]
  <2>1. r \in PathRule
    BY DispatchAssumption DEF DispatchAssumption
  <2>2. /\ rules' \in Seq(PathRule) /\ Len(rules') = n + 1
        /\ rules'[n + 1] = r /\ \A i \in 1 .. n : rules'[i] = rules[i]
    BY <1>0, <1>1, <2>1
  <2>3. rules' # <<>> /\ Last(rules') = r
    BY <1>0, <2>2 DEF Last
  <2> QED BY <2>1, <2>2, <2>3
<1>2. ASSUME NEW r \in Rules, rules' = Append(rules, r), pathPhase = "building",
             pathPhase' \in {"error", "panic"}, mux' = mux,
             pathPhase' = "panic" => normalizePattern(r) \notin DOMAIN mux
      PROVE  PathInv'
  <2>1. Done = n /\ Done' = n
    BY <1>0, <1>1, <1>2 DEF Done
  <2>2. RulesIn' /\ FromRules'
    BY <1>0, <1>1, <1>2, <2>1 DEF PathInv, RulesIn, FromRules
  <2> QED BY <1>0, <1>1, <1>2, <2>2 DEF PathInv
<1>3. ASSUME NEW r \in Rules, AddRule(r) PROVE PathInv'
  <2> DEFINE p == normalizePattern(r)
             q == PatternOf(r)
  <2>1. /\ pathPhase = "building" /\ rules' = Append(rules, r)
        /\ \/ pathPhase' = "error" /\ mux' = mux
           \/ pathPhase' = "panic" /\ mux' = mux /\ p \notin DOMAIN mux
           \/ /\ pathPhase' = "building" /\ mux' = Register(q, n + 1)
              /\ ~\E o \in DOMAIN mux : Conflict(o, q)
    BY <1>3, Zenon DEF AddRule, Duplicate, PatternOf
  <2>2. CASE pathPhase' = "error" /\ mux' = mux
    BY <1>2, <2>1, <2>2
  <2>3. CASE pathPhase' = "panic" /\ mux' = mux /\ p \notin DOMAIN mux
    BY <1>2, <2>1, <2>3
  <2>4. CASE /\ pathPhase' = "building" /\ mux' = Register(q, n + 1)
             /\ ~\E o \in DOMAIN mux : Conflict(o, q)
    <3>1. r \in PathRule /\ q \in Pattern
      BY <1>1, <2>1, PatternShape
    <3> HIDE DEF q
    <3>2. q \notin DOMAIN mux /\ Decided(DOMAIN mux \union {q})
      BY <1>0, <2>4, <3>1, AddPattern
    <3>3. DOMAIN mux' = DOMAIN mux \union {q} /\ mux'[q] = n + 1 /\ \A o \in DOMAIN mux : mux'[o] = mux[o]
      BY <2>4, <3>2 DEF Register
    <3>4. Done = n /\ Done' = n + 1
      BY <1>0, <1>1, <2>1, <2>4 DEF Done
    <3>5. RulesIn'
      <4> SUFFICES ASSUME NEW i \in 1 .. n + 1
                   PROVE  PatternOf(rules'[i]) \in DOMAIN mux' /\ mux'[PatternOf(rules'[i])] = i
        BY <3>4 DEF RulesIn
      <4>1. CASE i = n + 1
        BY <1>1, <2>1, <3>3, <4>1 DEF q
      <4>2. CASE i \in 1 .. n
        <5>1. PatternOf(rules[i]) \in DOMAIN mux /\ mux[PatternOf(rules[i])] = i
          BY <3>4, <4>2 DEF PathInv, RulesIn
        <5> QED BY <1>1, <2>1, <3>3, <4>2, <5>1
      <4> QED BY <1>0, <4>1, <4>2
    <3>6. FromRules'
      <4> SUFFICES ASSUME NEW o \in DOMAIN mux' 
                   PROVE  mux'[o] \in 1 .. n + 1 /\ o = PatternOf(rules'[mux'[o]])
        BY <3>4 DEF FromRules
      <4>1. CASE o = q
        BY <1>0, <1>1, <2>1, <3>3, <4>1 DEF q
      <4>2. CASE o \in DOMAIN mux
        <5>1. mux[o] \in 1 .. n /\ o = PatternOf(rules[mux[o]])
          BY <2>1, <3>4, <4>2 DEF PathInv, FromRules
        <5> QED BY <1>0, <1>1, <2>1, <3>3, <4>2, <5>1
      <4> QED BY <3>3, <4>1, <4>2
    <3> QED BY <1>1, <2>1, <2>4, <3>2, <3>3, <3>5, <3>6 DEF PathInv
  <2> QED BY <2>1, <2>2, <2>3, <2>4
<1>4. ASSUME NEW r \in Rules, AddRuleFails(r) PROVE PathInv'
  BY <1>2, <1>4 DEF AddRuleFails
<1>5. CASE FinishPaths
  <2>1. pathPhase = "building" /\ pathPhase' = "ready" /\ rules' = rules /\ Done = n /\ Done' = n
    BY <1>5 DEF FinishPaths, Done
  <2>2. CASE HasCatchAll
    <3>1. mux' = mux
      BY <1>5, <2>2 DEF FinishPaths
    <3>2. RulesIn' /\ FromRules' /\ HasCatchAll'
      BY <2>1, <2>2, <3>1 DEF PathInv, RulesIn, FromRules, HasCatchAll
    <3> QED BY <1>0, <2>1, <3>1, <3>2 DEF PathInv
  <2>3. CASE ~HasCatchAll
    <3>1. mux' = Register(Root, 0)
      BY <1>5, <2>3 DEF FinishPaths, Root
    <3>2. Root \in Pattern /\ Len(Root.segs) = 0 /\ Root.segs = <<>> /\ Root.end = "slash" /\ DOMAIN Root.segs = {}
      BY DEF Root, Pattern
    <3>3. ASSUME NEW o \in DOMAIN mux PROVE o.segs # <<>> /\ ~Conflict(o, Root)
      <4>1. mux[o] \in 1 .. n /\ o = PatternOf(rules[mux[o]])
        BY <2>1 DEF PathInv, FromRules
      <4>2. rules[mux[o]] \in PathRule
        BY <1>0, <4>1
      <4>3. o \in Pattern /\ o.segs # <<>>
        <5>1. o \in Pattern /\ (Len(o.segs) = 0 => o.end # "exact")
          BY <4>1, <4>2, PatternShape
        <5>2. o.segs = <<>> => Len(o.segs) = 0
          OBVIOUS
        <5> QED BY <2>3, <5>1, <5>2 DEF HasCatchAll
      <4>4. Len(o.segs) \in Nat /\ Len(o.segs) # 0
        BY <4>3 DEF Pattern
      <4>5. Within(o, Root) /\ ~Within(Root, o)
        BY <3>2, <4>4 DEF Within
      <4> QED BY <4>3, <4>5 DEF Conflict, MoreSpecific
    <3>4. Root \notin DOMAIN mux /\ Decided(DOMAIN mux \union {Root})
      BY <1>0, <3>2, <3>3, AddPattern
    <3>5. DOMAIN mux' = DOMAIN mux \union {Root} /\ mux'[Root] = 0 /\ \A o \in DOMAIN mux : mux'[o] = mux[o]
      BY <3>1, <3>4 DEF Register
    <3>6. HasCatchAll'
      BY <3>2, <3>5 DEF HasCatchAll
    <3>7. RulesIn'
      BY <2>1, <3>5 DEF PathInv, RulesIn
    <3>8. FromRules'
      <4> SUFFICES ASSUME NEW o \in DOMAIN mux' 
                   PROVE  \/ mux'[o] \in 1 .. n /\ o = PatternOf(rules[mux'[o]])
                          \/ /\ mux'[o] = 0 /\ o = Root
                             /\ \A q \in DOMAIN mux' : q.segs = <<>> => q = Root
        BY <2>1 DEF FromRules
      <4>1. CASE o = Root
        BY <3>3, <3>5, <4>1
      <4>2. CASE o \in DOMAIN mux
        <5>1. mux[o] \in 1 .. n /\ o = PatternOf(rules[mux[o]])
          BY <2>1, <4>2 DEF PathInv, FromRules
        <5> QED BY <3>5, <4>2, <5>1
      <4> QED BY <3>5, <4>1, <4>2
    <3> QED BY <1>0, <2>1, <3>4, <3>5, <3>6, <3>7, <3>8 DEF PathInv
  <2> QED BY <2>2, <2>3
<1> QED BY <1>3, <1>4, <1>5 DEF PathNext

-----------------------------------------------------------------------------
\* The ready mux has exactly one pattern for a path.
LEMMA OneBest ==
    ASSUME PathInv, pathPhase = "ready", NEW path \in Path
    PROVE  \E p \in Pattern : Best(path) = {p}
<1>1. Best(path) = BestIn(DOMAIN mux, path) /\ DOMAIN mux \subseteq Pattern
  BY DEF Best, BestIn, PathInv, Decided
<1>2. PICK c \in DOMAIN mux : c.segs = <<>> /\ c.end # "exact"
  BY DEF PathInv, HasCatchAll
<1>3. Matches(c, path)
  <2>1. Len(c.segs) = 0 /\ DOMAIN c.segs = {}
    BY <1>2
  <2>2. path.segs \in Seq(STRING) /\ Len(path.segs) \in Nat /\ (Len(path.segs) = 0 => path.slash)
    BY DEF Path
  <2> QED BY <1>2, <2>1, <2>2 DEF Matches
<1>4. PICK p \in Best(path) : TRUE
  BY <1>1, <1>2, <1>3 DEF PathInv, Decided
<1>5. ASSUME NEW q \in Best(path) PROVE q = p
  BY <1>4 DEF Best, MoreSpecific
<1> QED BY <1>1, <1>4, <1>5 DEF BestIn

\* Every path is answered by one rule or by the route's own handler.
LEMMA PathsAnswered == PathInv => EveryPathAnswered
<1> SUFFICES ASSUME PathInv, pathPhase = "ready", NEW path \in Paths PROVE Cardinality(Best(path)) = 1
  BY DEF EveryPathAnswered
<1>1. path \in Path
  BY DispatchAssumption DEF DispatchAssumption
<1>2. PICK p \in Pattern : Best(path) = {p}
  BY <1>1, OneBest
<1> QED BY <1>2, FS_Singleton

\* What the registered patterns tell of their rules.
LEMMA RuleOfPattern ==
    ASSUME PathInv, NEW p \in DOMAIN mux, mux[p] > 0
    PROVE  mux[p] \in DOMAIN rules /\ rules[mux[p]] \in PathRule /\ p = PatternOf(rules[mux[p]])
<1>1. mux[p] \in 1 .. Done /\ p = PatternOf(rules[mux[p]])
  BY DEF PathInv, FromRules
<1>2. rules \in Seq(PathRule)
  BY DEF PathInv
<1>3. mux[p] \in DOMAIN rules
  BY <1>1, <1>2 DEF Done
<1> QED BY <1>1, <1>2, <1>3

\* What lies below a rule with a backend of its own stays with it.
LEMMA SubtreeOwned == PathInv => BackendOwnsSubtree
<1> SUFFICES ASSUME PathInv, pathPhase = "ready", NEW i \in DOMAIN rules, NEW path \in Paths,
                    rules[i].backend = "own", Below(rules[i], path), NEW p \in Best(path)
             PROVE  IF Len(path.segs) > Len(rules[i].segs) \/ path.slash
                    THEN mux[p] = i \/ (mux[p] > 0 /\ Below(rules[i], rules[mux[p]]))
                    ELSE mux[p] > 0 \/ Redirected(path)
  BY DEF BackendOwnsSubtree
<1> DEFINE r == rules[i]
           q == PatternOf(r)
<1>1. rules \in Seq(PathRule) /\ r \in PathRule /\ i \in 1 .. Done
  BY DEF PathInv, Done
<1>2. path \in Path /\ path.segs \in Seq(STRING) /\ path.slash \in BOOLEAN /\ Len(path.segs) \in Nat
  BY DispatchAssumption DEF DispatchAssumption, Path
<1>3. q \in DOMAIN mux /\ mux[q] = i /\ DOMAIN mux \subseteq Pattern
  BY <1>1 DEF PathInv, RulesIn, Decided
<1>4. /\ Len(q.segs) = Len(r.segs) /\ Len(r.segs) \in Nat /\ q.end # "exact"
      /\ DOMAIN r.segs = 1 .. Len(r.segs)
      /\ \A k \in DOMAIN r.segs : q.segs[k] = IF r.segs[k] = "*" THEN AnySegment ELSE r.segs[k]
  BY <1>1, PatternShape
<1>5. DOMAIN q.segs = DOMAIN r.segs
  BY <1>3, <1>4 DEF Pattern
<1>6. \A k \in DOMAIN r.segs : r.segs[k] # AnySegment
  BY <1>1 DEF PathRule
<1> HIDE DEF q, r
<1>7. ASSUME NEW u \in Path, u.segs = path.segs, Len(path.segs) > Len(r.segs) \/ u.slash PROVE Matches(q, u)
  <2>1. Len(r.segs) <= Len(path.segs) /\ \A k \in DOMAIN r.segs : r.segs[k] \in {"*", path.segs[k]}
    BY DEF Below, r
  <2> QED BY <1>2, <1>4, <1>5, <1>7, <2>1 DEF Matches
<1>8. ASSUME NEW o \in DOMAIN mux, Within(o, q) PROVE mux[o] = i \/ (mux[o] > 0 /\ Below(r, rules[mux[o]]))
  <2>1. CASE ~(mux[o] > 0)
    <3>1. mux[o] = 0 /\ o = Root /\ \A x \in DOMAIN mux : x.segs = <<>> => x = Root
      BY <2>1 DEF PathInv, FromRules
    <3>2. Len(o.segs) = 0
      BY <3>1 DEF Root
    <3>3. q.segs = <<>>
      BY <1>3, <1>4, <1>8, <3>2 DEF Within, Pattern
    <3>4. q = o
      BY <1>3, <3>1, <3>3
    <3> QED BY <1>3, <3>4
  <2>2. CASE mux[o] > 0
    <3> DEFINE s == rules[mux[o]]
    <3>1. s \in PathRule /\ o = PatternOf(s)
      BY <2>2, RuleOfPattern
    <3> HIDE DEF s
    <3>2. /\ Len(o.segs) = Len(s.segs) /\ Len(s.segs) \in Nat /\ DOMAIN s.segs = 1 .. Len(s.segs)
          /\ \A k \in DOMAIN s.segs : o.segs[k] = IF s.segs[k] = "*" THEN AnySegment ELSE s.segs[k]
      BY <3>1, PatternShape
    <3>3. Len(r.segs) <= Len(s.segs)
      BY <1>4, <1>8, <3>2 DEF Within
    <3>4. ASSUME NEW k \in DOMAIN r.segs PROVE r.segs[k] \in {"*", s.segs[k]}
      <4>1. k \in DOMAIN s.segs
        BY <1>4, <3>2, <3>3
      <4>2. q.segs[k] \in {AnySegment, o.segs[k]}
        BY <1>5, <1>8 DEF Within
      <4> QED BY <1>4, <1>6, <3>2, <4>1, <4>2
    <3> QED BY <2>2, <3>3, <3>4 DEF Below, s
  <2> QED BY <2>1, <2>2
<1>9. ASSUME NEW u \in Path, Matches(q, u), NEW o \in Best(u) PROVE o \in DOMAIN mux /\ Matches(o, u) /\ Within(o, q)
  <2>1. o \in DOMAIN mux /\ Matches(o, u) /\ (q # o => MoreSpecific(o, q))
    BY <1>3, <1>9 DEF Best
  <2>2. Within(q, q)
    BY <1>3, WithinOrder
  <2> QED BY <2>1, <2>2 DEF MoreSpecific
<1>10. CASE Len(path.segs) > Len(r.segs) \/ path.slash
  <2>1. Matches(q, path)
    BY <1>2, <1>7, <1>10
  <2>2. p \in DOMAIN mux /\ Within(p, q)
    BY <1>2, <1>9, <2>1
  <2> QED BY <1>8, <1>10, <2>2 DEF r
<1>11. CASE ~(Len(path.segs) > Len(r.segs) \/ path.slash)
  <2> SUFFICES ASSUME ~(mux[p] > 0) PROVE Redirected(path)
    BY <1>11 DEF r
  <2> DEFINE u == [path EXCEPT !.slash = TRUE]
  <2>1. u \in Path /\ u.segs = path.segs /\ u.slash = TRUE
    BY <1>2 DEF Path
  <2> HIDE DEF u
  <2>2. p = Root
    BY DEF PathInv, FromRules, Best
  <2>3. \A o \in Best(path) : o = p
    <3>1. PICK b \in Pattern : Best(path) = {b}
      BY <1>2, OneBest
    <3> QED BY <3>1
  <2>4. ~\E o \in Best(path) : Exact(o, path)
    BY <1>11, <2>2, <2>3 DEF Exact, Root
  <2>5. PICK b \in Pattern : Best(u) = {b}
    BY <2>1, OneBest
  <2>6. Matches(b, u) /\ Within(b, q)
    BY <1>7, <1>9, <2>1, <2>5
  <2>7. Len(b.segs) = Len(path.segs)
    <3>1. Len(b.segs) <= Len(path.segs) /\ Len(r.segs) <= Len(b.segs) /\ Len(b.segs) \in Nat
      BY <1>4, <2>1, <2>6 DEF Matches, Within, Pattern
    <3>2. Len(path.segs) <= Len(r.segs)
      BY <1>2, <1>4, <1>11
    <3> QED BY <1>2, <1>4, <3>1, <3>2
  <2>8. Exact(b, u)
    BY <2>1, <2>7 DEF Exact
  <2> QED BY <1>11, <2>4, <2>5, <2>8 DEF Redirected, u
<1> QED BY <1>10, <1>11 DEF r

\* The prefix that a rule strips is there.
LEMMA StripHolds == PathInv => StripApplies
<1> SUFFICES ASSUME PathInv, NEW path \in Paths, NEW p \in DOMAIN mux, p \in Best(path), mux[p] > 0
             PROVE  IsPrefix(pathRulePrefix(rules[mux[p]]), path.segs)
  BY DEF StripApplies
<1> DEFINE r == rules[mux[p]]
<1>1. r \in PathRule /\ p = PatternOf(r)
  BY RuleOfPattern
<1>2. path.segs \in Seq(STRING) /\ Len(path.segs) \in Nat
  BY DispatchAssumption DEF DispatchAssumption, Path
<1> HIDE DEF r
<1>3. r.segs \in Seq(STRING) /\ \A k \in DOMAIN r.segs : r.segs[k] # AnySegment
  BY <1>1 DEF PathRule
<1>4. /\ Len(p.segs) = Len(r.segs) /\ Len(r.segs) \in Nat /\ DOMAIN r.segs = 1 .. Len(r.segs)
      /\ \A k \in DOMAIN r.segs : p.segs[k] = IF r.segs[k] = "*" THEN AnySegment ELSE r.segs[k]
  BY <1>1, PatternShape
<1>5. p \in Pattern
  BY <1>1, PatternShape
<1>6. DOMAIN p.segs = 1 .. Len(r.segs)
  BY <1>4, <1>5 DEF Pattern
<1>7. Matches(p, path)
  BY DEF Best
<1>8. CASE \E k \in DOMAIN r.segs : r.segs[k] = "*"
  <2>1. pathRulePrefix(r) = <<>> /\ <<>> \in Seq(STRING)
    BY <1>8 DEF pathRulePrefix
  <2>2. Starts(<<>>, path.segs)
    BY <1>2 DEF Starts
  <2> QED BY <1>2, <2>1, <2>2, PrefixesStart DEF r
<1>9. CASE ~\E k \in DOMAIN r.segs : r.segs[k] = "*"
  <2>1. pathRulePrefix(r) = r.segs
    BY <1>9 DEF pathRulePrefix
  <2>2. Starts(r.segs, path.segs)
    BY <1>3, <1>4, <1>6, <1>7, <1>9 DEF Starts, Matches
  <2> QED BY <1>2, <1>3, <2>1, <2>2, PrefixesStart DEF r
<1> QED BY <1>8, <1>9

\* A rule written twice ends in an error.
LEMMA RepeatsRefused == PathInv => RepeatedRuleRefused
<1> SUFFICES ASSUME PathInv, pathPhase = "panic", NEW i \in 1 .. Len(rules) - 1,
                    rules[i].backend = "none", Last(rules).backend = "none",
                    rules[i].segs = Last(rules).segs, rules[i].end = Last(rules).end
             PROVE  FALSE
  BY DEF RepeatedRuleRefused
<1>1. PatternOf(rules[i]) \in DOMAIN mux
  BY DEF PathInv, RulesIn, Done
<1>2. PatternOf(rules[i]) = normalizePattern(rules[i])
  BY DEF PatternOf
<1>3. normalizePattern(rules[i]) = normalizePattern(Last(rules))
  BY Zenon DEF normalizePattern
<1> QED BY <1>1, <1>2, <1>3 DEF PathInv

-----------------------------------------------------------------------------
(* The dispatchers together.                                                  *)

\* Routes and rules keep to what was registered.
THEOREM DispatchInvCorrect == DispatchSpec => [](HostInv /\ PathInv)
<1>1. ASSUME HostInv, PathInv,
             [(HostNext /\ UNCHANGED pathVars) \/ (PathNext /\ UNCHANGED hostVars)]_dispatchVars
      PROVE  HostInv' /\ PathInv'
  <2>1. ASSUME UNCHANGED pathVars PROVE PathInv'
    BY <1>1, <2>1 DEF pathVars, PathInv, RulesIn, FromRules, HasCatchAll, Done
  <2>2. ASSUME UNCHANGED hostVars PROVE HostInv'
    BY <1>1, <2>2 DEF hostVars, HostInv, RouteList, NodesFromRoutes, LastOfHost, For, Built, RouteOf
  <2>3. CASE HostNext /\ UNCHANGED pathVars
    BY <1>1, <2>1, <2>3, HostStep
  <2>4. CASE PathNext /\ UNCHANGED hostVars
    BY <1>1, <2>2, <2>4, PathStep
  <2>5. CASE UNCHANGED dispatchVars
    BY <2>1, <2>2, <2>5 DEF dispatchVars
  <2> QED BY <1>1, <2>3, <2>4, <2>5
<1> QED BY <1>1, HostInitInv, PathInitInv, PTL DEF DispatchSpec

\* The type invariant: the nodes hang together, a handler is a built route or a rule.
LEMMA DispatchTypes == HostInv /\ PathInv => DispatchTypeOK
<1> SUFFICES ASSUME HostInv, PathInv PROVE DispatchTypeOK
  OBVIOUS
<1>1. ASSUME NEW n \in DOMAIN trie PROVE Prefixes(n) \subseteq DOMAIN trie
  <2>0. \A m : m \in DOMAIN trie <=> m = <<>> \/ (m \in Seq(Token) /\ \E i \in Built : Starts(m, RouteOf(i)))
    BY DEF HostInv, NodesFromRoutes
  <2>1. n \in Seq(Token)
    <3>1. <<>> \in Seq(Token)
      OBVIOUS
    <3> QED BY <2>0, <3>1
  <2> SUFFICES ASSUME NEW m \in Seq(Token), Starts(m, n) PROVE m \in DOMAIN trie
    BY <2>1, PrefixesStart
  <2>2. CASE n = <<>>
    <3>1. m = <<>>
      <4>1. Len(m) \in Nat /\ Len(m) <= 0
        BY <2>2 DEF Starts
      <4> QED BY <4>1
    <3> QED BY <2>0, <3>1
  <2>3. CASE n # <<>>
    <3>1. PICK i \in Built : Starts(n, RouteOf(i))
      BY <2>0, <2>3
    <3>2. RouteOf(i) \in Seq(Token)
      BY BuiltRoutes DEF HostInv
    <3>3. Starts(m, RouteOf(i))
      BY <2>1, <3>1, <3>2, StartsOrder
    <3> QED BY <2>0, <3>3
  <2> QED BY <2>2, <2>3
<1>2. ASSUME NEW n \in DOMAIN trie, trie[n] # 0 PROVE routes[trie[n]].built
  <2>1. trie[n] \in Built
    BY <1>2 DEF HostInv, LastOfHost, For
  <2> QED BY <2>1, Zenon DEF Built
<1>3. ASSUME NEW p \in DOMAIN mux PROVE mux[p] \in 0 .. Len(rules)
  <2>1. Len(rules) \in Nat
    BY DEF PathInv
  <2>2. mux[p] \in 1 .. Done \/ mux[p] = 0
    BY DEF PathInv, FromRules
  <2> QED BY <2>1, <2>2 DEF Done
<1> QED BY <1>1, <1>2, <1>3, Zenon DEF DispatchTypeOK, HostInv, PathInv

\* A request reaches the handler of the route that was meant for its host, for any
\* routes and any Host header.
THEOREM HostsRoutedCorrect == DispatchSpec => []HostsRouted
<1>1. HostInv /\ PathInv => HostsRouted
  BY DispatchTypes, HostsFollow, Zenon DEF HostsRouted
<1> QED BY <1>1, DispatchInvCorrect, PTL

\* A request reaches the rule that was meant for its path, with the prefix that the
\* rule strips, for any rules and any path; a rule written twice is refused.
THEOREM PathsRoutedCorrect == DispatchSpec => []PathsRouted
<1>1. PathInv => PathsRouted
  BY PathsAnswered, SubtreeOwned, StripHolds, RepeatsRefused DEF PathsRouted
<1> QED BY <1>1, DispatchInvCorrect, PTL

-----------------------------------------------------------------------------
(* Decisions by client address: the subnet trie.                           *)

BitString == Seq({0, 1})

\* A trie has, for each family, nodes that are strings of bits, its root among them.
TrieShape(t) ==
    /\ DOMAIN t = Families
    /\ \A f \in Families : <<>> \in DOMAIN t[f] /\ DOMAIN t[f] \subseteq BitString

Marked(t, f) == {n \in DOMAIN t[f] : t[f][n]}

\* TrieOK, TrieContains in terms of Starts.
LEMMA TrieRead ==
    ASSUME NEW t, TrieShape(t)
    PROVE  /\ TrieOK(t) <=> \A f \in Families : \A n \in DOMAIN t[f] :
                  /\ \A m \in BitString : Starts(m, n) => m \in DOMAIN t[f]
                  /\ n \in Marked(t, f) /\ n # <<>> => \A m \in DOMAIN t[f] : Starts(n, m) => m = n
           /\ \A a \in Address : TrieContains(t, a) <=>
                  \E n \in Marked(t, a.family) : n # <<>> /\ Starts(n, a.bits)
<1>1. ASSUME NEW f \in Families, NEW n \in DOMAIN t[f]
      PROVE  /\ n \in BitString /\ DOMAIN t[f] \subseteq BitString
             /\ Prefixes(n) \subseteq DOMAIN t[f] <=> \A m \in BitString : Starts(m, n) => m \in DOMAIN t[f]
             /\ \A m \in DOMAIN t[f] : IsStrictPrefix(n, m) <=> Starts(n, m) /\ n # m
  <2>1. DOMAIN t[f] \subseteq BitString /\ n \in BitString
    BY DEF TrieShape
  <2>2. \A u : u \in Prefixes(n) <=> u \in BitString /\ Starts(u, n)
    BY <2>1, PrefixesStart DEF BitString
  <2>3. \A m \in DOMAIN t[f] : IsStrictPrefix(n, m) <=> Starts(n, m) /\ n # m
    BY <2>1, PrefixesStart DEF BitString
  <2> QED BY <2>1, <2>2, <2>3
<1>2. TrieOK(t) <=> \A f \in Families : \A n \in DOMAIN t[f] :
                  /\ \A m \in BitString : Starts(m, n) => m \in DOMAIN t[f]
                  /\ n \in Marked(t, f) /\ n # <<>> => \A m \in DOMAIN t[f] : Starts(n, m) => m = n
  <2>1. ASSUME NEW f \in Families, NEW n \in DOMAIN t[f]
        PROVE  (t[f][n] /\ n # <<>> => ~\E m \in DOMAIN t[f] : IsStrictPrefix(n, m)) <=>
               (n \in Marked(t, f) /\ n # <<>> => \A m \in DOMAIN t[f] : Starts(n, m) => m = n)
    BY <1>1, Zenon DEF Marked
  <2> QED BY <1>1, <2>1, Zenon DEF TrieOK
<1>3. ASSUME NEW a \in Address
      PROVE  TrieContains(t, a) <=> \E n \in Marked(t, a.family) : n # <<>> /\ Starts(n, a.bits)
  <2>1. a.bits \in BitString /\ a.family \in Families
    BY DEF Address, BitString
  <2>2. \A u : u \in Prefixes(a.bits) <=> u \in BitString /\ Starts(u, a.bits)
    BY <2>1, PrefixesStart DEF BitString
  <2>3. DOMAIN t[a.family] \subseteq BitString
    BY <2>1 DEF TrieShape
  <2> QED BY <2>2, <2>3, Zenon DEF TrieContains, Marked
<1> QED BY <1>2, <1>3

\* What Insert does with a range that is not a whole family.
LEMMA InsertNodes ==
    ASSUME NEW t, TrieShape(t), NEW p \in Address, NEW f, NEW b, f = p.family, b = p.bits, b # <<>>
    PROVE  \/ /\ Insert(t, p) = t /\ \E n \in Marked(t, f) : n # <<>> /\ Starts(n, b)
           \/ /\ TrieShape(Insert(t, p)) /\ ~\E n \in Marked(t, f) : n # <<>> /\ Starts(n, b)
              /\ \A g \in Families : g # f => Insert(t, p)[g] = t[g]
              /\ \A n : n \in DOMAIN Insert(t, p)[f] <=>
                        /\ n \in BitString
                        /\ (n \in DOMAIN t[f] /\ ~(Starts(b, n) /\ n # b)) \/ Starts(n, b)
              /\ \A n \in DOMAIN Insert(t, p)[f] :
                     n \in Marked(Insert(t, p), f) <=> n = b \/ n \in Marked(t, f)
<1> DEFINE nodes == t[f]
           path == Prefixes(b)
           kept == {n \in DOMAIN nodes : ~IsStrictPrefix(b, n)}
           terminal(n) == IF n = b THEN TRUE ELSE n \in DOMAIN nodes /\ nodes[n]
           fresh == [n \in kept \union path |-> terminal(n)]
           full == \E n \in path \ {<<>>} : n \in DOMAIN nodes /\ nodes[n]
<1>1. f \in Families /\ b \in BitString
  BY DEF Address, BitString
<1>2. Insert(t, p) = IF full THEN t ELSE [t EXCEPT ![f] = fresh]
  BY Zenon DEF Insert
<1>3. DOMAIN nodes \subseteq BitString /\ DOMAIN t = Families /\ <<>> \in DOMAIN nodes
  BY <1>1 DEF TrieShape
<1>4. \A u : u \in path <=> u \in BitString /\ Starts(u, b)
  BY <1>1, PrefixesStart DEF BitString
<1>5. \A n \in DOMAIN nodes : IsStrictPrefix(b, n) <=> Starts(b, n) /\ n # b
  BY <1>1, <1>3, PrefixesStart DEF BitString
<1>6. full <=> \E n \in Marked(t, f) : n # <<>> /\ Starts(n, b)
  BY <1>3, <1>4, Zenon DEF Marked
<1>7. CASE full
  BY <1>2, <1>6, <1>7, Zenon
<1>8. CASE ~full
  <2> DEFINE new == Insert(t, p)
  <2>1. new = [t EXCEPT ![f] = fresh]
    BY <1>2, <1>8, Zenon
  <2>2. DOMAIN fresh = kept \union path /\ \A n \in kept \union path : fresh[n] = terminal(n)
    BY Zenon
  <2> HIDE DEF fresh, new
  <2>3. DOMAIN new = Families /\ new[f] = fresh /\ \A g \in Families : g # f => new[g] = t[g]
    BY <1>1, <1>3, <2>1
  <2>4. \A n : n \in DOMAIN new[f] <=>
                        /\ n \in BitString
                        /\ (n \in DOMAIN t[f] /\ ~(Starts(b, n) /\ n # b)) \/ Starts(n, b)
    BY <1>3, <1>4, <1>5, <2>2, <2>3
  <2>5. ASSUME NEW n \in DOMAIN new[f] PROVE n \in Marked(new, f) <=> n = b \/ n \in Marked(t, f)
    <3>1. new[f][n] = terminal(n)
      BY <2>2, <2>3
    <3> QED BY <3>1, Zenon DEF Marked
  <2>6. TrieShape(new)
    <3>1. <<>> \in DOMAIN new[f]
      <4>1. Starts(<<>>, b) /\ <<>> \in BitString
        BY <1>1, <1>3 DEF Starts, BitString
      <4> QED BY <2>4, <4>1
    <3>2. \A g \in Families : <<>> \in DOMAIN new[g] /\ DOMAIN new[g] \subseteq BitString
      BY <2>3, <2>4, <3>1 DEF TrieShape
    <3> QED BY <2>3, <3>2 DEF TrieShape
  <2> QED BY <1>6, <1>8, <2>3, <2>4, <2>5, <2>6, Zenon DEF new
<1> QED BY <1>7, <1>8

\* A trie with a range more holds the addresses of that range more.
LEMMA InsertKeeps ==
    ASSUME NEW t, TrieShape(t), TrieOK(t), NEW p \in Address, p.bits # <<>>
    PROVE  /\ TrieShape(Insert(t, p)) /\ TrieOK(Insert(t, p))
           /\ \A a \in Address : TrieContains(Insert(t, p), a) <=>
                  TrieContains(t, a) \/ (p.family = a.family /\ Starts(p.bits, a.bits))
<1> DEFINE f == p.family
           b == p.bits
           new == Insert(t, p)
           old == \E n \in Marked(t, f) : n # <<>> /\ Starts(n, b)
<1>1. f \in Families /\ b \in BitString
  BY DEF Address, BitString
<1>2. \/ new = t /\ old
      \/ /\ TrieShape(new) /\ ~old
         /\ \A g \in Families : g # f => new[g] = t[g]
         /\ \A n : n \in DOMAIN new[f] <=>
                     /\ n \in BitString
                     /\ (n \in DOMAIN t[f] /\ ~(Starts(b, n) /\ n # b)) \/ Starts(n, b)
         /\ \A n \in DOMAIN new[f] : n \in Marked(new, f) <=> n = b \/ n \in Marked(t, f)
  BY InsertNodes, Zenon
<1>3. b # <<>>
  OBVIOUS
<1>4. \A g \in Families : \A n \in DOMAIN t[g] : n \in BitString
  BY DEF TrieShape
<1>5. \A g \in Families : \A n \in DOMAIN t[g] :
          /\ \A m \in BitString : Starts(m, n) => m \in DOMAIN t[g]
          /\ n \in Marked(t, g) /\ n # <<>> => \A m \in DOMAIN t[g] : Starts(n, m) => m = n
  BY TrieRead
<1>6. \A a \in Address : TrieContains(t, a) <=> \E n \in Marked(t, a.family) : n # <<>> /\ Starts(n, a.bits)
  BY TrieRead
<1>7. \A a \in Address : a.family \in Families /\ a.bits \in BitString
  BY DEF Address, BitString
<1>8. \A u, v, s \in BitString :
          /\ Starts(u, u)
          /\ Starts(u, v) /\ Starts(v, s) => Starts(u, s)
          /\ Starts(u, v) /\ Starts(v, u) => u = v
          /\ Starts(u, s) /\ Starts(v, s) => Starts(u, v) \/ Starts(v, u)
  BY StartsOrder, Zenon DEF BitString
<1>m. \A g \in Families : \A n \in Marked(t, g) : n \in DOMAIN t[g] /\ n \in BitString
  BY <1>4 DEF Marked
<1> HIDE DEF f, b, new
<1>9. CASE new = t /\ old
  <2>1. ASSUME NEW a \in Address, f = a.family, Starts(b, a.bits) PROVE TrieContains(t, a)
    <3>1. PICK n \in Marked(t, f) : n # <<>> /\ Starts(n, b)
      BY <1>9
    <3>2. Starts(n, a.bits)
      BY <1>1, <1>7, <1>8, <1>m, <2>1, <3>1
    <3> QED BY <1>6, <2>1, <3>1, <3>2
  <2> QED BY <1>9, <2>1 DEF new, f, b
<1>10. CASE /\ TrieShape(new) /\ ~old
            /\ \A g \in Families : g # f => new[g] = t[g]
            /\ \A n : n \in DOMAIN new[f] <=>
                        /\ n \in BitString
                        /\ (n \in DOMAIN t[f] /\ ~(Starts(b, n) /\ n # b)) \/ Starts(n, b)
            /\ \A n \in DOMAIN new[f] : n \in Marked(new, f) <=> n = b \/ n \in Marked(t, f)
  <2>1. \A n \in Marked(new, f) : n \in DOMAIN new[f] /\ n \in BitString
    BY <1>10 DEF Marked
  <2>2. b \in DOMAIN new[f] /\ b \in Marked(new, f)
    BY <1>1, <1>8, <1>10
  <2>3. ASSUME NEW a \in Address
        PROVE  TrieContains(new, a) <=> TrieContains(t, a) \/ (f = a.family /\ Starts(b, a.bits))
    <3>1. TrieContains(new, a) <=> \E n \in Marked(new, a.family) : n # <<>> /\ Starts(n, a.bits)
      BY <1>10, TrieRead
    <3>2. CASE a.family # f
      <4>1. Marked(new, a.family) = Marked(t, a.family)
        BY <1>7, <1>10, <3>2 DEF Marked
      <4> QED BY <1>6, <3>1, <3>2, <4>1
    <3>3. CASE a.family = f
      <4>1. ASSUME TrieContains(new, a) PROVE TrieContains(t, a) \/ Starts(b, a.bits)
        <5>1. PICK n \in Marked(new, f) : n # <<>> /\ Starts(n, a.bits)
          BY <3>1, <3>3, <4>1
        <5>2. n = b \/ n \in Marked(t, f)
          BY <1>10, <2>1
        <5> QED BY <1>6, <3>3, <5>1, <5>2
      <4>2. ASSUME Starts(b, a.bits) PROVE TrieContains(new, a)
        BY <1>3, <2>2, <3>1, <3>3, <4>2
      <4>3. ASSUME TrieContains(t, a) PROVE TrieContains(new, a)
        <5>1. PICK n \in Marked(t, f) : n # <<>> /\ Starts(n, a.bits)
          BY <1>6, <3>3, <4>3
        <5>2. CASE Starts(b, n)
          <6>1. Starts(b, a.bits)
            BY <1>1, <1>7, <1>8, <1>m, <5>1, <5>2
          <6> QED BY <4>2, <6>1
        <5>3. CASE ~Starts(b, n)
          <6>1. n \in DOMAIN new[f]
            BY <1>1, <1>10, <1>m, <5>3
          <6>2. n \in Marked(new, f)
            BY <1>10, <6>1
          <6> QED BY <3>1, <3>3, <5>1, <6>2
        <5> QED BY <5>2, <5>3
      <4> QED BY <3>3, <4>1, <4>2, <4>3
    <3> QED BY <3>2, <3>3
  <2>4. TrieOK(new)
    <3> SUFFICES ASSUME NEW g \in Families, NEW n \in DOMAIN new[g]
                 PROVE  /\ \A m \in BitString : Starts(m, n) => m \in DOMAIN new[g]
                        /\ n \in Marked(new, g) /\ n # <<>> => \A m \in DOMAIN new[g] : Starts(n, m) => m = n
      BY <1>10, TrieRead
    <3>1. CASE g # f
      <4>1. new[g] = t[g] /\ Marked(new, g) = Marked(t, g)
        BY <1>10, <3>1 DEF Marked
      <4> QED BY <1>5, <4>1
    <3>2. CASE g = f
      <4>1. n \in BitString /\ ((n \in DOMAIN t[f] /\ ~(Starts(b, n) /\ n # b)) \/ Starts(n, b))
        BY <1>10, <3>2
      <4>2. ASSUME NEW m \in BitString, Starts(m, n) PROVE m \in DOMAIN new[f]
        <5>1. CASE Starts(n, b)
          <6>1. Starts(m, b)
            BY <1>1, <1>8, <4>1, <4>2, <5>1
          <6> QED BY <1>10, <6>1
        <5>2. CASE n \in DOMAIN t[f] /\ ~(Starts(b, n) /\ n # b)
          <6>1. m \in DOMAIN t[f]
            BY <1>1, <1>5, <4>2, <5>2
          <6>2. CASE Starts(b, m) /\ m # b
            <7>1. Starts(b, n)
              BY <1>1, <1>8, <4>1, <4>2, <6>2
            <7>2. n = b
              BY <5>2, <7>1
            <7> QED BY <1>1, <1>8, <4>2, <6>2, <7>2
          <6> QED BY <1>10, <6>1, <6>2
        <5> QED BY <4>1, <5>1, <5>2
      <4>3. ASSUME n \in Marked(new, f), n # <<>>, NEW m \in DOMAIN new[f], Starts(n, m) PROVE m = n
        <5>1. m \in BitString /\ ((m \in DOMAIN t[f] /\ ~(Starts(b, m) /\ m # b)) \/ Starts(m, b))
          BY <1>10
        <5>2. CASE n = b
          BY <1>1, <1>8, <4>1, <4>3, <5>1, <5>2
        <5>3. CASE n # b
          <6>1. n \in Marked(t, f)
            BY <1>10, <3>2, <4>3, <5>3
          <6>2. CASE Starts(m, b)
            <7>1. Starts(n, b)
              BY <1>1, <1>8, <4>1, <4>3, <5>1, <6>2
            <7> QED BY <1>10, <4>3, <6>1, <7>1
          <6>3. CASE m \in DOMAIN t[f]
            BY <1>1, <1>5, <1>m, <4>3, <6>1, <6>3
          <6> QED BY <5>1, <6>2, <6>3
        <5> QED BY <5>2, <5>3
      <4> QED BY <3>2, <4>2, <4>3
    <3> QED BY <3>1, <3>2
  <2> QED BY <1>10, <2>3, <2>4 DEF new, f, b
<1> QED BY <1>2, <1>9, <1>10

TextList(list) == list \in Seq(Address \union {Junk})

\* no range of the list is a whole family
Narrow(list) == TextList(list) /\ \A i \in DOMAIN list : list[i] = Junk \/ list[i].bits # <<>>

InsertText(t, p) == IF p = Junk THEN t ELSE Insert(t, p)

\* The recursion of InsertEach has a solution, so that InsertEach is one.
LEMMA InsertEachDef ==
    ASSUME NEW list, TextList(list)
    PROVE  /\ InsertEach(list)[0] = NewSubnetTrie
           /\ \A i \in 1 .. Len(list) : InsertEach(list)[i] = InsertText(InsertEach(list)[i - 1], list[i])
<1> DEFINE Ok(h, n) == h = [i \in 0 .. n |-> IF i = 0 THEN NewSubnetTrie
                                ELSE IF list[i] = Junk THEN h[i - 1] ELSE Insert(h[i - 1], list[i])]
           Solves(h, n) == /\ h = [i \in 0 .. n |-> h[i]] /\ h[0] = NewSubnetTrie
                           /\ \A i \in 1 .. n : h[i] = InsertText(h[i - 1], list[i])
           S == {n \in Nat : \E h : Solves(h, n)}
<1>1. ASSUME NEW h, NEW n \in Nat PROVE Ok(h, n) <=> Solves(h, n)
  <2>1. ASSUME Ok(h, n) PROVE Solves(h, n)
    BY <2>1 DEF InsertText
  <2>2. ASSUME Solves(h, n) PROVE Ok(h, n)
    <3>1. \A i \in 0 .. n : h[i] = IF i = 0 THEN NewSubnetTrie
                                ELSE IF list[i] = Junk THEN h[i - 1] ELSE Insert(h[i - 1], list[i])
      <4>1. h[0] = NewSubnetTrie /\ \A i \in 1 .. n : h[i] = InsertText(h[i - 1], list[i])
        BY <2>2
      <4>2. ASSUME NEW i \in 0 .. n, i # 0 PROVE h[i] = InsertText(h[i - 1], list[i])
        <5>1. i \in 1 .. n
          BY <4>2
        <5> QED BY <4>1, <5>1
      <4> QED BY <4>1, <4>2 DEF InsertText
    <3>2. h = [i \in 0 .. n |-> h[i]]
      BY <2>2
    <3> QED BY <3>1, <3>2, Zenon
  <2> QED BY <2>1, <2>2
<1>2. 0 \in S
  <2> DEFINE h == [i \in 0 .. 0 |-> NewSubnetTrie]
  <2>1. Solves(h, 0)
    OBVIOUS
  <2> QED BY <2>1, Zenon
<1>3. ASSUME NEW n \in Nat, n \in S PROVE n + 1 \in S
  <2>1. PICK h : Solves(h, n)
    BY <1>3
  <2> DEFINE k == [i \in 0 .. n + 1 |-> IF i = n + 1 THEN InsertText(h[n], list[n + 1]) ELSE h[i]]
  <2>2. /\ \A i \in 0 .. n : k[i] = h[i]
        /\ k[n + 1] = InsertText(h[n], list[n + 1])
        /\ k = [i \in 0 .. n + 1 |-> k[i]]
    OBVIOUS
  <2>3. h[0] = NewSubnetTrie /\ \A i \in 1 .. n : h[i] = InsertText(h[i - 1], list[i])
    BY <2>1
  <2> HIDE DEF k
  <2>4. k[0] = NewSubnetTrie /\ \A i \in 1 .. n + 1 : k[i] = InsertText(k[i - 1], list[i])
    <3>1. k[0] = NewSubnetTrie
      BY <2>2, <2>3
    <3>2. ASSUME NEW i \in 1 .. n PROVE k[i] = InsertText(k[i - 1], list[i])
      <4>1. i \in 0 .. n /\ i - 1 \in 0 .. n
        OBVIOUS
      <4> QED BY <2>2, <2>3, <4>1
    <3>3. k[n + 1] = InsertText(k[n + 1 - 1], list[n + 1])
      <4>1. n \in 0 .. n /\ n + 1 - 1 = n
        OBVIOUS
      <4> QED BY <2>2, <4>1
    <3>4. \A i \in 1 .. n + 1 : i \in 1 .. n \/ i = n + 1
      OBVIOUS
    <3> QED BY <3>1, <3>2, <3>3, <3>4
  <2>5. Solves(k, n + 1)
    BY <2>2, <2>4
  <2>6. \E j : Solves(j, n + 1)
    BY <2>5, Zenon
  <2>7. n + 1 \in Nat
    OBVIOUS
  <2> QED BY <2>6, <2>7
<1>4. Len(list) \in Nat
  BY DEF TextList
<1>5. Len(list) \in S
  <2> HIDE DEF S
  <2> QED BY <1>2, <1>3, <1>4, SetInduction
<1>6. \E h : Ok(h, Len(list))
  BY <1>1, <1>4, <1>5
<1>7. InsertEach(list) = CHOOSE h : Ok(h, Len(list))
  BY DEF InsertEach
<1> HIDE DEF Ok
<1>8. Ok(InsertEach(list), Len(list))
  BY <1>6, <1>7
<1> QED BY <1>1, <1>4, <1>8

\* A trie built from a list holds exactly the addresses that a range of it covers,
\* in whatever order the ranges came.
LEMMA InsertAllHolds ==
    ASSUME NEW list, Narrow(list)
    PROVE  /\ TrieOK(InsertAll(list))
           /\ \A a \in Address : TrieContains(InsertAll(list), a) <=> Covered(a, list)
<1> DEFINE t == InsertEach(list)
           By(a, i) == list[i].family = a.family /\ Starts(list[i].bits, a.bits)
           Good(n) == /\ TrieShape(t[n]) /\ TrieOK(t[n])
                      /\ \A a \in Address : TrieContains(t[n], a) <=> \E i \in 1 .. n : By(a, i)
           S == {n \in Nat : n <= Len(list) => Good(n)}
<1>1. /\ Len(list) \in Nat /\ DOMAIN list = 1 .. Len(list)
      /\ \A i \in 1 .. Len(list) : list[i] = Junk \/ (list[i] \in Address /\ list[i].bits # <<>>)
  BY DEF Narrow, TextList
<1>2. t[0] = NewSubnetTrie /\ \A i \in 1 .. Len(list) : t[i] = InsertText(t[i - 1], list[i])
  BY InsertEachDef DEF Narrow
<1>3. Good(0)
  <2>1. /\ DOMAIN NewSubnetTrie = Families
        /\ \A f \in Families : DOMAIN NewSubnetTrie[f] = {<<>>} /\ ~NewSubnetTrie[f][<<>>]
    BY DEF NewSubnetTrie
  <2>2. <<>> \in BitString
    BY DEF BitString
  <2>3. TrieShape(NewSubnetTrie)
    BY <2>1, <2>2 DEF TrieShape
  <2>4. \A f \in Families : Marked(NewSubnetTrie, f) = {}
    BY <2>1, Zenon DEF Marked
  <2>5. \A m \in BitString : Starts(m, <<>>) => m = <<>>
    BY DEF Starts, BitString
  <2>6. TrieOK(NewSubnetTrie)
    BY <2>1, <2>3, <2>4, <2>5, TrieRead
  <2>7. \A a \in Address : ~TrieContains(NewSubnetTrie, a)
    <3>1. \A a \in Address : a.family \in Families
      BY DEF Address
    <3> QED BY <2>3, <2>4, <3>1, TrieRead
  <2> QED BY <1>2, <2>3, <2>6, <2>7
<1>4. ASSUME NEW n \in Nat, n + 1 <= Len(list), Good(n) PROVE Good(n + 1)
  <2> DEFINE p == list[n + 1]
  <2>1. n + 1 \in 1 .. Len(list) /\ n + 1 - 1 = n
    BY <1>1, <1>4
  <2>2. t[n + 1] = InsertText(t[n], p) /\ (p = Junk \/ (p \in Address /\ p.bits # <<>>))
    BY <1>1, <1>2, <2>1
  <2>3. \A a : (\E i \in 1 .. n + 1 : By(a, i)) <=> (\E i \in 1 .. n : By(a, i)) \/ By(a, n + 1)
    <3>1. 1 .. n + 1 = (1 .. n) \union {n + 1}
      OBVIOUS
    <3> HIDE DEF By
    <3> QED BY <3>1
  <2>4. CASE p = Junk
    <3>1. t[n + 1] = t[n]
      BY <2>2, <2>4 DEF InsertText
    <3>2. \A a \in Address : ~By(a, n + 1)
      <4>1. \A a \in Address : a.family \in Families
        BY DEF Address
      <4>2. p.family = "none"
        BY <2>4 DEF Junk
      <4> QED BY <4>1, <4>2 DEF Families
    <3> HIDE DEF By
    <3> QED BY <1>4, <2>3, <3>1, <3>2
  <2>5. CASE p # Junk
    <3>1. t[n + 1] = Insert(t[n], p) /\ p \in Address /\ p.bits # <<>>
      BY <2>2, <2>5 DEF InsertText
    <3>2. TrieShape(t[n]) /\ TrieOK(t[n])
      BY <1>4
    <3> DEFINE u == t[n]
    <3>3. /\ TrieShape(Insert(u, p)) /\ TrieOK(Insert(u, p))
          /\ \A a \in Address : TrieContains(Insert(u, p), a) <=> TrieContains(u, a) \/ By(a, n + 1)
      <4> HIDE DEF u
      <4>1. TrieShape(u) /\ TrieOK(u)
        BY <3>2 DEF u
      <4> QED BY <3>1, <4>1, InsertKeeps
    <3> HIDE DEF By
    <3> QED BY <1>4, <2>3, <3>1, <3>3
  <2> QED BY <2>4, <2>5
<1>5. Len(list) \in S
  <2> HIDE DEF Good
  <2>1. 0 \in S
    BY <1>3
  <2>2. ASSUME NEW n \in Nat, n \in S PROVE n + 1 \in S
    BY <1>1, <1>4, <2>2
  <2> HIDE DEF S
  <2> QED BY <1>1, <2>1, <2>2, SetInduction
<1>6. Good(Len(list))
  BY <1>1, <1>5
<1>7. ASSUME NEW a \in Address PROVE Covered(a, list) <=> \E i \in 1 .. Len(list) : By(a, i)
  <2>1. ASSUME NEW i \in 1 .. Len(list), list[i].family = a.family
        PROVE  IsPrefix(list[i].bits, a.bits) <=> Starts(list[i].bits, a.bits)
    <3>1. a.bits \in BitString
      BY DEF Address, BitString
    <3>2. list[i].bits \in BitString
      <4>1. a.family \in Families /\ Junk.family \notin Families
        BY DEF Address, Junk, Families
      <4>2. list[i] \in Address
        BY <1>1, <2>1, <4>1
      <4> QED BY <4>2 DEF Address, BitString
    <3> QED BY <3>1, <3>2, PrefixesStart DEF BitString
  <2> QED BY <1>1, <2>1 DEF Covered
<1> QED BY <1>6, <1>7 DEF InsertAll

-----------------------------------------------------------------------------
(* The filter and the proxies.                                               *)

\* No range that is configured or fetched is a whole family: Contains does not look
\* at the root, where such a range is kept.
NarrowRanges ==
    /\ \A list \in Lists : Narrow(list)
    /\ \A pages \in Pages : \A i \in {1, 2} : pages[i] = Failed \/ Narrow(pages[i])

\* A trie in use was built from the lists that the history variables name.
FilterInv ==
    /\ filterPhase \in {"new", "loading", "ready", "misconfigured"}
    /\ Narrow(allowFrom) /\ Narrow(blockFrom) /\ Narrow(initial)
    /\ allowList = InsertAll(allowFrom) /\ blockList = InsertAll(blockFrom)

TrustInv ==
    /\ proxyPhase \in {"new", "raw", "matching", "refreshing"}
    /\ Narrow(extra) /\ Narrow(fetchedFrom)
    /\ proxyPhase = "new" => fetchedFrom = <<>>
    /\ proxyPhase \in {"matching", "refreshing"} => trusted = InsertAll(fetchedFrom \o extra)
    /\ TrieOK(trusted)

\* What the lists that are joined have in common: they stay free of the whole range.
LEMMA NarrowLists ==
    /\ Narrow(<<>>) /\ InsertAll(<<>>) = NewSubnetTrie
    /\ \A k, l : Narrow(k) /\ Narrow(l) => Narrow(k \o l)
    /\ \A l : Narrow(l) => <<>> \o l = l
<1>1. Narrow(<<>>)
  BY DEF Narrow, TextList
<1>2. InsertAll(<<>>) = NewSubnetTrie
  <2>1. Len(<<>>) = 0
    OBVIOUS
  <2> QED BY <1>1, <2>1, InsertEachDef DEF Narrow, InsertAll
<1>3. ASSUME NEW k, NEW l, Narrow(k), Narrow(l) PROVE Narrow(k \o l)
  <2> DEFINE D == Address \union {Junk}
  <2>1. k \in Seq(D) /\ l \in Seq(D)
    BY <1>3 DEF Narrow, TextList
  <2> HIDE DEF D
  <2>2. /\ k \o l \in Seq(D) /\ Len(k \o l) = Len(k) + Len(l)
        /\ \A i \in 1 .. Len(k) + Len(l) : (k \o l)[i] = IF i <= Len(k) THEN k[i] ELSE l[i - Len(k)]
    BY <2>1, ConcatProperties
  <2>3. ASSUME NEW i \in DOMAIN (k \o l) PROVE (k \o l)[i] = Junk \/ (k \o l)[i].bits # <<>>
    <3>1. Len(k) \in Nat /\ Len(l) \in Nat /\ i \in 1 .. Len(k) + Len(l)
      BY <2>1, <2>2
    <3>2. CASE i <= Len(k)
      <4>1. i \in DOMAIN k /\ (k \o l)[i] = k[i]
        BY <2>1, <2>2, <3>1, <3>2
      <4> QED BY <1>3, <4>1 DEF Narrow
    <3>3. CASE ~(i <= Len(k))
      <4>1. i - Len(k) \in DOMAIN l /\ (k \o l)[i] = l[i - Len(k)]
        BY <2>1, <2>2, <3>1, <3>3
      <4> QED BY <1>3, <4>1 DEF Narrow
    <3> QED BY <3>2, <3>3
  <2> QED BY <2>2, <2>3 DEF Narrow, TextList, D
<1>4. ASSUME NEW l, Narrow(l) PROVE <<>> \o l = l
  BY <1>4, ConcatEmptySeq DEF Narrow, TextList
<1> QED BY <1>1, <1>2, <1>3, <1>4

\* Nothing is configured yet: the empty tries are those of the empty lists.
LEMMA AddressesInitInv == FilterInit /\ TrustInit => FilterInv /\ TrustInv
<1> SUFFICES ASSUME FilterInit, TrustInit PROVE FilterInv /\ TrustInv
  OBVIOUS
<1>1. FilterInv
  BY NarrowLists DEF FilterInit, FilterInv
<1>2. TrieOK(NewSubnetTrie)
  BY NarrowLists, InsertAllHolds
<1> QED BY <1>1, <1>2, NarrowLists DEF TrustInit, TrustInv

\* One step of the IP filter: a refresh swaps trie and list together.
LEMMA FilterStep == ASSUME NarrowRanges, FilterInv, FilterNext PROVE FilterInv'
<1>1. ASSUME NEW allow \in Lists, NEW block \in Lists, NewStaticFilter(allow, block) PROVE FilterInv'
  <2>1. Narrow(allow) /\ Narrow(block)
    BY DEF NarrowRanges
  <2> QED BY <1>1, <2>1 DEF FilterInv, NewStaticFilter, StoreBlockList
<1>2. ASSUME NEW allow \in Lists, NEW answer \in Lists \union {Failed}, StartRefreshTimer(allow, answer)
      PROVE  FilterInv'
  <2>1. Narrow(allow) /\ (answer # Failed => Narrow(answer)) /\ Narrow(<<>>)
    BY NarrowLists DEF NarrowRanges
  <2>2. Narrow(initial')
    BY <1>2, <2>1 DEF FilterInv, StartRefreshTimer
  <2> QED BY <1>2, <2>1, <2>2 DEF FilterInv, StartRefreshTimer
<1>3. CASE StoreInitial
  BY <1>3, NarrowLists DEF FilterInv, StoreInitial, StoreBlockList
<1>4. ASSUME NEW answer \in Lists \union {Failed}, RefreshBlockList(answer) PROVE FilterInv'
  <2>1. Narrow(answer)
    BY <1>4 DEF NarrowRanges, RefreshBlockList
  <2> QED BY <1>4, <2>1 DEF FilterInv, RefreshBlockList, StoreBlockList
<1> QED BY <1>1, <1>2, <1>3, <1>4 DEF FilterNext

\* One step of the trusted proxies: every tick rebuilds preset and ranges.
LEMMA TrustStep == ASSUME NarrowRanges, TrustInv, TrustNext PROVE TrustInv'
<1>1. \A pages \in Pages : Narrow(ResolvePreset(pages))
  BY NarrowLists DEF NarrowRanges, ResolvePreset
<1>2. \A k, l : Narrow(k) /\ Narrow(l) => Narrow(k \o l) /\ TrieOK(InsertAll(k \o l))
  <2>1. \A k, l : Narrow(k) /\ Narrow(l) => Narrow(k \o l)
    BY NarrowLists
  <2> QED BY <2>1, InsertAllHolds
<1>3. ASSUME NEW ranges \in Lists, NewTrustedProxyResolver(ranges) PROVE TrustInv'
  <2>1. Narrow(ranges) /\ fetchedFrom = <<>> /\ <<>> \o ranges = ranges
    BY <1>3, NarrowLists DEF NarrowRanges, TrustInv, NewTrustedProxyResolver
  <2>2. TrieOK(InsertAll(ranges)) /\ Narrow(<<>>)
    BY <2>1, InsertAllHolds, NarrowLists
  <2> QED BY <1>3, <2>1, <2>2 DEF TrustInv, NewTrustedProxyResolver, wrapTrustedProxies
<1>4. ASSUME NEW ranges \in Lists, NEW pages \in Pages, NewTrustedProxyResolverFromPreset(pages, ranges)
      PROVE  TrustInv'
  <2>1. Narrow(ranges) /\ Narrow(ResolvePreset(pages))
    BY <1>1 DEF NarrowRanges
  <2>2. TrieOK(InsertAll(ResolvePreset(pages) \o ranges))
    BY <1>2, <2>1
  <2> QED BY <1>4, <2>1, <2>2 DEF TrustInv, NewTrustedProxyResolverFromPreset, wrapTrustedProxies
<1>5. ASSUME NEW pages \in Pages, RefreshTrusted(pages) PROVE TrustInv'
  <2>1. Narrow(ResolvePreset(pages)) /\ Narrow(extra)
    BY <1>1 DEF TrustInv
  <2>2. TrieOK(InsertAll(ResolvePreset(pages) \o extra))
    BY <1>2, <2>1
  <2> QED BY <1>5, <2>1, <2>2 DEF TrustInv, RefreshTrusted
<1>6. CASE UnknownPreset \/ StopRefresh
  BY <1>6 DEF TrustInv, UnknownPreset, StopRefresh
<1> QED BY <1>3, <1>4, <1>5, <1>6 DEF TrustNext

\* Every trie in use is the one of the lists it was last built from.
THEOREM AddressesInvCorrect == ASSUME NarrowRanges PROVE AddressesSpec => [](FilterInv /\ TrustInv)
<1>1. ASSUME FilterInv, TrustInv,
             [(FilterNext /\ UNCHANGED trustVars) \/ (TrustNext /\ UNCHANGED filterVars)]_addressVars
      PROVE  FilterInv' /\ TrustInv'
  <2>1. CASE FilterNext /\ UNCHANGED trustVars
    BY <1>1, <2>1, FilterStep DEF TrustInv, trustVars
  <2>2. CASE TrustNext /\ UNCHANGED filterVars
    BY <1>1, <2>2, TrustStep DEF FilterInv, filterVars
  <2>3. CASE UNCHANGED addressVars
    BY <1>1, <2>3 DEF FilterInv, TrustInv, filterVars, trustVars, addressVars
  <2> QED BY <1>1, <2>1, <2>2, <2>3
<1> QED BY <1>1, AddressesInitInv, PTL DEF AddressesSpec

\* The filter's answer is the one that its lists give, for every address and every
\* order of ranges and refreshes.
THEOREM FilterDecidesCorrect == ASSUME NarrowRanges PROVE AddressesSpec => []FilterDecides
<1>1. FilterInv => FilterDecides
  <2> SUFFICES ASSUME FilterInv, filterPhase = "ready", NEW a \in Clients
               PROVE  FilterServes(a) <=> Covered(a, allowFrom) \/ ~Covered(a, blockFrom)
    BY DEF FilterDecides
  <2>1. a \in Address /\ a # Junk
    BY AddressesAssumption DEF AddressesAssumption, Address, Junk, Families
  <2>2. /\ TrieContains(allowList, a) <=> Covered(a, allowFrom)
        /\ TrieContains(blockList, a) <=> Covered(a, blockFrom)
    BY <2>1, InsertAllHolds DEF FilterInv
  <2> QED BY <2>1, <2>2, Zenon DEF FilterServes, IsBlocked
<1> QED BY <1>1, AddressesInvCorrect, PTL

\* The trusted proxies are the declared ones, and a client that they speak for is
\* known by the address that the first of them saw, whatever it wrote itself.
THEOREM ClientKnownCorrect == ASSUME NarrowRanges PROVE AddressesSpec => []ClientKnown
<1>1. FilterInv /\ TrustInv => AddressesTypeOK
  <2> SUFFICES ASSUME FilterInv, TrustInv PROVE AddressesTypeOK
    OBVIOUS
  <2>1. TrieOK(allowList) /\ TrieOK(blockList) /\ TrieOK(trusted)
    BY InsertAllHolds DEF FilterInv, TrustInv
  <2> QED BY <2>1 DEF AddressesTypeOK, FilterInv, TrustInv
<1>2. TrustInv => TrustIsDeclared
  <2> SUFFICES ASSUME TrustInv, proxyPhase \in {"matching", "refreshing"}, NEW a \in Clients
               PROVE  isTrusted(a) <=> Covered(a, fetchedFrom \o extra)
    BY DEF TrustIsDeclared
  <2>1. a \in Address /\ a.family \in Families
    BY AddressesAssumption DEF AddressesAssumption, Address
  <2>2. Narrow(fetchedFrom \o extra) /\ trusted = InsertAll(fetchedFrom \o extra)
    BY NarrowLists DEF TrustInv
  <2>3. TrieContains(trusted, a) <=> Covered(a, fetchedFrom \o extra)
    BY <2>1, <2>2, InsertAllHolds
  <2> QED BY <2>1, <2>3 DEF isTrusted
<1>3. ForgeryHarmless
  <2> DEFINE proxies == {a \in Clients : isTrusted(a)}
  <2> SUFFICES ASSUME NEW remote \in proxies, NEW client \in Clients \ proxies, NEW h \in HeaderTexts,
                      NEW hops \in {<<>>} \union {<<a>> : a \in proxies}
               PROVE  Resolve(remote, h \o <<client>> \o hops) = client
    BY Zenon DEF ForgeryHarmless
  <2>0. hops = <<>> \/ \E a \in proxies : hops = <<a>>
    OBVIOUS
  <2> DEFINE D == Address \union {Junk, Blank}
             full == h \o <<client>> \o hops
             at == Len(h) + 1
             untrusted == {i \in DOMAIN full : full[i] # Blank /\ ~isTrusted(full[i])}
  <2>1. client \in Address /\ client # Blank /\ ~isTrusted(client) /\ isTrusted(remote)
    <3>1. client \in Address /\ client.family \in Families
      BY AddressesAssumption DEF AddressesAssumption, Address
    <3>2. client # Blank
      BY <3>1 DEF Blank, Families
    <3> QED BY <3>1, <3>2
  <2>2. h \in Seq(D) /\ <<client>> \in Seq(D) /\ hops \in Seq(D)
    <3>1. HeaderTexts \subseteq Seq(D) /\ Clients \subseteq D /\ proxies \subseteq D
      BY AddressesAssumption DEF AddressesAssumption
    <3> HIDE DEF D, proxies
    <3>2. client \in D
      BY <3>1
    <3>3. CASE hops = <<>>
      BY <3>1, <3>2, <3>3
    <3>4. CASE \E a \in proxies : hops = <<a>>
      <4>1. PICK a \in proxies : hops = <<a>>
        BY <3>4
      <4> QED BY <3>1, <3>2, <4>1
    <3> QED BY <2>0, <3>3, <3>4
  <2> HIDE DEF D
  <2>3. /\ Len(h) \in Nat /\ DOMAIN full = 1 .. Len(h) + 1 + Len(hops) /\ Len(hops) \in Nat
        /\ full[at] = client /\ \A i \in DOMAIN full : i > at => full[i] = hops[i - at]
    <3> DEFINE head == h \o <<client>>
    <3>1. /\ head \in Seq(D) /\ Len(head) = at /\ Len(h) \in Nat /\ Len(hops) \in Nat
          /\ head[at] = client
      BY <2>2
    <3> HIDE DEF head
    <3>2. /\ head \o hops \in Seq(D) /\ Len(head \o hops) = Len(head) + Len(hops)
          /\ \A i \in 1 .. Len(head) + Len(hops) :
               (head \o hops)[i] = IF i <= Len(head) THEN head[i] ELSE hops[i - Len(head)]
      <4> HIDE DEF at
      <4> QED BY <2>2, <3>1, ConcatProperties, ZenonT(30)
    <3>3. full = head \o hops
      BY DEF head
    <3> HIDE DEF full
    <3> QED BY <3>1, <3>2, <3>3
  <2>4. \A i \in DOMAIN full : i > at => isTrusted(full[i])
    <3> SUFFICES ASSUME NEW i \in DOMAIN full, i > at PROVE isTrusted(full[i])
      OBVIOUS
    <3>1. i - at \in 1 .. Len(hops) /\ full[i] = hops[i - at]
      BY <2>3
    <3>2. PICK a \in proxies : hops = <<a>>
      BY <2>0, <3>1
    <3>3. full[i] = a
      BY <3>1, <3>2
    <3> QED BY <3>2, <3>3
  <2>5. full # <<>> /\ at \in DOMAIN full /\ full[at] = client
    BY <2>3
  <2> HIDE DEF full
  <2>6. at \in untrusted /\ \A j \in untrusted : j <= at
    BY <2>1, <2>3, <2>4, <2>5
  <2>7. \A i \in untrusted : (\A j \in untrusted : j <= i) => i = at
    BY <2>3, <2>6
  <2>8. Resolve(remote, full) = full[CHOOSE i \in untrusted : \A j \in untrusted : j <= i]
    BY <2>1, <2>5, <2>6, Zenon DEF Resolve
  <2> HIDE DEF untrusted, at
  <2>9. (CHOOSE i \in untrusted : \A j \in untrusted : j <= i) = at
    BY <2>6, <2>7
  <2> QED BY <2>5, <2>8, <2>9 DEF full
<1> QED BY <1>1, <1>2, <1>3, AddressesInvCorrect, PTL DEF ClientKnown

-----------------------------------------------------------------------------
(* Honeypot and user agent blocker.                                        *)

VisitRecord ==
    [step : {"idle", "check", "trip", "serve", "slow", "next", "refused"},
     addr : Visitors \union {NoAddress}, text : Texts \union {<<>>}, late : BOOLEAN]

\* A client counts as trapped while the cache holds it, and a visit that came after the
\* trap (late) is sent away at the first look at the cache.
TrapInv ==
    /\ visit \in [Visits -> VisitRecord] /\ guard.maxSlow \in Int
    /\ banned \subseteq Visitors /\ trapped \subseteq banned
    /\ \A v \in Visits :
         /\ visit[v].addr = NoAddress => visit[v].step \in {"idle", "refused"}
         /\ visit[v].late => visit[v].addr \in trapped
         /\ visit[v].step = "trip" => ~visit[v].late
    /\ NoEntryAfterTrap

SlotInv == sem \in Nat /\ SlotsAccounted

\* Goes changes one visit's step.
LEMMA GoesEffect ==
    ASSUME visit \in [Visits -> VisitRecord], NEW v \in Visits,
           NEW s \in {"idle", "check", "trip", "serve", "slow", "next", "refused"}, Goes(v, s)
    PROVE  /\ visit' \in [Visits -> VisitRecord] /\ visit'[v].step = s
           /\ visit'[v].addr = visit[v].addr /\ visit'[v].late = visit[v].late
           /\ \A w \in Visits \ {v} : visit'[w] = visit[w]
BY DEF Goes, VisitRecord

\* Forgetting a ban changes only which visits count as late: those of others.
LEMMA ForgetEffect ==
    ASSUME visit \in [Visits -> VisitRecord], NEW a, ForgetBan(a), NEW v \in Visits
    PROVE  /\ visit'[v] \in VisitRecord /\ visit'[v].step = visit[v].step /\ visit'[v].addr = visit[v].addr
           /\ visit'[v].late <=> visit[v].late /\ visit[v].addr # a
<1> DEFINE b == visit[v].late /\ visit[v].addr # a
<1>1. b \in BOOLEAN
  OBVIOUS
<1>2. visit'[v] = [visit[v] EXCEPT !.late = b]
  BY Zenon DEF ForgetBan
<1>3. ASSUME NEW f \in VisitRecord, NEW c \in BOOLEAN
      PROVE  /\ [f EXCEPT !.late = c] \in VisitRecord /\ [f EXCEPT !.late = c].step = f.step
             /\ [f EXCEPT !.late = c].addr = f.addr /\ [f EXCEPT !.late = c].late = c
  BY DEF VisitRecord
<1> HIDE DEF b
<1>4. /\ visit'[v] \in VisitRecord /\ visit'[v].step = visit[v].step /\ visit'[v].addr = visit[v].addr
      /\ visit'[v].late = b
  BY <1>1, <1>2, <1>3
<1> QED BY <1>4 DEF b

\* A step of a visit that keeps who visits and whether it came late, and does not let
\* a late visit through, keeps the traps.
LEMMA TrapStep ==
    ASSUME TrapInv, [GuardNext]_guardVars
    PROVE  TrapInv'
<1> USE DEF NoEntryAfterTrap, IsIpInAllowList
<1>0. visit \in [Visits -> VisitRecord] /\ NoAddress \notin Visitors
  BY GuardsAssumption DEF TrapInv, GuardsAssumption
<1>1. ASSUME NEW v \in Visits, NEW s \in {"serve", "slow", "refused"}, Goes(v, s), guard' = guard,
             visit[v].addr # NoAddress, UNCHANGED <<banned, trapped>>
      PROVE  TrapInv'
  BY <1>0, <1>1, GoesEffect DEF TrapInv
<1>2. ASSUME NEW v \in Visits, NEW a \in Visitors \union {NoAddress}, NEW t \in Texts, Visit(v, a, t)
      PROVE  TrapInv'
  <2>1. PICK s \in {"refused", "next", "check"} :
           /\ visit' = [visit EXCEPT ![v] = [step |-> s, addr |-> a, text |-> t, late |-> a \in trapped]]
           /\ a = NoAddress => s = "refused"
           /\ s = "next" => IsIpInAllowList(a)
    BY <1>2 DEF Visit
  <2>2. [step |-> s, addr |-> a, text |-> t, late |-> a \in trapped] \in VisitRecord
    BY DEF VisitRecord
  <2>3. /\ visit' \in [Visits -> VisitRecord] /\ \A w \in Visits \ {v} : visit'[w] = visit[w]
        /\ visit'[v].step = s /\ visit'[v].addr = a /\ visit'[v].late = (a \in trapped)
    BY <1>0, <2>1, <2>2
  <2> QED BY <1>2, <2>1, <2>3 DEF Visit, TrapInv
<1>3. ASSUME NEW v \in Visits, CheckBanned(v) PROVE TrapInv'
  <2>1. visit[v].addr # NoAddress
    BY <1>3 DEF CheckBanned, TrapInv
  <2>2. CASE IsBanned(visit[v].addr)
    BY <1>1, <1>3, <2>1, <2>2 DEF CheckBanned
  <2>3. CASE ~IsBanned(visit[v].addr)
    <3>1. ~visit[v].late
      BY <2>3 DEF IsBanned, TrapInv
    <3> QED BY <1>0, <1>3, <2>1, <2>3, <3>1, GoesEffect DEF CheckBanned, TrapInv
  <2> QED BY <2>2, <2>3
<1>4. ASSUME NEW v \in Visits, CheckTrip(v) PROVE TrapInv'
  <2>1. visit[v].addr \in Visitors /\ ~visit[v].late
    BY <1>0, <1>4 DEF CheckTrip, TrapInv, VisitRecord
  <2>2. CASE Trips(visit[v].text)
    BY <1>0, <1>4, <2>1, <2>2, GoesEffect DEF CheckTrip, Ban, TrapInv
  <2>3. CASE ~Trips(visit[v].text)
    BY <1>0, <1>4, <2>1, <2>3, GoesEffect DEF CheckTrip, TrapInv
  <2> QED BY <2>2, <2>3
<1>5. ASSUME NEW v \in Visits, AnswerFast(v) \/ AnswerSlow(v) \/ SlowEnds(v) PROVE TrapInv'
  <2>1. visit[v].addr # NoAddress
    BY <1>5 DEF AnswerFast, AnswerSlow, SlowEnds, TrapInv
  <2> QED BY <1>1, <1>5, <2>1 DEF AnswerFast, AnswerSlow, SlowEnds
<1>6. ASSUME NEW v \in Visits, VisitEnds(v) PROVE TrapInv'
  <2>1. NoVisit \in VisitRecord /\ NoVisit.step = "idle" /\ NoVisit.late = FALSE
    BY DEF NoVisit, VisitRecord
  <2>2. /\ visit' \in [Visits -> VisitRecord] /\ \A w \in Visits \ {v} : visit'[w] = visit[w]
        /\ visit'[v].step = "idle" /\ visit'[v].late = FALSE
    BY <1>0, <1>6, <2>1 DEF VisitEnds
  <2> QED BY <1>6, <2>2 DEF VisitEnds, TrapInv
<1>7. ASSUME NEW a \in Visitors, ForgetBan(a) PROVE TrapInv'
  <2>2. \A v \in Visits : /\ visit'[v] \in VisitRecord
                          /\ visit'[v].step = visit[v].step /\ visit'[v].addr = visit[v].addr
                          /\ visit'[v].late => visit[v].late /\ visit[v].addr # a
    BY <1>0, <1>7, ForgetEffect
  <2>3. visit' \in [Visits -> VisitRecord]
    BY <1>7, <2>2 DEF ForgetBan
  <2>4. banned' = banned \ {a} /\ trapped' = trapped \ {a} /\ guard' = guard
    BY <1>7 DEF ForgetBan
  <2>5. \A v \in Visits : /\ visit'[v].addr = NoAddress => visit'[v].step \in {"idle", "refused"}
                          /\ visit'[v].late => visit'[v].addr \in trapped'
                          /\ visit'[v].step = "trip" => ~visit'[v].late
    BY <2>2, <2>4 DEF TrapInv
  <2>6. NoEntryAfterTrap'
    BY <2>2, <2>4 DEF TrapInv
  <2> QED BY <2>3, <2>4, <2>5, <2>6 DEF TrapInv
<1>8. CASE UNCHANGED guardVars
  BY <1>8 DEF guardVars, TrapInv
<1> QED BY <1>2, <1>3, <1>4, <1>5, <1>6, <1>7, <1>8 DEF GuardNext

\* The slots: taken by the visit that becomes slow, given back by the one that ends.
LEMMA SlotStep ==
    ASSUME TrapInv, SlotInv, [GuardNext]_guardVars
    PROVE  SlotInv'
<1> DEFINE S == {v \in Visits : visit[v].step = "slow"}
           T == {v \in Visits : visit'[v].step = "slow"}
<1>0. /\ visit \in [Visits -> VisitRecord] /\ guard.maxSlow \in Int
      /\ sem \in Nat /\ sem = Cardinality(S) /\ (sem # 0 => sem <= guard.maxSlow)
      /\ IsFiniteSet(S)
  BY GuardsAssumption, FS_Subset DEF TrapInv, SlotInv, SlotsAccounted, GuardsAssumption
<1>1. ASSUME S = T, sem' = sem, guard' = guard PROVE SlotInv'
  BY <1>0, <1>1 DEF SlotInv, SlotsAccounted
<1>2. ASSUME NEW v \in Visits, AnswerSlow(v) PROVE SlotInv'
  <2>1. T = S \union {v} /\ v \notin S
    BY <1>0, <1>2, GoesEffect DEF AnswerSlow
  <2>2. Cardinality(T) = Cardinality(S) + 1
    <3>1. IsFiniteSet(S)
      BY <1>0
    <3> HIDE DEF S, T
    <3> QED BY ONLY <2>1, <3>1, FS_AddElement
  <2> QED BY <1>0, <1>2, <2>2 DEF AnswerSlow, SlotInv, SlotsAccounted
<1>3. ASSUME NEW v \in Visits, SlowEnds(v) PROVE SlotInv'
  <2>1. T = S \ {v} /\ v \in S
    BY <1>0, <1>3, GoesEffect DEF SlowEnds
  <2>2. Cardinality(T) = Cardinality(S) - 1
    <3>1. IsFiniteSet(S)
      BY <1>0
    <3> HIDE DEF S, T
    <3> QED BY ONLY <2>1, <3>1, FS_RemoveElement
  <2>3. Cardinality(T) \in Nat
    BY <1>0, <2>1, FS_Subset, FS_CardinalityType
  <2> QED BY <1>0, <1>3, <2>2, <2>3 DEF SlowEnds, SlotInv, SlotsAccounted
<1>4. ASSUME NEW v \in Visits, NEW a \in Visitors \union {NoAddress}, NEW t \in Texts, Visit(v, a, t)
      PROVE  SlotInv'
  <2>1. S = T
    BY <1>0, <1>4 DEF Visit
  <2> QED BY <1>1, <1>4, <2>1 DEF Visit
<1>5. ASSUME NEW v \in Visits, CheckBanned(v) \/ CheckTrip(v) \/ AnswerFast(v) PROVE SlotInv'
  <2>1. S = T
    BY <1>0, <1>5, GoesEffect DEF CheckBanned, CheckTrip, AnswerFast
  <2> QED BY <1>1, <1>5, <2>1 DEF CheckBanned, CheckTrip, AnswerFast
<1>6. ASSUME NEW v \in Visits, VisitEnds(v) PROVE SlotInv'
  <2>1. S = T
    BY <1>0, <1>6 DEF VisitEnds, NoVisit
  <2> QED BY <1>1, <1>6, <2>1 DEF VisitEnds
<1>7. ASSUME NEW a \in Visitors, ForgetBan(a) PROVE SlotInv'
  <2>2. S = T
    BY <1>0, <1>7, ForgetEffect
  <2> QED BY <1>1, <1>7, <2>2 DEF ForgetBan
<1>8. CASE UNCHANGED guardVars
  BY <1>1, <1>8 DEF guardVars
<1> QED BY <1>2, <1>3, <1>4, <1>5, <1>6, <1>7, <1>8 DEF GuardNext

-----------------------------------------------------------------------------
(* Country filter.                                                         *)

Records == {db[a] : db \in Atlases, a \in Visitors} \union {Unlisted}

LookRecord ==
    [step : {"idle", "lookup", "decode", "next", "refused"}, addr : Visitors \union {NoAddress},
     record : Records, from : Nat]

\* A database that was loaded puts the client where the policy permits.
Placed(a) == \E i \in DOMAIN seen : LET r == seen[i][a] IN r # Unlisted /\ isAllowed(policy, r)

\* What a lookup has read comes from a database that was loaded, and so does every
\* permission in the cache.
CountryInv ==
    /\ policy \in Policies
    /\ seen \in Seq(Atlases) /\ atlas.no \in 1 .. Len(seen) /\ atlas.no = Len(seen) /\ atlas.db = seen[atlas.no]
    /\ look \in [Visits -> LookRecord]
    /\ DOMAIN decisions \subseteq Visitors \ Lan
    /\ \A v \in Visits :
         /\ look[v].step \in {"lookup", "decode"} => look[v].addr \in Visitors \ Lan
         /\ look[v].step = "decode" => /\ look[v].from \in DOMAIN seen
                                       /\ look[v].record = seen[look[v].from][look[v].addr]
    /\ ~policy.onUnknown =>
         /\ \A a \in DOMAIN decisions : decisions[a] => Placed(a)
         /\ \A v \in Visits : look[v].step = "next" /\ look[v].addr \notin Lan => Placed(look[v].addr)

\* Looks changes one request's step.
LEMMA LooksEffect ==
    ASSUME look \in [Visits -> LookRecord], NEW v \in Visits,
           NEW s \in {"idle", "lookup", "decode", "next", "refused"}, Looks(v, s)
    PROVE  /\ look' \in [Visits -> LookRecord] /\ look'[v].step = s
           /\ look'[v].addr = look[v].addr /\ look'[v].record = look[v].record /\ look'[v].from = look[v].from
           /\ \A w \in Visits \ {v} : look'[w] = look[w]
BY DEF Looks, LookRecord

\* Without on-unknown, a decision for a client is one that a loaded database supports.
LEMMA DecisionPlaced ==
    ASSUME CountryInv, ~policy.onUnknown, NEW v \in Visits, look[v].step = "decode",
           Decision(look[v].record)
    PROVE  Placed(look[v].addr)
BY DEF CountryInv, Decision, Placed

\* Decisions: a request is let in, or cached, only as a loaded database supports it.
LEMMA CountryStep ==
    ASSUME CountryInv, [CountryNext]_countryVars
    PROVE  CountryInv'
<1>0. /\ look \in [Visits -> LookRecord] /\ policy.onUnknown \in BOOLEAN
      /\ NoAddress \notin Visitors /\ Lan \subseteq Visitors
  BY GuardsAssumption DEF CountryInv, GuardsAssumption
<1>1. ASSUME UNCHANGED <<policy, seen>> PROVE \A a : Placed(a)' <=> Placed(a)
  BY <1>1 DEF Placed
<1>2. ASSUME NEW v \in Visits, NEW a \in Visitors \union {NoAddress}, Look(v, a) PROVE CountryInv'
  <2>1. PICK s \in {"lookup", "next", "refused"} :
           /\ look' = [look EXCEPT ![v] = [step |-> s, addr |-> a, record |-> Unlisted, from |-> 0]]
           /\ s = "lookup" => a \in Visitors \ Lan
           /\ s = "next" => a \in Lan \/ (a \in DOMAIN decisions /\ decisions[a])
    BY <1>2 DEF Look
  <2>2. [step |-> s, addr |-> a, record |-> Unlisted, from |-> 0] \in LookRecord
    BY DEF LookRecord, Records
  <2>3. /\ look' \in [Visits -> LookRecord] /\ \A w \in Visits \ {v} : look'[w] = look[w]
        /\ look'[v].step = s /\ look'[v].addr = a
    BY <1>0, <2>1, <2>2
  <2>4. UNCHANGED <<policy, atlas, decisions, seen>>
    BY <1>2 DEF Look
  <2> QED BY <1>1, <2>1, <2>3, <2>4 DEF CountryInv
<1>3. ASSUME NEW v \in Visits, LookupIP(v) PROVE CountryInv'
  <2>1. look[v].addr \in Visitors \ Lan /\ UNCHANGED <<policy, atlas, decisions, seen>>
    BY <1>3 DEF LookupIP, CountryInv
  <2>2. atlas.db \in Atlases /\ atlas.no \in Nat /\ atlas.no \in DOMAIN seen /\ atlas.db = seen[atlas.no]
    BY DEF CountryInv
  <2>3. look' = [look EXCEPT ![v] = [look[v] EXCEPT !.step = "decode", !.record = atlas.db[look[v].addr],
                                                    !.from = atlas.no]]
    BY <1>0, <1>3 DEF LookupIP
  <2>4. /\ look' \in [Visits -> LookRecord] /\ \A w \in Visits \ {v} : look'[w] = look[w]
        /\ look'[v].step = "decode" /\ look'[v].addr = look[v].addr
        /\ look'[v].record = atlas.db[look[v].addr] /\ look'[v].from = atlas.no
    <3> DEFINE f == atlas.db[look[v].addr]
    <3>1. f \in Records
      BY <2>1, <2>2 DEF Records
    <3> HIDE DEF f
    <3>2. look' = [look EXCEPT ![v] = [look[v] EXCEPT !.step = "decode", !.record = f, !.from = atlas.no]]
      BY <2>3 DEF f
    <3>3. look' \in [Visits -> LookRecord] /\ \A w \in Visits \ {v} : look'[w] = look[w]
      BY <1>0, <2>2, <3>1, <3>2 DEF LookRecord
    <3>4. /\ look'[v].step = "decode" /\ look'[v].addr = look[v].addr
          /\ look'[v].record = f /\ look'[v].from = atlas.no
      BY <1>0, <3>2 DEF LookRecord
    <3> QED BY <3>3, <3>4 DEF f
  <2> QED BY <1>1, <2>1, <2>2, <2>4 DEF CountryInv
<1>4. ASSUME NEW v \in Visits, CacheDecision(v) PROVE CountryInv'
  <2> DEFINE d == Decision(look[v].record)
             a == look[v].addr
  <2>1. /\ look[v].step = "decode" /\ a \in Visitors \ Lan /\ UNCHANGED <<policy, atlas, seen>>
        /\ Looks(v, IF d THEN "next" ELSE "refused")
    BY <1>4 DEF CacheDecision, CountryInv
  <2>2. DOMAIN decisions' = DOMAIN decisions \union {a} /\ decisions'[a] = d
    BY <1>4 DEF CacheDecision
  <2>3. \A x \in DOMAIN decisions : x # a => decisions'[x] = decisions[x]
    BY <1>4 DEF CacheDecision
  <2>4. ~policy.onUnknown /\ d => Placed(a)
    BY <2>1, DecisionPlaced
  <2> HIDE DEF d, a
  <2>5. PICK s \in {"next", "refused"} : Looks(v, s) /\ (s = "next" => d)
    BY <2>1
  <2>6. /\ look' \in [Visits -> LookRecord] /\ \A w \in Visits \ {v} : look'[w] = look[w]
        /\ look'[v].step = s /\ look'[v].addr = a
    BY <1>0, <2>5, LooksEffect DEF a
  <2>7. ~policy.onUnknown => \A x \in DOMAIN decisions' : decisions'[x] => Placed(x)'
    BY <1>1, <2>1, <2>2, <2>3, <2>4 DEF CountryInv
  <2>8. ~policy.onUnknown => \A w \in Visits : (look[w].step = "next" /\ look[w].addr \notin Lan => Placed(look[w].addr))'
    BY <1>1, <2>1, <2>4, <2>5, <2>6 DEF CountryInv
  <2>9. \A w \in Visits : /\ look'[w].step \in {"lookup", "decode"} => look'[w].addr \in Visitors \ Lan
                          /\ look'[w].step = "decode" => /\ look'[w].from \in DOMAIN seen
                                                         /\ look'[w].record = seen[look'[w].from][look'[w].addr]
    BY <2>6 DEF CountryInv
  <2> QED BY <2>1, <2>2, <2>6, <2>7, <2>8, <2>9 DEF CountryInv
<1>5. ASSUME NEW v \in Visits, DecodeFails(v) PROVE CountryInv'
  <2>1. PICK s \in {"next", "refused"} : Looks(v, s) /\ (s = "next" => policy.onUnknown)
    BY <1>5 DEF DecodeFails
  <2> QED BY <1>0, <1>1, <1>5, <2>1, LooksEffect DEF DecodeFails, CountryInv
<1>6. ASSUME NEW v \in Visits, LookEnds(v) PROVE CountryInv'
  <2>1. NoLook \in LookRecord /\ NoLook.step = "idle"
    BY DEF NoLook, LookRecord, Records
  <2> QED BY <1>0, <1>1, <1>6, <2>1 DEF LookEnds, CountryInv
<1>7. ASSUME NEW db \in Atlases, reloadDB(db) PROVE CountryInv'
  <2>1. /\ seen' = Append(seen, db) /\ atlas'.no = atlas.no + 1 /\ atlas'.db = db
        /\ UNCHANGED <<policy, decisions, look>>
    BY <1>7 DEF reloadDB
  <2>2. /\ seen' \in Seq(Atlases) /\ Len(seen') = Len(seen) + 1 /\ seen'[Len(seen) + 1] = db
        /\ \A i \in DOMAIN seen : i \in DOMAIN seen' /\ seen'[i] = seen[i]
    BY <2>1 DEF CountryInv
  <2>3. \A a : Placed(a) => Placed(a)'
    BY <2>1, <2>2 DEF Placed
  <2> QED BY <2>1, <2>2, <2>3 DEF CountryInv
<1>8. ASSUME NEW a \in Visitors, ForgetDecision(a) PROVE CountryInv'
  <2>1. /\ DOMAIN decisions' \subseteq DOMAIN decisions
        /\ \A x \in DOMAIN decisions' : decisions'[x] = decisions[x]
    BY <1>8 DEF ForgetDecision
  <2> QED BY <1>1, <1>8, <2>1 DEF ForgetDecision, CountryInv
<1>9. CASE UNCHANGED countryVars
  BY <1>1, <1>9 DEF countryVars, CountryInv
<1> QED BY <1>2, <1>3, <1>4, <1>5, <1>6, <1>7, <1>8, <1>9 DEF CountryNext

GuardsInv == TrapInv /\ SlotInv /\ CountryInv

\* At the start no trap has sprung, no slot is taken and nobody is decided.
LEMMA GuardsInvInit == GuardInit /\ CountryInit => GuardsInv
<1> SUFFICES ASSUME GuardInit, CountryInit PROVE GuardsInv
  OBVIOUS
<1>1. NoVisit \in VisitRecord /\ NoVisit.step = "idle" /\ NoVisit.late = FALSE
  BY DEF NoVisit, VisitRecord
<1>2. NoLook \in LookRecord /\ NoLook.step = "idle"
  BY DEF NoLook, LookRecord, Records
<1>3. guard.maxSlow \in Int
  BY GuardsAssumption DEF GuardInit, GuardsAssumption
<1>4. visit \in [Visits -> VisitRecord] /\ \A v \in Visits : visit[v].step = "idle" /\ visit[v].late = FALSE
  BY <1>1 DEF GuardInit
<1>5. TrapInv
  BY <1>3, <1>4 DEF TrapInv, GuardInit, NoEntryAfterTrap
<1>6. {v \in Visits : visit[v].step = "slow"} = {}
  BY <1>4
<1>7. SlotInv
  <2>1. Cardinality({v \in Visits : visit[v].step = "slow"}) = 0
    BY ONLY <1>6, FS_EmptySet
  <2> QED BY <2>1 DEF SlotInv, SlotsAccounted, GuardInit
<1>8. PICK db \in Atlases : atlas = [no |-> 1, db |-> db] /\ seen = <<db>>
  BY DEF CountryInit
<1>9. seen \in Seq(Atlases) /\ Len(seen) = 1 /\ atlas.no = 1 /\ atlas.db = seen[1]
  BY <1>8
<1>10. /\ look \in [Visits -> LookRecord] /\ \A v \in Visits : look[v].step = "idle"
       /\ DOMAIN decisions = {} /\ policy \in Policies
  BY <1>2 DEF CountryInit
<1>11. CountryInv
  BY <1>9, <1>10 DEF CountryInv
<1> QED BY <1>5, <1>7, <1>11 DEF GuardsInv

\* Every step of either guard keeps its part and leaves the other alone.
LEMMA GuardsInvStep == GuardsInv /\ [GuardsNext]_<<guardVars, countryVars>> => GuardsInv'
<1> SUFFICES ASSUME GuardsInv, [GuardsNext]_<<guardVars, countryVars>> PROVE GuardsInv'
  OBVIOUS
<1>1. [GuardNext]_guardVars /\ [CountryNext]_countryVars
  BY DEF GuardsNext
<1> QED BY <1>1, TrapStep, SlotStep, CountryStep DEF GuardsInv

\* The inductive invariant of the guards holds in every reachable state.
THEOREM GuardsInvCorrect == GuardsSpec => []GuardsInv
BY GuardsInvInit, GuardsInvStep, PTL DEF GuardsSpec

\* However requests of a client overlap, none that arrives after the trap was tripped gets
\* past it until the cache forgets the client, and slow answers hold one slot each.
THEOREM TrapsHoldCorrect == GuardsSpec => []TrapsHold
<1>1. GuardsInv => TrapsHold
  BY DEF GuardsInv, TrapInv, SlotInv, CountryInv, TrapsHold, GuardsTypeOK
<1> QED BY <1>1, GuardsInvCorrect, PTL

\* With both lists the countries are exceptions to the continents, under every policy.
LEMMA Exceptions == CountriesAreExceptions
<1> SUFFICES ASSUME policy.countries # {}, policy.continents # {},
                    NEW r, r[1] # "", r[2] # ""
             PROVE  LET permitted == (policy.continentMode = "allow") <=> r[2] \in policy.continents
                        named == r[1] \in policy.countries
                    IN  isAllowed(policy, r) <=> IF policy.countryMode = "allow" THEN permitted \/ named
                                                 ELSE permitted /\ ~named
  BY DEF CountriesAreExceptions
<1> QED BY DEF isAllowed, evalList

\* The country filter lets in whom the two lists permit, and with on-unknown at block only
\* on the word of a database that was loaded, also while databases are replaced.
THEOREM CountryDecidesCorrect == GuardsSpec => []CountryDecides
<1>1. GuardsInv => CountryDecides
  BY Exceptions DEF GuardsInv, CountryInv, CountryDecides, RejectedStaysOut, Placed
<1> QED BY <1>1, GuardsInvCorrect, PTL

-----------------------------------------------------------------------------
(* Second factor.                                                          *)

AttemptRecord ==
    [step : {"next", "limit", "validate", "start", "done"}, browser : Browsers, scope : Scopes,
     code : Codes, loaded : Nat]

\* Every token names who verified where: the stores hold tokens of their own instance, and
\* a jar and a request hold tokens of their own browser.
TokenInv ==
    /\ issued \in 0 .. MaxTokens /\ owner \in [1 .. issued -> Browsers \X Scopes]
    /\ jar \in [Browsers -> 0 .. issued]
    /\ \A b \in Browsers : jar[b] # 0 => owner[jar[b]][1] = b
    /\ store \in [Scopes -> SUBSET (1 .. issued)]
    /\ \A s \in Scopes : \A t \in store[s] : owner[t][2] = s
    /\ \A t \in 1 .. issued : Configured[owner[t][2]].period = "seconds"
    /\ attempt \in [Attempts -> AttemptRecord \union {AtRest}]

\* What a request has achieved: past the comparison the period is sound, past the
\* start it has a token of its own, and what it has loaded belongs to its browser.
Achieved(f, n, who) ==
    /\ f.step = "next" => \E t \in 1 .. n : who[t] = <<f.browser, f.scope>>
    /\ f.step \in {"limit", "validate", "start"} => f.loaded = 0
    /\ f.step = "start" => Configured[f.scope].period = "seconds"
    /\ f.step = "done" => f.loaded \in 1 .. n /\ who[f.loaded][1] = f.browser

AttemptInv == \A q \in Attempts : attempt[q] # AtRest => Achieved(attempt[q], issued, owner)

\* A code that was compared was paid for from a bucket.
BudgetInv ==
    /\ now \in 1 .. MaxSteps + 1
    /\ budget \in [Scopes -> [ClientAddresses -> 0 .. GuessBurst]]
    /\ guesses \in [Scopes -> [ClientAddresses -> Nat]] /\ refills \in [Scopes -> [ClientAddresses -> Nat]]
    /\ \A s \in Scopes, a \in ClientAddresses :
         limited(s) => guesses[s][a] + budget[s][a] <= GuessBurst * (1 + refills[s][a]) + now - 1

TotpInv == TokenInv /\ AttemptInv /\ BudgetInv

\* A request in progress is a full record.
LEMMA InProgress ==
    ASSUME TokenInv, NEW q \in Attempts
    PROVE  attempt[q] # AtRest => attempt[q] \in AttemptRecord
BY DEF TokenInv

\* A request whose step is not idle is in progress.
LEMMA AtRestIdle == AtRest.step = "idle" /\ AtRest \notin AttemptRecord
<1>1. AtRest.step = "idle"
  BY DEF AtRest
<1>2. \A f \in AttemptRecord : f.step # "idle"
  BY DEF AttemptRecord
<1> QED BY <1>1, <1>2

\* At the start no session exists, and every budget is a full burst.
LEMMA TotpInvInit == TotpInit => TotpInv
<1> SUFFICES ASSUME TotpInit PROVE TotpInv
  OBVIOUS
<1> USE TotpAssumption DEF TotpAssumption, TotpInit
<1>1. TokenInv
  BY DEF TokenInv
<1>2. AttemptInv
  BY DEF AttemptInv
<1>3. /\ budget \in [Scopes -> [ClientAddresses -> 0 .. GuessBurst]]
      /\ guesses \in [Scopes -> [ClientAddresses -> Nat]] /\ refills \in [Scopes -> [ClientAddresses -> Nat]]
  OBVIOUS
<1>4. GuessBurst * (1 + 0) = GuessBurst
  OBVIOUS
<1>5. BudgetInv
  BY <1>3, <1>4 DEF BudgetInv
<1> QED BY <1>1, <1>2, <1>5 DEF TotpInv

\* Tokens: a new one is owned by the request that starts the session.
LEMMA TokenStep ==
    ASSUME TotpInv, [TotpNext]_totpVars
    PROVE  TokenInv' /\ AttemptInv'
<1> USE TotpAssumption DEF TotpAssumption
<1>0. /\ TokenInv /\ AttemptInv /\ issued \in Nat
      /\ attempt \in [Attempts -> AttemptRecord \union {AtRest}]
  BY DEF TotpInv, TokenInv
<1>1. ASSUME NEW q \in Attempts, NEW r \in AttemptRecord \union {AtRest}, Becomes(q, r)
      PROVE  /\ attempt' \in [Attempts -> AttemptRecord \union {AtRest}] /\ attempt'[q] = r
             /\ \A p \in Attempts \ {q} : attempt'[p] = attempt[p]
  BY <1>0, <1>1 DEF Becomes
<1>2. ASSUME NEW q \in Attempts, NEW r \in AttemptRecord \union {AtRest}, Becomes(q, r),
             UNCHANGED <<jar, store, issued, owner>>,
             r # AtRest => Achieved(r, issued, owner)
      PROVE  TokenInv' /\ AttemptInv'
  <2>1. TokenInv'
    BY <1>0, <1>1, <1>2 DEF TokenInv
  <2>2. AttemptInv'
    BY <1>0, <1>1, <1>2 DEF AttemptInv
  <2> QED BY <2>1, <2>2
<1>3. ASSUME NEW q \in Attempts, NEW b \in Browsers, NEW s \in Scopes, NEW code \in Codes,
             Request(q, b, s, code)
      PROVE  TokenInv' /\ AttemptInv'
  <2> DEFINE f(st, l) == [step |-> st, browser |-> b, scope |-> s, code |-> code, loaded |-> l]
  <2>1. /\ \A l \in Nat : f("next", l) \in AttemptRecord
        /\ f("limit", 0) \in AttemptRecord
    BY DEF AttemptRecord
  <2>2. UNCHANGED <<jar, store, issued, owner>>
    BY <1>3 DEF Request
  <2>3. CASE jar[b] \in store[s]
    <3>1. jar[b] \in 1 .. issued /\ owner[jar[b]] = <<b, s>> /\ jar[b] \in Nat
      BY <1>0, <2>3 DEF TokenInv
    <3>2. Achieved(f("next", jar[b]), issued, owner)
      BY <3>1 DEF Achieved
    <3>3. Becomes(q, f("next", jar[b]))
      BY <1>3, <2>3 DEF Request, HasValidSession
    <3> QED BY <1>2, <2>1, <2>2, <3>1, <3>2, <3>3
  <2>4. CASE jar[b] \notin store[s]
    <3>1. Achieved(f("limit", 0), issued, owner)
      BY DEF Achieved
    <3>2. Becomes(q, f("limit", 0))
      BY <1>3, <2>4 DEF Request, HasValidSession
    <3> QED BY <1>2, <2>1, <2>2, <3>1, <3>2
  <2> QED BY <2>3, <2>4
<1>4. ASSUME NEW q \in Attempts, Limit(q) PROVE TokenInv' /\ AttemptInv'
  <2>1. attempt[q] # AtRest /\ attempt[q] \in AttemptRecord
    BY <1>0, <1>4, AtRestIdle DEF Limit
  <2>2. /\ [attempt[q] EXCEPT !.step = "validate"] \in AttemptRecord
        /\ [attempt[q] EXCEPT !.step = "validate"].step = "validate"
        /\ [attempt[q] EXCEPT !.step = "validate"].loaded = attempt[q].loaded
    BY <2>1 DEF AttemptRecord
  <2>3. attempt[q].loaded = 0
    BY <1>0, <1>4, <2>1 DEF Limit, AttemptInv, Achieved
  <2>4. Becomes(q, AtRest) \/ Becomes(q, [attempt[q] EXCEPT !.step = "validate"])
    BY <1>4 DEF Limit
  <2>5. UNCHANGED <<jar, store, issued, owner>>
    BY <1>4 DEF Limit
  <2>6. Achieved([attempt[q] EXCEPT !.step = "validate"], issued, owner)
    BY <2>2, <2>3 DEF Achieved
  <2> QED BY <1>2, <2>2, <2>4, <2>5, <2>6
<1>5. ASSUME NEW q \in Attempts, Validate(q) PROVE TokenInv' /\ AttemptInv'
  <2>1. attempt[q] # AtRest /\ attempt[q] \in AttemptRecord
    BY <1>0, <1>5, AtRestIdle DEF Validate
  <2>2. /\ [attempt[q] EXCEPT !.step = "start"] \in AttemptRecord
        /\ [attempt[q] EXCEPT !.step = "start"].step = "start"
        /\ [attempt[q] EXCEPT !.step = "start"].scope = attempt[q].scope
        /\ [attempt[q] EXCEPT !.step = "start"].loaded = attempt[q].loaded
    BY <2>1 DEF AttemptRecord
  <2>3. attempt[q].loaded = 0
    BY <1>0, <1>5, <2>1 DEF Validate, AttemptInv, Achieved
  <2>4. \/ Becomes(q, AtRest)
        \/ /\ Configured[attempt[q].scope].period = "seconds"
           /\ Becomes(q, [attempt[q] EXCEPT !.step = "start"])
    BY <1>5 DEF Validate, ValidateCode
  <2>5. UNCHANGED <<jar, store, issued, owner>>
    BY <1>5 DEF Validate
  <2>6. Configured[attempt[q].scope].period = "seconds"
        => Achieved([attempt[q] EXCEPT !.step = "start"], issued, owner)
    BY <2>2, <2>3 DEF Achieved
  <2> QED BY <1>2, <2>2, <2>4, <2>5, <2>6
<1>6. ASSUME NEW q \in Attempts, StartSession(q) PROVE TokenInv' /\ AttemptInv'
  <2> DEFINE n == issued + 1
             f == [attempt[q] EXCEPT !.step = "done", !.loaded = n]
  <2>1. /\ attempt[q] # AtRest /\ attempt[q] \in AttemptRecord
        /\ Configured[attempt[q].scope].period = "seconds"
    BY <1>0, <1>6, AtRestIdle DEF StartSession, AttemptInv, Achieved
  <2>2. n \in 1 .. MaxTokens /\ issued' = n /\ n \in 1 .. n /\ 1 .. issued \subseteq 1 .. n
    BY <1>0, <1>6 DEF StartSession
  <2>3. f \in AttemptRecord /\ f.step = "done" /\ f.loaded = n /\ f.browser = attempt[q].browser
    <3>1. ASSUME NEW g \in AttemptRecord, NEW l \in Nat
          PROVE  LET h == [g EXCEPT !.step = "done", !.loaded = l]
                 IN  h \in AttemptRecord /\ h.step = "done" /\ h.loaded = l /\ h.browser = g.browser
      BY DEF AttemptRecord
    <3>2. n \in Nat
      BY <1>0
    <3> QED BY <2>1, <3>1, <3>2
  <2>4. Becomes(q, f)
    BY <1>6 DEF StartSession
  <2> HIDE DEF f
  <2>5. /\ attempt' \in [Attempts -> AttemptRecord \union {AtRest}] /\ attempt'[q] = f
        /\ \A p \in Attempts \ {q} : attempt'[p] = attempt[p]
    BY <1>1, <2>3, <2>4
  <2>6. attempt[q].browser \in Browsers /\ attempt[q].scope \in Scopes
    BY <2>1 DEF AttemptRecord
  <2>7. /\ owner' \in [1 .. n -> Browsers \X Scopes]
        /\ owner'[n] = <<attempt[q].browser, attempt[q].scope>>
        /\ \A t \in 1 .. issued : owner'[t] = owner[t]
    <3>1. owner' = [t \in 1 .. n |-> IF t = n THEN <<attempt[q].browser, attempt[q].scope>> ELSE owner[t]]
      BY <1>6 DEF StartSession
    <3>2. \A t \in 1 .. n : t # n => t \in 1 .. issued
      BY <1>0
    <3>3. owner \in [1 .. issued -> Browsers \X Scopes]
      BY <1>0 DEF TokenInv
    <3>4. owner' \in [1 .. n -> Browsers \X Scopes]
      BY <2>6, <3>1, <3>2, <3>3
    <3>5. owner'[n] = <<attempt[q].browser, attempt[q].scope>>
      BY <2>2, <3>1
    <3>6. \A t \in 1 .. issued : owner'[t] = owner[t]
      BY <1>0, <2>2, <3>1
    <3> QED BY <3>4, <3>5, <3>6
  <2>8. /\ store' \in [Scopes -> SUBSET (1 .. n)]
        /\ \A s \in Scopes : \A t \in store'[s] : \/ t \in store[s]
                                                  \/ t = n /\ s = attempt[q].scope
    <3>1. store' = [store EXCEPT ![attempt[q].scope] = (store[attempt[q].scope] \ {attempt[q].loaded}) \union {n}]
      BY <1>6 DEF StartSession
    <3>2. store \in [Scopes -> SUBSET (1 .. issued)]
      BY <1>0 DEF TokenInv
    <3> QED BY <2>2, <2>6, <3>1, <3>2
  <2>9. UNCHANGED jar
    BY <1>6 DEF StartSession
  <2> HIDE DEF n
  <2>10. jar' \in [Browsers -> 0 .. n] /\ \A b \in Browsers : jar'[b] # 0 => owner'[jar'[b]][1] = b
    <3>1. \A b \in Browsers : jar[b] # 0 => jar[b] \in 1 .. issued
      BY <1>0 DEF TokenInv
    <3>2. 0 .. issued \subseteq 0 .. n
      BY <1>0, <2>2
    <3> QED BY <1>0, <2>7, <2>9, <3>1, <3>2 DEF TokenInv
  <2>11. \A s \in Scopes : \A t \in store'[s] : owner'[t][2] = s
    <3> TAKE s \in Scopes
    <3> TAKE t \in store'[s]
    <3>1. CASE t \in store[s]
      BY <1>0, <2>7, <3>1 DEF TokenInv
    <3>2. CASE t = n /\ s = attempt[q].scope
      BY <2>7, <3>2
    <3> QED BY <2>8, <3>1, <3>2
  <2>12. \A t \in 1 .. n : Configured[owner'[t][2]].period = "seconds"
    <3> TAKE t \in 1 .. n
    <3>1. CASE t \in 1 .. issued
      BY <1>0, <2>7, <3>1 DEF TokenInv
    <3>2. CASE t = n
      BY <2>1, <2>7, <3>2
    <3> QED BY <1>0, <3>1, <3>2 DEF n
  <2>13. TokenInv'
    BY <2>2, <2>5, <2>7, <2>8, <2>10, <2>11, <2>12 DEF TokenInv
  <2>14. AttemptInv'
    <3>1. Achieved(f, n, owner')
      BY <2>2, <2>3, <2>7 DEF Achieved
    <3>2. ASSUME NEW g, Achieved(g, issued, owner) PROVE Achieved(g, n, owner')
      BY <2>2, <2>7, <3>2 DEF Achieved
    <3> QED BY <1>0, <2>2, <2>5, <3>1, <3>2 DEF AttemptInv
  <2> QED BY <2>13, <2>14
<1>7. ASSUME NEW q \in Attempts, Answer(q) PROVE TokenInv' /\ AttemptInv'
  <2>1. attempt[q] # AtRest /\ attempt[q] \in AttemptRecord
    BY <1>0, <1>7, AtRestIdle DEF Answer
  <2>2. /\ attempt[q].browser \in Browsers /\ attempt[q].loaded \in 1 .. issued
        /\ owner[attempt[q].loaded][1] = attempt[q].browser
    BY <1>0, <1>7, <2>1 DEF Answer, AttemptInv, Achieved, AttemptRecord
  <2>3. UNCHANGED <<store, issued, owner>> /\ Becomes(q, AtRest)
    BY <1>7 DEF Answer
  <2>4. jar' \in [Browsers -> 0 .. issued] /\ \A b \in Browsers : jar'[b] # 0 => owner[jar'[b]][1] = b
    BY <1>0, <1>7, <2>2 DEF Answer, TokenInv
  <2>5. TokenInv'
    BY <1>0, <1>1, <2>3, <2>4 DEF TokenInv
  <2>6. AttemptInv'
    BY <1>0, <1>1, <2>3 DEF AttemptInv
  <2> QED BY <2>5, <2>6
<1>8. ASSUME NEW q \in Attempts, Pass(q) PROVE TokenInv' /\ AttemptInv'
  BY <1>2, <1>8 DEF Pass
<1>9. ASSUME NEW s \in Scopes, NEW t \in store[s], Expire(s, t) PROVE TokenInv' /\ AttemptInv'
  <2>1. /\ store' \in [Scopes -> SUBSET (1 .. issued)]
        /\ \A x \in Scopes : store'[x] \subseteq store[x]
    BY <1>0, <1>9 DEF Expire, TokenInv
  <2>2. UNCHANGED <<jar, issued, owner, attempt>>
    BY <1>9 DEF Expire
  <2> QED BY <1>0, <2>1, <2>2 DEF TokenInv, AttemptInv
<1>10. CASE TimePasses \/ UNCHANGED totpVars
  BY <1>0, <1>10 DEF TimePasses, totpVars, TokenInv, AttemptInv
<1> QED BY <1>3, <1>4, <1>5, <1>6, <1>7, <1>8, <1>9, <1>10 DEF TotpNext

\* Buckets: a comparison costs a token, a right code fills the bucket and counts as a
\* refill, a period adds at most one token.
LEMMA BudgetStep ==
    ASSUME TotpInv, [TotpNext]_totpVars
    PROVE  BudgetInv'
<1> USE TotpAssumption DEF TotpAssumption
<1>0. TokenInv /\ BudgetInv
  BY DEF TotpInv
<1>1. ASSUME UNCHANGED <<now, budget, guesses, refills>> PROVE BudgetInv'
  BY <1>0, <1>1 DEF BudgetInv
<1>2. ASSUME NEW q \in Attempts, attempt[q].step \in {"limit", "validate"}
      PROVE  attempt[q].scope \in Scopes /\ AddressOf[attempt[q].browser] \in ClientAddresses
  <2>1. attempt[q] \in AttemptRecord
    BY <1>0, <1>2, AtRestIdle DEF TokenInv
  <2> QED BY <2>1 DEF AttemptRecord, ClientAddresses
<1>3. ASSUME NEW q \in Attempts, Limit(q) PROVE BudgetInv'
  <2> DEFINE s == attempt[q].scope
             a == AddressOf[attempt[q].browser]
  <2>1. s \in Scopes /\ a \in ClientAddresses
    BY <1>2, <1>3 DEF Limit
  <2>2. \/ UNCHANGED <<budget, guesses>>
        \/ /\ ~(limited(s) /\ budget[s][a] = 0) /\ limited(s)
           /\ budget' = [budget EXCEPT ![s][a] = @ - 1] /\ guesses' = [guesses EXCEPT ![s][a] = @ + 1]
    BY <1>3 DEF Limit
  <2>3. UNCHANGED <<now, refills>>
    BY <1>3 DEF Limit
  <2> HIDE DEF s, a
  <2>4. CASE UNCHANGED <<budget, guesses>>
    BY <1>1, <2>3, <2>4
  <2>5. CASE /\ budget[s][a] # 0
             /\ budget' = [budget EXCEPT ![s][a] = @ - 1] /\ guesses' = [guesses EXCEPT ![s][a] = @ + 1]
    <3>1. budget[s][a] \in 1 .. GuessBurst /\ guesses[s][a] \in Nat
      BY <1>0, <2>1, <2>5 DEF BudgetInv
    <3>2. /\ budget' \in [Scopes -> [ClientAddresses -> 0 .. GuessBurst]]
          /\ guesses' \in [Scopes -> [ClientAddresses -> Nat]]
      BY <1>0, <2>1, <2>5, <3>1 DEF BudgetInv
    <3>3. \A x \in Scopes, y \in ClientAddresses : guesses'[x][y] + budget'[x][y] = guesses[x][y] + budget[x][y]
      BY <1>0, <2>1, <2>5, <3>1 DEF BudgetInv
    <3> QED BY <1>0, <2>3, <3>2, <3>3 DEF BudgetInv
  <2> QED BY <2>2, <2>4, <2>5
<1>4. ASSUME NEW q \in Attempts, Validate(q) PROVE BudgetInv'
  <2> DEFINE s == attempt[q].scope
             a == AddressOf[attempt[q].browser]
  <2>1. s \in Scopes /\ a \in ClientAddresses
    BY <1>2, <1>4 DEF Validate
  <2>2. \/ UNCHANGED <<budget, refills>>
        \/ budget' = [budget EXCEPT ![s][a] = GuessBurst] /\ refills' = [refills EXCEPT ![s][a] = @ + 1]
    BY <1>4 DEF Validate
  <2>3. UNCHANGED <<now, guesses>>
    BY <1>4 DEF Validate
  <2> HIDE DEF s, a
  <2>4. CASE UNCHANGED <<budget, refills>>
    BY <1>1, <2>3, <2>4
  <2>5. CASE budget' = [budget EXCEPT ![s][a] = GuessBurst] /\ refills' = [refills EXCEPT ![s][a] = @ + 1]
    <3>1. /\ budget' \in [Scopes -> [ClientAddresses -> 0 .. GuessBurst]]
          /\ refills' \in [Scopes -> [ClientAddresses -> Nat]]
      BY <1>0, <2>1, <2>5 DEF BudgetInv
    <3>2. \A x \in Scopes, y \in ClientAddresses :
             \/ budget'[x][y] = budget[x][y] /\ refills'[x][y] = refills[x][y]
             \/ budget'[x][y] = GuessBurst /\ refills'[x][y] = refills[x][y] + 1
      BY <1>0, <2>1, <2>5 DEF BudgetInv
    <3>3. \A k \in Nat : GuessBurst * (1 + (k + 1)) = GuessBurst * (1 + k) + GuessBurst
      OBVIOUS
    <3>4. \A k \in Nat : GuessBurst * (1 + k) \in Nat
      OBVIOUS
    <3>5. ASSUME NEW x \in Scopes, NEW y \in ClientAddresses, limited(x)
          PROVE  guesses[x][y] + budget'[x][y] <= GuessBurst * (1 + refills'[x][y]) + now - 1
      <4>1. /\ guesses[x][y] + budget[x][y] <= GuessBurst * (1 + refills[x][y]) + now - 1
            /\ guesses[x][y] \in Nat /\ budget[x][y] \in Nat /\ refills[x][y] \in Nat /\ now \in Nat
        BY <1>0, <3>5 DEF BudgetInv
      <4>2. CASE budget'[x][y] = budget[x][y] /\ refills'[x][y] = refills[x][y]
        BY <4>1, <4>2
      <4>3. CASE budget'[x][y] = GuessBurst /\ refills'[x][y] = refills[x][y] + 1
        <5>1. GuessBurst * (1 + refills'[x][y]) = GuessBurst * (1 + refills[x][y]) + GuessBurst
          BY <3>3, <4>1, <4>3
        <5>2. GuessBurst * (1 + refills[x][y]) \in Nat
          BY <3>4, <4>1
        <5> QED BY <4>1, <4>3, <5>1, <5>2
      <4> QED BY <3>2, <4>2, <4>3
    <3> QED BY <1>0, <2>3, <3>1, <3>5 DEF BudgetInv
  <2> QED BY <2>2, <2>4, <2>5
<1>5. CASE TimePasses
  <2>1. now' = now + 1 /\ now <= MaxSteps /\ UNCHANGED <<guesses, refills>> /\ now \in 1 .. MaxSteps + 1
    BY <1>0, <1>5 DEF TimePasses, BudgetInv
  <2>2. /\ budget' \in [Scopes -> [ClientAddresses -> 0 .. GuessBurst]]
        /\ \A x \in Scopes, y \in ClientAddresses : budget'[x][y] <= budget[x][y] + 1
    BY <1>0, <1>5 DEF TimePasses, BudgetInv
  <2>3. \A k \in Nat : GuessBurst * (1 + k) \in Nat
    OBVIOUS
  <2>4. ASSUME NEW x \in Scopes, NEW y \in ClientAddresses, limited(x)
        PROVE  guesses[x][y] + budget'[x][y] <= GuessBurst * (1 + refills[x][y]) + now' - 1
    <3>1. /\ guesses[x][y] + budget[x][y] <= GuessBurst * (1 + refills[x][y]) + now - 1
          /\ guesses[x][y] \in Nat /\ budget[x][y] \in Nat /\ refills[x][y] \in Nat /\ now \in Nat
          /\ budget'[x][y] \in Nat
      BY <1>0, <2>2, <2>4 DEF BudgetInv
    <3>2. GuessBurst * (1 + refills[x][y]) \in Nat
      BY <2>3, <3>1
    <3> QED BY <2>1, <2>2, <3>1, <3>2
  <2>5. now' \in 1 .. MaxSteps + 1
    BY <2>1
  <2> QED BY <1>0, <2>1, <2>2, <2>4, <2>5 DEF BudgetInv
<1>6. ASSUME NEW q \in Attempts, \/ \E b \in Browsers, s \in Scopes, code \in Codes : Request(q, b, s, code)
                                \/ StartSession(q) \/ Answer(q) \/ Pass(q)
      PROVE  BudgetInv'
  BY <1>1, <1>6 DEF Request, StartSession, Answer, Pass
<1>7. CASE (\E s \in Scopes : \E t \in store[s] : Expire(s, t)) \/ UNCHANGED totpVars
  BY <1>1, <1>7 DEF Expire, totpVars
<1> QED BY <1>3, <1>4, <1>5, <1>6, <1>7 DEF TotpNext

\* The inductive invariant of the second factor holds in every reachable state.
THEOREM TotpInvCorrect == TotpSpec => []TotpInv
<1>1. TotpInv /\ [TotpNext]_totpVars => TotpInv'
  BY TokenStep, BudgetStep DEF TotpInv
<1> QED BY <1>1, TotpInvInit, PTL DEF TotpSpec

\* Nobody gets past an instance without having given it a right code, although all
\* instances share one cookie, and the codes tried from an address are bounded.
THEOREM SecondFactorCorrect == TotpSpec => []SecondFactorHolds
<1>1. TotpInv => SecondFactorHolds
  <2> SUFFICES ASSUME TotpInv PROVE SecondFactorHolds
    OBVIOUS
  <2>1. TotpTypeOK
    BY DEF TotpInv, TokenInv, BudgetInv, TotpTypeOK
  <2>2. PassedWasVerified
    <3> SUFFICES ASSUME NEW q \in Attempts, attempt[q].step = "next"
                 PROVE  /\ <<attempt[q].browser, attempt[q].scope>> \in {owner[t] : t \in 1 .. issued}
                        /\ Configured[attempt[q].scope].period = "seconds"
      BY DEF PassedWasVerified
    <3>1. attempt[q] # AtRest /\ attempt[q] \in AttemptRecord
      BY AtRestIdle DEF TotpInv, TokenInv
    <3>2. PICK t \in 1 .. issued : owner[t] = <<attempt[q].browser, attempt[q].scope>>
      BY <3>1 DEF TotpInv, AttemptInv, Achieved
    <3>3. owner[t][2] = attempt[q].scope
      BY <3>2
    <3> QED BY <3>2, <3>3 DEF TotpInv, TokenInv
  <2>3. GuessesBounded
    <3> SUFFICES ASSUME NEW s \in Scopes, NEW a \in ClientAddresses, limited(s)
                 PROVE  guesses[s][a] <= GuessBurst * (1 + refills[s][a]) + now - 1
      BY DEF GuessesBounded
    <3>1. /\ guesses[s][a] + budget[s][a] <= GuessBurst * (1 + refills[s][a]) + now - 1
          /\ guesses[s][a] \in Nat /\ budget[s][a] \in Nat /\ refills[s][a] \in Nat /\ now \in Nat
      BY TotpAssumption DEF TotpInv, BudgetInv, TotpAssumption
    <3>2. GuessBurst * (1 + refills[s][a]) \in Nat
      BY <3>1, TotpAssumption DEF TotpAssumption
    <3> QED BY <3>1, <3>2
  <2> QED BY <2>1, <2>2, <2>3 DEF SecondFactorHolds
<1> QED BY <1>1, TotpInvCorrect, PTL

\* A session ends when it expires or when its browser gets another cookie: a session that
\* is started has none to replace.
LEMMA EndsForAReason ==
    ASSUME TotpInv, [TotpNext]_totpVars, NEW b \in Browsers, NEW s \in Scopes,
           HasValidSession(b, s), ~HasValidSession(b, s)'
    PROVE  \/ \E t \in store[s] : Expire(s, t)
           \/ \E q \in Attempts : attempt[q] # AtRest /\ attempt[q].browser = b /\ Answer(q)
<1> USE DEF HasValidSession
<1>0. jar \in [Browsers -> 0 .. issued] /\ store \in [Scopes -> SUBSET (1 .. issued)] /\ jar[b] # 0
  BY DEF TotpInv, TokenInv
<1>1. ASSUME NEW q \in Attempts, Answer(q)
      PROVE  attempt[q] # AtRest /\ attempt[q].browser = b
  BY <1>0, <1>1, AtRestIdle DEF Answer
<1>2. ASSUME NEW q \in Attempts, StartSession(q) PROVE FALSE
  <2>1. attempt[q] # AtRest /\ attempt[q].loaded = 0
    BY <1>2, AtRestIdle DEF StartSession, TotpInv, AttemptInv, Achieved
  <2> QED BY <1>0, <1>2, <2>1 DEF StartSession
<1>3. ASSUME NEW x \in Scopes, NEW t \in store[x], Expire(x, t) PROVE x = s
  BY <1>0, <1>3 DEF Expire
<1>4. ASSUME UNCHANGED <<jar, store>> PROVE FALSE
  BY <1>4
<1>5. ASSUME NEW q \in Attempts, \/ \E c \in Browsers, x \in Scopes, code \in Codes : Request(q, c, x, code)
                                \/ Limit(q) \/ Validate(q) \/ Pass(q)
      PROVE  FALSE
  BY <1>4, <1>5 DEF Request, Limit, Validate, Pass
<1>6. CASE TimePasses \/ UNCHANGED totpVars
  BY <1>4, <1>6 DEF TimePasses, totpVars
<1> QED BY <1>1, <1>2, <1>3, <1>5, <1>6 DEF TotpNext

\* Whatever other browsers and instances do, a session ends only by its expiry or because
\* its own browser gets the cookie of another one (instances share the cookie).
THEOREM SessionEndsCorrect == TotpSpec => SessionEndsForAReason
<1>1. TotpInv /\ [TotpNext]_totpVars =>
        \A b \in Browsers, s \in Scopes :
           HasValidSession(b, s) /\ ~HasValidSession(b, s)' =>
               \/ \E t \in store[s] : Expire(s, t)
               \/ \E q \in Attempts : attempt[q] # AtRest /\ attempt[q].browser = b /\ Answer(q)
  BY EndsForAReason
<1> QED BY <1>1, TotpInvCorrect, PTL DEF TotpSpec, SessionEndsForAReason
=============================================================================
