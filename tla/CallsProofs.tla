----------------------------- MODULE CallsProofs ----------------------------
(***************************************************************************)
(* Proofs about the components that share no state, for any callers,       *)
(* tokens, directives, lists and texts.  Each has its own inductive        *)
(* invariant, in its module: Inductive is its type invariant, where that   *)
(* is needed, and the facts that its properties follow from.               *)
(***************************************************************************)
EXTENDS Calls, SequenceTheorems, FiniteSets, FiniteSetTheorems, WellFoundedInduction, TLAPS

-----------------------------------------------------------------------------
(* Lemmas that several need.                                               *)

(* Every set of natural numbers that is not empty has a least one.         *)
LEMMA LeastExists ==
  ASSUME NEW T, T \subseteq Nat, T # {} PROVE \E m \in T : \A n \in T : m <= n
  <1>1. PICK m \in T : \A n \in T : ~(<<n, m>> \in OpToRel(<, Nat))
    BY NatLessThanWellFounded, WFMin
  <1>2. ASSUME NEW n \in T PROVE m <= n
    <2>1. n < m => <<n, m>> \in OpToRel(<, Nat)
      BY DEF OpToRel
    <2>2. ~(n < m) /\ m \in Nat /\ n \in Nat
      BY <1>1, <2>1
    <2>3. QED BY <2>2
  <1>3. QED BY <1>2

(* Induction along an interval, for what holds at a set of numbers: were   *)
(* some of the interval missing, there would be a least one.               *)
LEMMA AlongInterval ==
  ASSUME NEW m \in Nat, NEW n \in Nat, NEW T, m <= n => m \in T,
         \A k \in m + 1..n : k - 1 \in T => k \in T
  PROVE  m..n \subseteq T
  <1> DEFINE Missing == {k \in m..n : k \notin T}
  <1> SUFFICES ASSUME Missing # {} PROVE FALSE
    OBVIOUS
  <1>1. PICK k \in Missing : \A l \in Missing : k <= l
    <2>1. Missing \subseteq Nat
      OBVIOUS
    <2> HIDE DEF Missing
    <2>2. QED BY <2>1, LeastExists
  <1>2. k # m /\ k \in m + 1..n /\ k - 1 \in m..n
    OBVIOUS
  <1>3. k - 1 \notin T
    BY <1>2
  <1>4. k <= k - 1
    BY <1>1, <1>2, <1>3
  <1>5. QED BY <1>2, <1>4

(* There is a function whose value at each number of an interval is said   *)
(* by its value at the one before, as a recursive definition wants.        *)
Recurs(g, m, n, first, step) ==
  \A k \in m..n : g[k] = IF k = m THEN first ELSE step[<<k, g[k - 1]>>]

LEMMA RecursionExists ==
  ASSUME NEW m \in Nat, NEW n \in Nat, NEW T, NEW c \in T, NEW step \in [(m..n) \X T -> T]
  PROVE  \E g \in [m..n -> T] : Recurs(g, m, n, c, step)
  <1> DEFINE Is(g, l) == \A k \in m..l : g[k] = IF k = m THEN c ELSE step[<<k, g[k - 1]>>]
             Done == {l \in m..n : \E g \in [m..l -> T] : Is(g, l)}
  <1>1. m <= n => m \in Done
    <2>1. /\ [k \in m..m |-> c] \in [m..m -> T]
          /\ Is([k \in m..m |-> c], m)
      OBVIOUS
    <2> HIDE DEF Is
    <2>2. QED BY <2>1
  <1>2. ASSUME NEW l \in m + 1..n, l - 1 \in Done PROVE l \in Done
    <2>1. PICK g \in [m..l - 1 -> T] : Is(g, l - 1)
      BY <1>2
    <2> DEFINE h == [k \in m..l |-> IF k = l THEN step[<<l, g[l - 1]>>] ELSE g[k]]
    <2>2. l - 1 \in m..l - 1 /\ l \in m..n
      OBVIOUS
    <2>3. g[l - 1] \in T
      BY <2>1, <2>2
    <2>4. step[<<l, g[l - 1]>>] \in T
      BY <2>2, <2>3
    <2>5. h \in [m..l -> T]
      BY <2>1, <2>4
    <2>6. Is(h, l)
      <3> SUFFICES ASSUME NEW k \in m..l PROVE h[k] = IF k = m THEN c ELSE step[<<k, h[k - 1]>>]
        OBVIOUS
      <3>1. CASE k = l
        <4>1. k # m /\ k - 1 \in m..l /\ k - 1 # l
          BY <3>1, <2>2
        <4>2. h[k] = step[<<k, g[k - 1]>>] /\ h[k - 1] = g[k - 1]
          BY <3>1, <4>1
        <4> HIDE DEF h
        <4>3. QED BY <4>1, <4>2
      <3>2. CASE k # l
        <4>1. k \in m..l - 1 /\ h[k] = g[k]
          BY <3>2
        <4>2. k # m => k - 1 \in m..l /\ k - 1 # l
          BY <4>1
        <4>3. k # m => h[k - 1] = g[k - 1]
          BY <4>2
        <4>4. g[k] = IF k = m THEN c ELSE step[<<k, g[k - 1]>>]
          BY <2>1, <4>1
        <4> HIDE DEF h
        <4>5. CASE k = m
          BY <4>1, <4>4, <4>5
        <4>6. CASE k # m
          BY <4>1, <4>3, <4>4, <4>6
        <4>7. QED BY <4>5, <4>6
      <3>3. QED BY <3>1, <3>2
    <2>7. QED BY <2>2, <2>5, <2>6
  <1>3. CASE m <= n
    <2>1. m..n \subseteq Done
      <3> HIDE DEF Done
      <3>1. QED BY <1>1, <1>2, AlongInterval
    <2>2. n \in Done
      BY <1>3, <2>1
    <2>3. QED BY <2>2 DEF Recurs
  <1>4. CASE ~(m <= n)
    <2>1. m..n = {}
      BY <1>4
    <2>2. QED BY <2>1 DEF Recurs
  <1>5. QED BY <1>3, <1>4

-----------------------------------------------------------------------------
(* Listings.                                                               *)

(* FlattenSeq is what its definition says of it.                           *)
FlatIs(s, g) == g = [k \in 1..Len(s) |-> IF k = 1 THEN s[k] ELSE g[k - 1] \o s[k]]

LEMMA FlattenIs ==
  ASSUME NEW E, NEW s \in Seq(Seq(E)), s # <<>>
  PROVE  \E g : /\ Cognito!FlattenSeq(s) = g[Len(s)]
                /\ g[1] = s[1] /\ \A k \in 2..Len(s) : g[k] = g[k - 1] \o s[k]
                /\ \A k \in 1..Len(s) : g[k] \in Seq(E)
  <1> DEFINE g == CHOOSE h : FlatIs(s, h)
             N == Len(s)
             S == Seq(E)
  <1>1. /\ N \in Nat \ {0} /\ 1 \in 1..N /\ \A k \in 1..N : s[k] \in S
        /\ \A u \in S, v \in S : u \o v \in S
    BY LenProperties, EmptySeq, ConcatProperties
  <1>2. Cognito!FlattenSeq(s) = g[N]
    BY <1>1, Zenon DEF Cognito!FlattenSeq, FlatIs
  <1>3. FlatIs(s, g)
    <2> DEFINE next == [p \in (1..N) \X S |-> p[2] \o s[p[1]]]
    <2>1. next \in [(1..N) \X S -> S]
      <3> HIDE DEF N, S
      <3>1. QED BY <1>1
    <2>2. PICK h \in [1..N -> S] : Recurs(h, 1, N, s[1], next)
      <3> DEFINE first == s[1]
      <3>1. first \in S /\ 1 \in Nat /\ N \in Nat
        BY <1>1
      <3> HIDE DEF next, N, S, first
      <3>2. QED BY <2>1, <3>1, RecursionExists DEF first
    <2>3. ASSUME NEW k \in 1..N PROVE h[k] = IF k = 1 THEN s[k] ELSE h[k - 1] \o s[k]
      <3>1. CASE k = 1
        BY <2>2, <3>1 DEF Recurs
      <3>2. CASE k # 1
        <4>1. k - 1 \in 1..N
          BY <1>1, <3>2
        <4>2. h[k - 1] \in S /\ h[k] = next[<<k, h[k - 1]>>]
          BY <2>2, <3>2, <4>1 DEF Recurs
        <4> HIDE DEF N, S
        <4>3. QED BY <3>2, <4>2
      <3>3. QED BY <3>1, <3>2
    <2>4. FlatIs(s, h)
      BY <2>2, <2>3, Zenon DEF FlatIs
    <2>5. QED BY <2>4
  <1> HIDE DEF g
  <1>4. ASSUME NEW k \in 1..N PROVE g[k] = IF k = 1 THEN s[k] ELSE g[k - 1] \o s[k]
    BY <1>3, Zenon DEF FlatIs
  <1>5. g[1] = s[1]
    BY <1>1, <1>4
  <1>6. ASSUME NEW k \in 2..N PROVE g[k] = g[k - 1] \o s[k]
    <2>1. k \in 1..N /\ k # 1
      BY <1>1
    <2>2. QED BY <1>4, <2>1
  <1> DEFINE Good == {k \in 1..N : g[k] \in S}
  <1>7. 1..N \subseteq Good
    <2>1. 1 \in Good
      BY <1>1, <1>5
    <2>2. ASSUME NEW k \in 1 + 1..N, k - 1 \in Good PROVE k \in Good
      <3>1. k \in 2..N /\ k \in 1..N /\ g[k - 1] \in S
        BY <1>1, <2>2
      <3>2. g[k] \in S
        BY <1>1, <1>6, <3>1
      <3>3. QED BY <3>1, <3>2
    <2> HIDE DEF Good, N
    <2>3. QED BY <1>1, <2>1, <2>2, AlongInterval
  <1>8. \A k \in 1..N : g[k] \in S
    BY <1>7
  <1>9. QED BY <1>2, <1>5, <1>6, <1>8

(* What a list of lists gives when it is made longer.                      *)
LEMMA FlattenAppend ==
  ASSUME NEW E, NEW s \in Seq(Seq(E)), NEW e \in Seq(E)
  PROVE  /\ Cognito!FlattenSeq(s) \in Seq(E)
         /\ Cognito!FlattenSeq(Append(s, e)) = Cognito!FlattenSeq(s) \o e
  <1> DEFINE t == Append(s, e)
             N == Len(s)
  <1>1. /\ t \in Seq(Seq(E)) /\ t # <<>> /\ Len(t) = N + 1 /\ t[N + 1] = e
        /\ N \in Nat /\ \A k \in 1..N : t[k] = s[k]
    BY AppendProperties, LenProperties
  <1>2. PICK h : /\ Cognito!FlattenSeq(t) = h[Len(t)]
                 /\ h[1] = t[1] /\ \A k \in 2..Len(t) : h[k] = h[k - 1] \o t[k]
                 /\ \A k \in 1..Len(t) : h[k] \in Seq(E)
    <2> HIDE DEF t
    <2>1. QED BY <1>1, FlattenIs
  <1> HIDE DEF t
  <1>3. CASE s = <<>>
    <2>1. N = 0 /\ Cognito!FlattenSeq(s) = <<>>
      BY <1>3 DEF Cognito!FlattenSeq
    <2>2. Cognito!FlattenSeq(t) = e /\ <<>> \o e = e /\ <<>> \in Seq(E)
      BY <1>1, <1>2, <2>1, ConcatEmptySeq
    <2>3. QED BY <2>1, <2>2 DEF t
  <1>4. CASE s # <<>>
    <2>1. PICK g : /\ Cognito!FlattenSeq(s) = g[N]
                   /\ g[1] = s[1] /\ \A k \in 2..N : g[k] = g[k - 1] \o s[k]
                   /\ \A k \in 1..N : g[k] \in Seq(E)
      BY <1>4, FlattenIs
    <2>2. N \in Nat \ {0}
      BY <1>1, <1>4, EmptySeq
    <2> DEFINE Same == {k \in 1..N : h[k] = g[k]}
    <2> HIDE DEF N
    <2>3. 1..N \subseteq Same
      <3>1. 1 \in Same
        BY <1>1, <1>2, <2>1, <2>2
      <3>2. ASSUME NEW k \in 1 + 1..N, k - 1 \in Same PROVE k \in Same
        <4>1. k \in 2..N /\ k \in 1..N /\ k \in 2..N + 1 /\ h[k - 1] = g[k - 1]
          BY <2>2, <3>2
        <4>2. h[k] = h[k - 1] \o t[k] /\ g[k] = g[k - 1] \o s[k] /\ t[k] = s[k]
          BY <1>1, <1>2, <2>1, <4>1
        <4>3. QED BY <4>1, <4>2
      <3> HIDE DEF Same
      <3>3. QED BY <2>2, <3>1, <3>2, AlongInterval
    <2>4. h[N] = g[N] /\ g[N] \in Seq(E)
      BY <2>1, <2>2, <2>3
    <2>5. h[N + 1] = h[N] \o e
      <3> DEFINE last == N + 1
      <3>1. last \in 2..Len(t) /\ last - 1 = N /\ t[last] = e
        BY <1>1, <2>2
      <3> HIDE DEF last
      <3>2. h[last] = h[last - 1] \o t[last]
        BY <1>2, <3>1
      <3>3. QED BY <3>1, <3>2 DEF last
    <2>6. QED BY <1>1, <1>2, <2>1, <2>4, <2>5 DEF t
  <1>5. QED BY <1>3, <1>4

(* The pages up to the next one are those before it and itself.            *)
LEMMA PagesUpTo ==
  ASSUME NEW E, NEW s \in Seq(E), NEW p \in 1..Len(s)
  PROVE  /\ SubSeq(s, 1, p - 1) \in Seq(E)
         /\ SubSeq(s, 1, p) = Append(SubSeq(s, 1, p - 1), s[p])
         /\ SubSeq(s, 1, Len(s)) = s
  <1> DEFINE before == SubSeq(s, 1, p - 1)
             upTo == SubSeq(s, 1, p)
             all == SubSeq(s, 1, Len(s))
             longer == Append(before, s[p])
  <1>1. Len(s) \in Nat /\ p \in Nat /\ 1 <= p /\ p <= Len(s) /\ \A k \in 1..Len(s) : s[k] \in E
    BY LenProperties
  <1>2. /\ before \in Seq(E) /\ Len(before) = p - 1
        /\ \A k \in 1..p - 1 : before[k] = s[k]
    <2>1. /\ 1 \in Int /\ p - 1 \in Int /\ \A k \in 1..p - 1 : s[k] \in E
      BY <1>1
    <2>2. /\ before \in Seq(E) /\ Len(before) = IF 1 <= p - 1 THEN p - 1 - 1 + 1 ELSE 0
          /\ \A k \in 1..p - 1 - 1 + 1 : before[k] = s[1 + k - 1]
      BY <2>1, SubSeqProperties
    <2> HIDE DEF before
    <2>3. QED BY <1>1, <2>2
  <1>3. /\ upTo \in Seq(E) /\ Len(upTo) = p
        /\ \A k \in 1..p : upTo[k] = s[k]
    <2>1. /\ 1 \in Int /\ p \in Int /\ \A k \in 1..p : s[k] \in E
      BY <1>1
    <2>2. /\ upTo \in Seq(E) /\ Len(upTo) = IF 1 <= p THEN p - 1 + 1 ELSE 0
          /\ \A k \in 1..p - 1 + 1 : upTo[k] = s[1 + k - 1]
      BY <2>1, SubSeqProperties
    <2> HIDE DEF upTo
    <2>3. QED BY <1>1, <2>2
  <1>4. /\ longer \in Seq(E) /\ Len(longer) = p
        /\ \A k \in 1..p : longer[k] = s[k]
    <2> HIDE DEF before
    <2>1. /\ longer \in Seq(E) /\ Len(longer) = Len(before) + 1
          /\ \A k \in 1..Len(before) : longer[k] = before[k]
          /\ longer[Len(before) + 1] = s[p]
      BY <1>1, <1>2, AppendProperties
    <2> HIDE DEF longer
    <2>2. QED BY <1>1, <1>2, <2>1
  <1>5. upTo = longer
    <2> HIDE DEF upTo, longer
    <2>1. QED BY <1>3, <1>4, SeqEqual
  <1>6. all = s
    <2>1. /\ all \in Seq(E) /\ Len(all) = IF 1 <= Len(s) THEN Len(s) - 1 + 1 ELSE 0
          /\ \A k \in 1..Len(s) - 1 + 1 : all[k] = s[1 + k - 1]
      BY <1>1, SubSeqProperties
    <2>2. Len(all) = Len(s) /\ \A k \in 1..Len(s) : all[k] = s[k]
      <3> HIDE DEF all
      <3>1. QED BY <1>1, <2>1
    <2> HIDE DEF all
    <2>3. QED BY <2>1, <2>2, SeqEqual
  <1>7. QED BY <1>2, <1>5, <1>6

(* The users of a pool, page by page.                                      *)
LEMMA PoolIs ==
  ASSUME NEW pool \in Pools
  PROVE  pool # <<>> /\ pool \in Seq(Seq(Cognito!Listed(pool)))
  BY CognitoAssumption DEF Cognito!Listed, Cognito!ToSet

LEMMA CognitoInit == ASSUME Cognito!Init PROVE Cognito!Inductive
  <1>1. s1 # <<>> /\ s1 \in Seq(Seq(Cognito!Listed(s1)))
    BY PoolIs DEF Cognito!Init
  <1>2. Len(s1) \in Nat \ {0} /\ DOMAIN s1 = 1..Len(s1)
    BY <1>1, EmptySeq, LenProperties
  <1>3. Cognito!TypeOK
    <2>1. s2 \in DOMAIN s1 /\ s4 \in Seq(Cognito!Listed(s1))
      BY <1>2 DEF Cognito!Init
    <2>2. QED BY <2>1 DEF Cognito!Init, Cognito!TypeOK, Cognito!MaxTries
  <1>4. Cognito!HasThoseBefore
    <2>1. SubSeq(s1, 1, 1 - 1) = <<>>
      BY SubSeqEmpty
    <2>2. Cognito!FlattenSeq(<<>>) = <<>>
      BY DEF Cognito!FlattenSeq
    <2>3. QED BY <2>1, <2>2 DEF Cognito!Init, Cognito!HasThoseBefore
  <1>5. QED BY <1>3, <1>4 DEF Cognito!Init, Cognito!Inductive, Cognito!ListIsComplete

(* An answer adds its page to those before.                                *)
LEMMA AnswerAdds ==
  ASSUME Cognito!Inductive, Cognito!Answer PROVE Cognito!Inductive'
  <1>1. /\ s1 \in Pools /\ s2 \in DOMAIN s1 /\ s3 \in 0..5 /\ s4 \in Seq(Cognito!Listed(s1))
        /\ s5 = "asking" /\ s4 = Cognito!FlattenSeq(SubSeq(s1, 1, s2 - 1))
    BY DEF Cognito!Inductive, Cognito!TypeOK, Cognito!HasThoseBefore, Cognito!Answer,
           Cognito!MaxTries
  <1>2. /\ s1' = s1 /\ s4' = s4 \o s1[s2]
        /\ \/ s2 = Len(s1) /\ s5' = "returned" /\ s2' = s2 /\ s3' = s3
           \/ s2 # Len(s1) /\ s5' = s5 /\ s2' = s2 + 1 /\ s3' = 0
    BY DEF Cognito!Answer, Cognito!IsLast
  <1> DEFINE E == Cognito!Listed(s1)
  <1>3. s1 \in Seq(Seq(E)) /\ Len(s1) \in Nat /\ DOMAIN s1 = 1..Len(s1) /\ s1[s2] \in Seq(E)
    BY <1>1, PoolIs, LenProperties
  <1>4. /\ SubSeq(s1, 1, s2 - 1) \in Seq(Seq(E)) /\ SubSeq(s1, 1, Len(s1)) = s1
        /\ SubSeq(s1, 1, s2) = Append(SubSeq(s1, 1, s2 - 1), s1[s2])
    <2> HIDE DEF E
    <2>1. s2 \in 1..Len(s1)
      BY <1>1, <1>3
    <2>2. QED BY <1>3, <2>1, PagesUpTo
  <1>5. s4' = Cognito!FlattenSeq(SubSeq(s1, 1, s2)) /\ s4' \in Seq(E)
    <2> DEFINE before == SubSeq(s1, 1, s2 - 1)
    <2> HIDE DEF before, E
    <2>1. before \in Seq(Seq(E)) /\ s1[s2] \in Seq(E)
      BY <1>3, <1>4 DEF before
    <2>2. /\ Cognito!FlattenSeq(before) \in Seq(E)
          /\ Cognito!FlattenSeq(Append(before, s1[s2])) = Cognito!FlattenSeq(before) \o s1[s2]
      BY <2>1, FlattenAppend
    <2>3. Cognito!FlattenSeq(before) \o s1[s2] \in Seq(E)
      BY <2>1, <2>2, ConcatProperties
    <2>4. QED BY <1>1, <1>2, <1>4, <2>2, <2>3 DEF before
  <1>6. s4' \in Seq(Cognito!Listed(s1))'
    BY <1>2, <1>5 DEF Cognito!Listed
  <1>7. CASE s2 = Len(s1)
    BY <1>1, <1>2, <1>4, <1>5, <1>6, <1>7
       DEF Cognito!Inductive, Cognito!TypeOK, Cognito!HasThoseBefore, Cognito!ListIsComplete,
           Cognito!MaxTries
  <1>8. CASE s2 # Len(s1)
    <2>1. s2' \in DOMAIN s1' /\ s2' - 1 = s2 /\ s5' = "asking" /\ s3' \in 0..5 /\ s1' \in Pools
      BY <1>1, <1>2, <1>3, <1>8
    <2>2. Cognito!TypeOK'
      BY <1>6, <2>1 DEF Cognito!TypeOK, Cognito!MaxTries
    <2>3. QED BY <1>2, <1>5, <2>1, <2>2
              DEF Cognito!Inductive, Cognito!HasThoseBefore, Cognito!ListIsComplete
  <1>9. QED BY <1>7, <1>8

(* Whatever the service answers next.                                      *)
LEMMA CognitoStep ==
  ASSUME Cognito!Inductive, [Cognito!Next]_Cognito!vars PROVE Cognito!Inductive'
  <1> USE DEF Cognito!Inductive, Cognito!TypeOK, Cognito!HasThoseBefore, Cognito!ListIsComplete,
              Cognito!Listed, Cognito!MaxTries
  <1>1. CASE UNCHANGED Cognito!vars
    BY <1>1 DEF Cognito!vars
  <1>2. CASE Cognito!Throttled
    <2>1. s3' \in 0..5
      BY <1>2 DEF Cognito!Throttled, Cognito!Asks
    <2>2. QED BY <1>2, <2>1 DEF Cognito!Throttled
  <1>3. CASE Cognito!Refused \/ Cognito!GiveUp
    BY <1>3 DEF Cognito!Refused, Cognito!GiveUp
  <1>4. QED BY <1>1, <1>2, <1>3, AnswerAdds DEF Cognito!Next

-----------------------------------------------------------------------------
(* Mail.                                                                   *)

(* What is in a list that is made longer, and in one list after another.   *)
LEMMA MembersOfAppend ==
  ASSUME NEW E, NEW s \in Seq(E), NEW e \in E
  PROVE  Mailer!Members(Append(s, e)) = Mailer!Members(s) \cup {e}
  <1>1. /\ Len(s) \in Nat /\ DOMAIN s = 1..Len(s) /\ DOMAIN Append(s, e) = 1..Len(s) + 1
        /\ \A k \in 1..Len(s) : Append(s, e)[k] = s[k]
        /\ Append(s, e)[Len(s) + 1] = e
    BY AppendProperties, LenProperties
  <1>2. QED BY <1>1 DEF Mailer!Members

LEMMA MembersOfConcat ==
  ASSUME NEW E, NEW s \in Seq(E), NEW t \in Seq(E)
  PROVE  Mailer!Members(s \o t) = Mailer!Members(s) \cup Mailer!Members(t)
  <1>1. /\ Len(s) \in Nat /\ Len(t) \in Nat /\ DOMAIN s = 1..Len(s) /\ DOMAIN t = 1..Len(t)
        /\ DOMAIN (s \o t) = 1..Len(s) + Len(t)
        /\ \A k \in 1..Len(s) + Len(t) : (s \o t)[k] = IF k <= Len(s) THEN s[k] ELSE t[k - Len(s)]
    BY ConcatProperties, LenProperties
  <1>2. \A k \in 1..Len(s) : k \in 1..Len(s) + Len(t) /\ (s \o t)[k] = s[k]
    BY <1>1
  <1>3. \A k \in 1..Len(t) : /\ Len(s) + k \in 1..Len(s) + Len(t)
                            /\ (s \o t)[Len(s) + k] = t[k]
    BY <1>1
  <1>4. \A k \in 1..Len(s) + Len(t) :
          \/ k \in 1..Len(s) /\ (s \o t)[k] = s[k]
          \/ k - Len(s) \in 1..Len(t) /\ (s \o t)[k] = t[k - Len(s)]
    BY <1>1
  <1> DEFINE c == s \o t
  <1> HIDE DEF c
  <1>5. QED BY <1>1, <1>2, <1>3, <1>4 DEF Mailer!Members, c

(* FilterSlice is what its definition says of it.                          *)
KeptIs(s, what, g) ==
  g = [n \in 0..Len(s) |->
         IF n = 0 THEN <<>> ELSE IF s[n] \in what THEN Append(g[n - 1], s[n]) ELSE g[n - 1]]

(* FilterSlice keeps those elements of a list that are in the set.         *)
LEMMA FilterIs ==
  ASSUME NEW E, NEW s \in Seq(E), NEW what
  PROVE  /\ Mailer!FilterSlice(s, what) \in Seq(E)
         /\ Mailer!Members(Mailer!FilterSlice(s, what)) = Mailer!Members(s) \cap what
  <1> DEFINE g == CHOOSE h : KeptIs(s, what, h)
             N == Len(s)
             Upto(k) == {s[j] : j \in 1..k} \cap what
  <1>1. N \in Nat /\ DOMAIN s = 1..N /\ \A k \in 1..N : s[k] \in E
    BY LenProperties
  <1>2. Mailer!FilterSlice(s, what) = g[N]
    BY DEF Mailer!FilterSlice, KeptIs
  <1>3. KeptIs(s, what, g)
    <2> DEFINE next == [p \in (0..N) \X Seq(E) |->
                          IF p[1] \in 1..N /\ s[p[1]] \in what THEN Append(p[2], s[p[1]]) ELSE p[2]]
    <2>1. next \in [(0..N) \X Seq(E) -> Seq(E)]
      BY <1>1, AppendProperties
    <2>2. <<>> \in Seq(E)
      OBVIOUS
    <2>3. PICK h \in [0..N -> Seq(E)] :
            \A k \in 0..N : h[k] = IF k = 0 THEN <<>> ELSE next[<<k, h[k - 1]>>]
      <3> DEFINE S == Seq(E)
                 first == <<>>
      <3>1. N \in Nat /\ 0 \in Nat /\ first \in S /\ next \in [(0..N) \X S -> S]
        BY <1>1, <2>1, <2>2
      <3> HIDE DEF next, N, S, first
      <3>2. \E h \in [0..N -> S] : Recurs(h, 0, N, first, next)
        BY <3>1, RecursionExists
      <3>3. QED BY <3>2 DEF S, first, Recurs
    <2>4. ASSUME NEW k \in 0..N, k # 0
          PROVE  h[k] = IF s[k] \in what THEN Append(h[k - 1], s[k]) ELSE h[k - 1]
      <3>1. k \in 1..N /\ k - 1 \in 0..N
        BY <1>1, <2>4
      <3>2. h[k - 1] \in Seq(E) /\ h[k] = next[<<k, h[k - 1]>>]
        BY <2>3, <2>4, <3>1
      <3> HIDE DEF N
      <3>3. QED BY <3>1, <3>2
    <2>5. KeptIs(s, what, h)
      BY <2>3, <2>4, Zenon DEF KeptIs
    <2>6. QED BY <2>5
  <1> HIDE DEF g
  <1>4. g[0] = <<>>
    BY <1>1, <1>3 DEF KeptIs
  <1>5. ASSUME NEW k \in 1..N
        PROVE  g[k] = IF s[k] \in what THEN Append(g[k - 1], s[k]) ELSE g[k - 1]
    <2>1. k \in 0..N /\ k # 0
      BY <1>1
    <2>2. g[k] = IF k = 0 THEN <<>> ELSE IF s[k] \in what THEN Append(g[k - 1], s[k]) ELSE g[k - 1]
      <3> HIDE DEF N
      <3>1. QED BY <1>3, <2>1, Zenon DEF KeptIs, N
    <2>3. QED BY <2>1, <2>2
  <1> DEFINE IsGood(k) == g[k] \in Seq(E) /\ Mailer!Members(g[k]) = Upto(k)
             Good == {k \in 0..N : IsGood(k)}
  <1>6. 0 \in Good
    <2>1. Upto(0) = {} /\ Mailer!Members(<<>>) = {} /\ <<>> \in Seq(E)
      BY DEF Mailer!Members
    <2>2. IsGood(0)
      <3> HIDE DEF Upto
      <3>1. QED BY <1>4, <2>1
    <2> HIDE DEF IsGood
    <2>3. QED BY <1>1, <2>2
  <1>7. ASSUME NEW k \in 0 + 1..N, k - 1 \in Good PROVE IsGood(k)
    <2>1. k \in 1..N /\ k - 1 \in 0..N /\ s[k] \in E
      BY <1>1
    <2>2. g[k - 1] \in Seq(E) /\ Mailer!Members(g[k - 1]) = Upto(k - 1)
      BY <1>7
    <2>3. {s[j] : j \in 1..k} = {s[j] : j \in 1..k - 1} \cup {s[k]}
      BY <2>1
    <2>4. CASE s[k] \in what
      <3>1. g[k] = Append(g[k - 1], s[k])
        BY <1>5, <2>1, <2>4
      <3>2. Mailer!Members(Append(g[k - 1], s[k])) = Mailer!Members(g[k - 1]) \cup {s[k]}
        BY <2>1, <2>2, MembersOfAppend
      <3>3. Upto(k) = Upto(k - 1) \cup {s[k]}
        BY <2>3, <2>4
      <3>4. Append(g[k - 1], s[k]) \in Seq(E)
        BY <2>1, <2>2, AppendProperties
      <3> HIDE DEF Upto
      <3>5. QED BY <2>1, <2>2, <3>1, <3>2, <3>3, <3>4
    <2>5. CASE s[k] \notin what
      <3>1. Upto(k) = Upto(k - 1)
        BY <2>3, <2>5
      <3> HIDE DEF Upto
      <3>2. QED BY <1>5, <2>1, <2>2, <2>5, <3>1
    <2>6. QED BY <2>4, <2>5
  <1>8. 0..N \subseteq Good
    <2>1. ASSUME NEW k \in 0 + 1..N, k - 1 \in Good PROVE k \in Good
      <3>1. k \in 0..N
        BY <1>1
      <3> HIDE DEF IsGood
      <3>2. QED BY <1>7, <2>1, <3>1
    <2> HIDE DEF Good, N
    <2>2. QED BY <1>1, <1>6, <2>1, AlongInterval
  <1>9. N \in Good
    <2> HIDE DEF Good
    <2>1. QED BY <1>1, <1>8
  <1>10. Upto(N) = Mailer!Members(s) \cap what
    BY <1>1 DEF Mailer!Members
  <1>11. QED BY <1>2, <1>9, <1>10

(* A list has no members just if it is empty.                              *)
LEMMA NoMembers ==
  ASSUME NEW E, NEW s \in Seq(E) PROVE Mailer!Members(s) = {} <=> s = <<>>
  <1>1. CASE s # <<>>
    <2>1. 1 \in DOMAIN s
      BY <1>1, EmptySeq, LenProperties
    <2>2. QED BY <1>1, <2>1 DEF Mailer!Members
  <1>2. CASE s = <<>>
    BY <1>2 DEF Mailer!Members
  <1>3. QED BY <1>1, <1>2

(* Who passes the filter, and who is refused.                              *)
LEMMA FilterSplits ==
  ASSUME NEW list \in Seq(Address)
  PROVE  /\ Mailer!Filtered(list) \in Seq(Address) /\ Mailer!Refused(list) \in Seq(Address)
         /\ Mailer!Members(Mailer!Filtered(list)) \cup Mailer!Members(Mailer!Refused(list))
              = Mailer!Members(list)
         /\ \A a \in Mailer!Members(list) : /\ a \in Address
                                            /\ a \in Mailer!Members(Mailer!Filtered(list))
                                                 <=> Mailer!CheckSendToAddress(a)
                                            /\ a \in Mailer!Members(Mailer!Refused(list))
                                                 <=> ~Mailer!CheckSendToAddress(a)
  <1> DEFINE passed == {a \in Mailer!Members(list) : Mailer!CheckSendToAddress(a)}
             others == Mailer!Members(list) \ Mailer!Members(Mailer!Filtered(list))
  <1>1. /\ Mailer!Filtered(list) \in Seq(Address)
        /\ Mailer!Members(Mailer!Filtered(list)) = Mailer!Members(list) \cap passed
    <2>1. Mailer!Filtered(list) = Mailer!FilterSlice(list, passed)
      BY DEF Mailer!Filtered
    <2> HIDE DEF passed
    <2>2. QED BY <2>1, FilterIs
  <1>2. /\ Mailer!Refused(list) \in Seq(Address)
        /\ Mailer!Members(Mailer!Refused(list)) = Mailer!Members(list) \cap others
    <2>1. Mailer!Refused(list) = Mailer!FilterSlice(list, others)
      BY DEF Mailer!Refused, Mailer!DiffSlice
    <2> HIDE DEF others
    <2>2. QED BY <2>1, FilterIs
  <1>3. \A a \in Mailer!Members(list) : a \in Address
    BY LenProperties DEF Mailer!Members
  <1>4. QED BY <1>1, <1>2, <1>3

(* A safe address is a name before a safe domain.                          *)
LEMMA SafeIs ==
  ASSUME NEW a \in Address, Mailer!CheckSendToAddress(a), s2 # {}
  PROVE  \E domain \in s2 : \E name \in {a[1]} : a = <<name>> \o domain
  <1>1. a \in Seq(STRING) /\ a # <<>> /\ Tail(a) \in s2
    BY MailAssumption DEF Mailer!CheckSendToAddress
  <1>2. /\ Len(a) \in Nat \ {0} /\ Tail(a) \in Seq(STRING) /\ Len(Tail(a)) = Len(a) - 1
        /\ \A k \in 1..Len(Tail(a)) : Tail(a)[k] = a[k + 1]
        /\ \A k \in 1..Len(a) : a[k] \in STRING
    BY <1>1, EmptySeq, HeadTailProperties, LenProperties
  <1> DEFINE t == Tail(a)
             b == <<a[1]>>
             c == b \o t
  <1>3. b \in Seq(STRING) /\ Len(b) = 1 /\ b[1] = a[1]
    BY <1>2
  <1>4. /\ c \in Seq(STRING) /\ Len(c) = 1 + Len(t)
        /\ \A k \in 1..1 + Len(t) : c[k] = IF k <= 1 THEN b[k] ELSE t[k - 1]
    <2> HIDE DEF b, t
    <2>1. t \in Seq(STRING) /\ Len(t) \in Nat
      BY <1>2, LenProperties DEF t
    <2>2. /\ b \o t \in Seq(STRING) /\ Len(b \o t) = Len(b) + Len(t)
          /\ \A k \in 1..Len(b) + Len(t) : (b \o t)[k] = IF k <= Len(b) THEN b[k] ELSE t[k - Len(b)]
      BY <1>3, <2>1, ConcatProperties
    <2>3. QED BY <1>3, <2>2
  <1>5. a = c
    <2>1. Len(a) = Len(c)
      <3> HIDE DEF c
      <3>1. QED BY <1>2, <1>4
    <2>2. ASSUME NEW k \in 1..Len(a) PROVE a[k] = c[k]
      <3> HIDE DEF c, b
      <3>1. CASE k = 1
        BY <1>2, <1>3, <1>4, <3>1
      <3>2. CASE k # 1
        <4>1. k - 1 \in 1..Len(t) /\ k \in 1..1 + Len(t) /\ ~(k <= 1) /\ k - 1 + 1 = k
          BY <1>2, <3>2
        <4>2. QED BY <1>2, <1>4, <4>1
      <3>3. QED BY <3>1, <3>2
    <2> HIDE DEF c
    <2>3. QED BY <1>1, <1>4, <2>1, <2>2, SeqEqual
  <1>6. QED BY <1>1, <1>5

(* The three lists of a mail.                                              *)
LEMMA MailIs ==
  ASSUME Mailer!TypeOK
  PROVE  /\ s1.to \in Seq(Address) /\ s1.cc \in Seq(Address) /\ s1.bcc \in Seq(Address)
         /\ s1.kind \in {"html", "raw"}
         /\ s1.kind = "raw" => s1.cc = <<>> /\ s1.bcc = <<>>
  <1>1. s1 \in Mailer!Mails(AddressLists) /\ <<>> \in Seq(Address)
    BY DEF Mailer!TypeOK
  <1>2. QED BY <1>1, MailAssumption DEF Mailer!Mails

LEMMA MailInit == Mailer!Init => Mailer!Inductive
  BY DEF Mailer!Init, Mailer!Inductive, Mailer!TypeOK, Mailer!EveryoneIsAccountedFor

(* Nobody of To is safe: all of them are named.                            *)
LEMMA NothingStep ==
  ASSUME Mailer!Inductive, Mailer!SendNothing PROVE Mailer!Inductive'
  <1>1. /\ s5 = "none" /\ s3 = <<>> /\ s3' = s3 /\ s1' = s1 /\ s2' = s2 /\ s5' = "nil"
        /\ s4' = Mailer!Refused(s1.to) /\ Mailer!Filtered(s1.to) = <<>>
        /\ s1 \in Mailer!Mails(AddressLists) /\ s2 \in {{}, Domains}
    BY DEF Mailer!SendNothing, Mailer!Inductive, Mailer!TypeOK
  <1>2. s1.to \in Seq(Address)
    BY MailIs DEF Mailer!Inductive
  <1>3. s4' \in Seq(Address) /\ Mailer!Members(s1.to) = Mailer!Members(s4')
    <2>1. Mailer!Members(<<>>) = {}
      BY DEF Mailer!Members
    <2>2. /\ Mailer!Refused(s1.to) \in Seq(Address)
          /\ Mailer!Members(<<>>) \cup Mailer!Members(Mailer!Refused(s1.to))
               = Mailer!Members(s1.to)
      BY <1>1, <1>2, FilterSplits
    <2>3. QED BY <1>1, <2>1, <2>2
  <1>4. Mailer!TypeOK'
    BY <1>1, <1>3 DEF Mailer!TypeOK, Mailer!Mails
  <1>5. Mailer!EveryoneIsAccountedFor'
    BY <1>1, <1>3 DEF Mailer!EveryoneIsAccountedFor, Mailer!Members
  <1>6. QED BY <1>1, <1>4, <1>5 DEF Mailer!Inductive

(* Whoever is not safe is named, and the mail goes to the others.          *)
LEMMA SendStep ==
  ASSUME Mailer!Inductive, Mailer!Send PROVE Mailer!Inductive'
  <1> DEFINE to == Mailer!Filtered(s1.to)
             cc == Mailer!Filtered(s1.cc)
             bcc == Mailer!Filtered(s1.bcc)
             m == [kind |-> s1.kind, to |-> to, cc |-> cc, bcc |-> bcc]
             noTo == Mailer!Refused(s1.to)
             noCc == Mailer!Refused(s1.cc)
             noBcc == Mailer!Refused(s1.bcc)
             M(list) == Mailer!Members(list)
  <1>1. /\ s1' = s1 /\ s2' = s2 /\ s3' = <<m>> /\ s4' = noTo \o noCc \o noBcc
        /\ s5' \in {"nil", "error"}
        /\ s1 \in Mailer!Mails(AddressLists) /\ s2 \in {{}, Domains}
    BY DEF Mailer!Send, Mailer!Inductive, Mailer!TypeOK
  <1>2. /\ s1.to \in Seq(Address) /\ s1.cc \in Seq(Address) /\ s1.bcc \in Seq(Address)
        /\ s1.kind \in {"html", "raw"}
        /\ s1.kind = "raw" => s1.cc = <<>> /\ s1.bcc = <<>>
    BY MailIs DEF Mailer!Inductive
  <1>3. /\ to \in Seq(Address) /\ cc \in Seq(Address) /\ bcc \in Seq(Address)
        /\ noTo \in Seq(Address) /\ noCc \in Seq(Address) /\ noBcc \in Seq(Address)
        /\ M(to) \cup M(noTo) = M(s1.to) /\ M(cc) \cup M(noCc) = M(s1.cc)
        /\ M(bcc) \cup M(noBcc) = M(s1.bcc)
    <2> HIDE DEF M
    <2>1. QED BY <1>2, FilterSplits DEF M
  <1>4. /\ \A a \in M(to) \cup M(cc) \cup M(bcc) : a \in Address /\ Mailer!CheckSendToAddress(a)
        /\ \A a \in M(noTo) \cup M(noCc) \cup M(noBcc) : ~Mailer!CheckSendToAddress(a)
    BY <1>2, <1>3, FilterSplits
  <1>5. s4' \in Seq(Address) /\ M(s4') = M(noTo) \cup M(noCc) \cup M(noBcc)
    <2> HIDE DEF noTo, noCc, noBcc, M
    <2>1. /\ noTo \o noCc \in Seq(Address) /\ M(noTo \o noCc) = M(noTo) \cup M(noCc)
      BY <1>3, ConcatProperties, MembersOfConcat DEF M
    <2> DEFINE two == noTo \o noCc
    <2> HIDE DEF two
    <2>2. two \in Seq(Address) /\ M(two) = M(noTo) \cup M(noCc) /\ s4' = two \o noBcc
      BY <1>1, <2>1 DEF two
    <2>3. two \o noBcc \in Seq(Address) /\ M(two \o noBcc) = M(two) \cup M(noBcc)
      BY <1>3, <2>2, ConcatProperties, MembersOfConcat DEF M
    <2>4. QED BY <2>2, <2>3
  <1>6. m \in Mailer!Mails(Seq(Address))
    <2>1. s1.kind = "raw" => cc = <<>> /\ bcc = <<>>
      <3>1. M(<<>>) = {}
        BY DEF Mailer!Members
      <3>2. s1.kind = "raw" => M(cc) = {} /\ M(bcc) = {}
        <4> HIDE DEF M, cc, bcc
        <4>1. QED BY <1>2, <1>3, <3>1
      <3> HIDE DEF cc, bcc
      <3>3. QED BY <1>3, <3>2, NoMembers
    <2> HIDE DEF to, cc, bcc
    <2>2. CASE s1.kind = "html"
      BY <1>3, <2>2 DEF Mailer!Mails
    <2>3. CASE s1.kind = "raw"
      BY <1>3, <2>1, <2>3 DEF Mailer!Mails
    <2>4. QED BY <1>2, <2>2, <2>3
  <1>7. /\ s3'[1] = m /\ s3' # <<>> /\ s3' = <<s3'[1]>>
        /\ m.to = to /\ m.cc = cc /\ m.bcc = bcc
    BY <1>1
  <1> HIDE DEF to, cc, bcc, noTo, noCc, noBcc, m
  <1>8. Mailer!TypeOK'
    BY <1>1, <1>5, <1>6, <1>7 DEF Mailer!TypeOK, Mailer!Mails
  <1>9. Mailer!EveryoneIsAccountedFor'
    <2>1. Mailer!Recipients(m) = M(to) \cup M(cc) \cup M(bcc)
      BY <1>7 DEF Mailer!Recipients
    <2>2. Mailer!Recipients(s1) = M(s1.to) \cup M(s1.cc) \cup M(s1.bcc)
      BY DEF Mailer!Recipients
    <2>3. /\ Mailer!Recipients(s1) = Mailer!Recipients(m) \cup M(s4')
          /\ Mailer!Recipients(m) \cap M(s4') = {}
      <3> HIDE DEF M
      <3>1. QED BY <1>3, <1>4, <1>5, <2>1, <2>2
    <2>4. \A a \in Mailer!Recipients(m) :
            s2 # {} => \E domain \in s2 : \E name \in {a[1]} : a = <<name>> \o domain
      BY <1>4, <2>1, SafeIs
    <2>5. s3'[1] = m /\ s3' # <<>> /\ s1' = s1 /\ s2' = s2
      BY <1>1, <1>7
    <2>6. QED BY <2>3, <2>4, <2>5 DEF Mailer!EveryoneIsAccountedFor
  <1>10. QED BY <1>1, <1>8, <1>9 DEF Mailer!Inductive

LEMMA MailStep == ASSUME Mailer!Inductive, [Mailer!Next]_Mailer!vars PROVE Mailer!Inductive'
  <1>1. CASE UNCHANGED Mailer!vars
    <2>1. s1' = s1 /\ s2' = s2 /\ s3' = s3 /\ s4' = s4 /\ s5' = s5
      BY <1>1 DEF Mailer!vars
    <2>2. Mailer!TypeOK' /\ Mailer!EveryoneIsAccountedFor'
      BY <2>1 DEF Mailer!Inductive, Mailer!TypeOK, Mailer!EveryoneIsAccountedFor
    <2>3. QED BY <2>1, <2>2 DEF Mailer!Inductive
  <1>2. QED BY <1>1, NothingStep, SendStep DEF Mailer!Next

-----------------------------------------------------------------------------
(* GraphQL.                                                                *)

(* A directive that lets a value pass knows its type, can convert it and   *)
(* finds no breach.                                                        *)
LEMMA Passing ==
  ASSUME NEW v, NEW types, NEW converts \in BOOLEAN, NEW breach,
         v.type \notin {"absent", "nil"}, Gql!Validate(v, types, converts, breach) = <<>>
  PROVE  v.type \in types /\ converts /\ breach = <<>>
  BY DEF Gql!Validate

(* What has not been refused is no breach.                                 *)
LEMMA NotRefused ==
  ASSUME NEW breach \in BOOLEAN, NEW code, Gql!Refuse(breach, code) = <<>> PROVE ~breach
  BY DEF Gql!Refuse

(* A directive.                                                            *)
IsRule(rule) ==
  /\ rule.directive \in {"string", "date", "decimal", "int", "array"}
  /\ rule.min \subseteq Int /\ rule.max \subseteq Int
  /\ rule.minNow \subseteq Int /\ rule.maxNow \subseteq Int

(* What a directive is to admit at some time.                              *)
Admits(rule, v, from) ==
  /\ v.type \in Gql!GoTypes[rule.directive]
  /\ rule.directive = "int" => v.n % 2 = 0
  /\ rule.directive \in {"int", "decimal"} => v.form = "number"
  /\ Gql!Within(IF rule.directive = "string" THEN v.bytes ELSE v.n, rule, from)
  /\ rule.directive = "string" /\ v.bytes > 0 =>
       CASE rule.pattern = "EMAIL" -> v.form = "email"
         [] rule.pattern = "REGEX" -> v.form = rule.regexp
         [] OTHER -> TRUE

(* A number that does not exceed a directive's limits is within them.      *)
LEMMA NotExceeded ==
  ASSUME NEW rule, IsRule(rule), NEW x \in Int, ~Gql!Exceeds(rule, x)
  PROVE  (\A m \in rule.min : m <= x) /\ (\A m \in rule.max : x <= m)
  <1>1. /\ \A m \in rule.min : ~(x < m) /\ m \in Int
        /\ \A m \in rule.max : ~(x > m) /\ m \in Int
    BY DEF Gql!Exceeds, IsRule
  <1>2. QED BY <1>1

(* The Go types that each directive knows.                                 *)
LEMMA TypesOf ==
  /\ Gql!GoTypes["string"] = Gql!StringTypes /\ Gql!GoTypes["date"] = Gql!DateTypes
  /\ Gql!GoTypes["decimal"] = Gql!DecimalTypes /\ Gql!GoTypes["int"] = Gql!IntTypes
  /\ Gql!GoTypes["array"] = Gql!ArrayTypes
  BY DEF Gql!GoTypes

(* What each directive admits.                                             *)
LEMMA StringAdmits ==
  ASSUME NEW rule, IsRule(rule), NEW v, v.bytes \in Int, v.type \notin {"absent", "nil"},
         rule.directive = "string", Gql!ValidateStringDirective(rule, v) = <<>>, NEW from
  PROVE  Admits(rule, v, from)
  <1> DEFINE breach ==
        IF Gql!Exceeds(rule, v.bytes) THEN <<Gql!NewClientError("length")>>
        ELSE IF v.bytes > 0 /\ rule.pattern = "REGEX" /\ rule.regexp = Gql!None
             THEN <<Gql!Plain("regexp")>>
             ELSE Gql!Refuse(v.bytes > 0 /\ Gql!Mismatch(rule, v), "pattern")
  <1>1. v.type \in Gql!StringTypes /\ breach = <<>>
    <2>1. Gql!Validate(v, Gql!StringTypes, TRUE, breach) = <<>>
      BY DEF Gql!ValidateStringDirective
    <2> HIDE DEF breach
    <2>2. QED BY <2>1, Passing
  <1>2. ~Gql!Exceeds(rule, v.bytes) /\ ~(v.bytes > 0 /\ Gql!Mismatch(rule, v))
    BY <1>1 DEF Gql!Refuse
  <1> HIDE DEF breach
  <1>3. v.bytes > 0 => /\ rule.pattern = "EMAIL" => v.form = "email"
                       /\ rule.pattern = "REGEX" => v.form = rule.regexp
    BY <1>2 DEF Gql!Mismatch
  <1>4. Gql!Within(v.bytes, rule, from)
    BY <1>2, NotExceeded DEF Gql!Within
  <1>5. QED BY <1>1, <1>3, <1>4, TypesOf DEF Admits

(* A date that passes is strictly within all its limits.                   *)
LEMMA DateAdmits ==
  ASSUME NEW rule, IsRule(rule), NEW v, v.n \in Int, v.type \notin {"absent", "nil"}, s4 \in Int,
         rule.directive = "date", Gql!ValidateDateDirective(rule, v) = <<>>
  PROVE  Admits(rule, v, s4)
  <1> DEFINE breach == \/ \E m \in rule.max : v.n >= m
                       \/ \E m \in rule.maxNow : v.n >= s4 + m
                       \/ \E m \in rule.min : v.n <= m
                       \/ \E m \in rule.minNow : v.n <= s4 + m
  <1>1. v.type \in Gql!DateTypes /\ ~breach
    <2>1. Gql!Validate(v, Gql!DateTypes, TRUE, Gql!Refuse(breach, "date")) = <<>>
      BY DEF Gql!ValidateDateDirective
    <2>2. breach \in BOOLEAN
      OBVIOUS
    <2> HIDE DEF breach
    <2>3. QED BY <2>1, <2>2, Passing, NotRefused
  <1>2. Gql!Within(v.n, rule, s4)
    <2>1. /\ \A m \in rule.max : m \in Int /\ ~(v.n >= m)
          /\ \A m \in rule.maxNow : m \in Int /\ ~(v.n >= s4 + m)
          /\ \A m \in rule.min : m \in Int /\ ~(v.n <= m)
          /\ \A m \in rule.minNow : m \in Int /\ ~(v.n <= s4 + m)
      BY <1>1 DEF IsRule
    <2>2. /\ \A m \in rule.max : v.n < m
          /\ \A m \in rule.maxNow : v.n < s4 + m
          /\ \A m \in rule.min : m < v.n
          /\ \A m \in rule.minNow : s4 + m < v.n
      BY <2>1
    <2>3. QED BY <2>2 DEF Gql!Within
  <1>3. QED BY <1>1, <1>2, TypesOf DEF Admits

(* So it is with numbers and lists.                                        *)
LEMMA OthersAdmit ==
  ASSUME NEW rule, IsRule(rule), NEW v, v.n \in Int, v.type \notin {"absent", "nil"}, NEW from,
         \/ rule.directive = "decimal" /\ Gql!ValidateDecimalDirective(rule, v) = <<>>
         \/ rule.directive = "int" /\ Gql!ValidateIntDirective(rule, v) = <<>>
         \/ rule.directive = "array" /\ Gql!ValidateArrayDirective(rule, v) = <<>>
  PROVE  Admits(rule, v, from)
  <1>1. /\ v.type \in Gql!GoTypes[rule.directive] /\ ~Gql!Exceeds(rule, v.n)
        /\ rule.directive = "decimal" => v.form = "number"
        /\ rule.directive = "int" => v.form = "number" /\ v.n % 2 = 0
    <2>0. Gql!Exceeds(rule, v.n) \in BOOLEAN
      BY DEF Gql!Exceeds
    <2>1. CASE rule.directive = "decimal"
      <3>1. Gql!Validate(v, Gql!DecimalTypes, v.form = "number",
                         Gql!Refuse(Gql!Exceeds(rule, v.n), "decimal")) = <<>>
        BY <2>1 DEF Gql!ValidateDecimalDirective
      <3>3. /\ v.type \in Gql!DecimalTypes /\ v.form = "number"
            /\ Gql!Refuse(Gql!Exceeds(rule, v.n), "decimal") = <<>>
        BY <3>1 DEF Gql!Validate
      <3>4. QED BY <2>0, <2>1, <3>3, NotRefused, TypesOf
    <2>2. CASE rule.directive = "int"
      <3>1. Gql!Validate(v, Gql!IntTypes, v.form = "number" /\ v.n % 2 = 0,
                         Gql!Refuse(Gql!Exceeds(rule, v.n), "int")) = <<>>
        BY <2>2 DEF Gql!ValidateIntDirective
      <3>2. (v.form = "number" /\ v.n % 2 = 0) \in BOOLEAN
        OBVIOUS
      <3>3. /\ v.type \in Gql!IntTypes /\ v.form = "number" /\ v.n % 2 = 0
            /\ Gql!Refuse(Gql!Exceeds(rule, v.n), "int") = <<>>
        BY <3>1, <3>2, Passing
      <3>4. QED BY <2>0, <2>2, <3>3, NotRefused, TypesOf
    <2>3. CASE rule.directive = "array"
      <3>1. Gql!Validate(v, Gql!ArrayTypes, TRUE,
                         Gql!Refuse(Gql!Exceeds(rule, v.n), "array")) = <<>>
        BY <2>3 DEF Gql!ValidateArrayDirective
      <3>2. QED BY <2>0, <2>3, <3>1, Passing, NotRefused, TypesOf
    <2>4. QED BY <2>1, <2>2, <2>3
  <1>2. rule.directive # "date" /\ rule.directive # "string"
    OBVIOUS
  <1>3. Gql!Within(v.n, rule, from)
    BY <1>1, <1>2, NotExceeded DEF Gql!Within
  <1>4. QED BY <1>1, <1>2, <1>3 DEF Admits

(* The layers of an error: those of the library are GraphQL errors, and a  *)
(* client's has a code, but not that of the unexpected.                    *)
IsError(e) ==
  /\ e # <<>> /\ e \in Seq({e[j] : j \in DOMAIN e})
  /\ \A j \in DOMAIN e : e[j].kind = "client" => e[j].code \notin {"500", "none"}
  /\ e[1].code \in Gql!LibraryCodes => e[1].kind = "gql"

(* The codes of the directives' own errors.                                *)
ClientCodes == {"invalid", "length", "pattern", "date", "decimal", "int", "array"}

(* The errors that a directive makes.                                      *)
LEMMA DirectivesErrors ==
  /\ \A code \in ClientCodes : /\ IsError(<<Gql!NewClientError(code)>>)
                               /\ IsError(<<Gql!NewClientError(code), Gql!Plain("parse")>>)
  /\ \A text : IsError(<<Gql!Plain(text)>>)
  <1>1. ASSUME NEW c, c.code \notin Gql!LibraryCodes,
               c.kind = "client" => c.code \notin {"500", "none"}
        PROVE  IsError(<<c>>) /\ \A p : p.kind = "plain" => IsError(<<c, p>>)
    <2>1. IsError(<<c>>)
      <3> DEFINE e == <<c>>
      <3>1. DOMAIN e = {1} /\ e[1] = c /\ e # <<>>
        OBVIOUS
      <3>2. e \in Seq({e[j] : j \in DOMAIN e})
        OBVIOUS
      <3> HIDE DEF e
      <3>3. IsError(e)
        BY <1>1, <3>1, <3>2 DEF IsError
      <3>4. QED BY <3>3 DEF e
    <2>2. ASSUME NEW p, p.kind = "plain" PROVE IsError(<<c, p>>)
      <3> DEFINE e == <<c, p>>
      <3>1. DOMAIN e = {1, 2} /\ e[1] = c /\ e[2] = p /\ e # <<>>
        OBVIOUS
      <3>2. e \in Seq({e[j] : j \in DOMAIN e})
        OBVIOUS
      <3> HIDE DEF e
      <3>3. IsError(e)
        BY <1>1, <2>2, <3>1, <3>2 DEF IsError
      <3>4. QED BY <3>3 DEF e
    <2>3. QED BY <2>1, <2>2
  <1>2. \A code \in ClientCodes :
          /\ Gql!NewClientError(code).code \notin Gql!LibraryCodes
          /\ Gql!NewClientError(code).code \notin {"500", "none"}
    BY DEF ClientCodes, Gql!NewClientError, Gql!LibraryCodes
  <1>3. \A text : /\ Gql!Plain(text).kind = "plain"
                  /\ Gql!Plain(text).code \notin Gql!LibraryCodes
    BY DEF Gql!Plain, Gql!LibraryCodes, Gql!None
  <1>4. QED BY <1>1, <1>2, <1>3

(* A directive that refuses a value has a client's error, unless it does   *)
(* not know the type or its expression is wrong.                           *)
IsRefusal(e, rule, v) ==
  /\ IsError(e)
  /\ \/ e[1].kind = "client"
     \/ v.type \notin Gql!GoTypes[rule.directive]
     \/ rule.pattern = "REGEX" /\ rule.regexp = Gql!None

(* What the part that all directives share makes of a refusal.             *)
LEMMA ValidateRefuses ==
  ASSUME NEW rule, NEW v, NEW converts, NEW breach,
         Gql!Validate(v, Gql!GoTypes[rule.directive], converts, breach) # <<>>,
         breach # <<>> => IsRefusal(breach, rule, v)
  PROVE  IsRefusal(Gql!Validate(v, Gql!GoTypes[rule.directive], converts, breach), rule, v)
  <1> DEFINE e == Gql!Validate(v, Gql!GoTypes[rule.directive], converts, breach)
             c == <<Gql!NewClientError("invalid"), Gql!Plain("parse")>>
  <1>1. \/ e = <<Gql!Plain("type")>> /\ v.type \notin Gql!GoTypes[rule.directive]
        \/ e = c
        \/ e = breach
    BY DEF Gql!Validate
  <1>2. IsError(c) /\ c[1].kind = "client"
    BY DirectivesErrors DEF ClientCodes, Gql!NewClientError
  <1>3. e # <<>>
    OBVIOUS
  <1> HIDE DEF e, c
  <1>4. IsRefusal(e, rule, v)
    BY <1>1, <1>2, <1>3, DirectivesErrors DEF IsRefusal
  <1>5. QED BY <1>4 DEF e

(* A refusal for a breach is the client's.                                 *)
LEMMA RefuseIs ==
  ASSUME NEW b, NEW code \in ClientCodes, NEW rule, NEW v, Gql!Refuse(b, code) # <<>>
  PROVE  IsRefusal(Gql!Refuse(b, code), rule, v)
  <1> DEFINE e == <<Gql!NewClientError(code)>>
  <1>1. e[1].kind = "client" /\ IsError(e)
    BY DirectivesErrors DEF Gql!NewClientError
  <1>2. Gql!Refuse(b, code) = e
    BY DEF Gql!Refuse
  <1> HIDE DEF e
  <1>3. QED BY <1>1, <1>2 DEF IsRefusal

(* Every directive.                                                        *)
LEMMA Refusing ==
  ASSUME NEW rule, IsRule(rule), NEW v, Gql!Verdict(rule, v) # <<>>
  PROVE  IsRefusal(Gql!Verdict(rule, v), rule, v)
  <1>1. CASE rule.directive = "string"
    <2> DEFINE breach ==
          IF Gql!Exceeds(rule, v.bytes) THEN <<Gql!NewClientError("length")>>
          ELSE IF v.bytes > 0 /\ rule.pattern = "REGEX" /\ rule.regexp = Gql!None
               THEN <<Gql!Plain("regexp")>>
               ELSE Gql!Refuse(v.bytes > 0 /\ Gql!Mismatch(rule, v), "pattern")
    <2>1. breach # <<>> => IsRefusal(breach, rule, v)
      <3> DEFINE r == Gql!Refuse(v.bytes > 0 /\ Gql!Mismatch(rule, v), "pattern")
                 c == <<Gql!NewClientError("length")>>
      <3>1. r # <<>> => IsRefusal(r, rule, v)
        BY RefuseIs DEF ClientCodes
      <3>2. IsError(c) /\ c[1].kind = "client" /\ IsError(<<Gql!Plain("regexp")>>)
        BY DirectivesErrors DEF ClientCodes, Gql!NewClientError
      <3>3. \/ breach = c \/ breach = r
            \/ breach = <<Gql!Plain("regexp")>> /\ rule.pattern = "REGEX" /\ rule.regexp = Gql!None
        OBVIOUS
      <3> HIDE DEF r, c, breach
      <3>4. QED BY <3>1, <3>2, <3>3 DEF IsRefusal
    <2>2. Gql!Verdict(rule, v) = Gql!Validate(v, Gql!GoTypes[rule.directive], TRUE, breach)
      BY <1>1, TypesOf DEF Gql!Verdict, Gql!ValidateStringDirective
    <2> HIDE DEF breach
    <2>3. QED BY <2>1, <2>2, ValidateRefuses
  <1>2. CASE rule.directive = "date"
    <2> DEFINE breach == \/ \E m \in rule.max : v.n >= m
                         \/ \E m \in rule.maxNow : v.n >= s4 + m
                         \/ \E m \in rule.min : v.n <= m
                         \/ \E m \in rule.minNow : v.n <= s4 + m
    <2>1. Gql!Verdict(rule, v)
            = Gql!Validate(v, Gql!GoTypes[rule.directive], TRUE, Gql!Refuse(breach, "date"))
      BY <1>2, TypesOf DEF Gql!Verdict, Gql!ValidateDateDirective
    <2> HIDE DEF breach
    <2>2. "date" \in ClientCodes
      BY DEF ClientCodes
    <2>3. QED BY <2>1, <2>2, ValidateRefuses, RefuseIs
  <1>3. CASE rule.directive \in {"decimal", "int", "array"}
    <2>1. ASSUME NEW converts, NEW code \in ClientCodes,
                 Gql!Verdict(rule, v) = Gql!Validate(v, Gql!GoTypes[rule.directive], converts,
                                                     Gql!Refuse(Gql!Exceeds(rule, v.n), code))
          PROVE  IsRefusal(Gql!Verdict(rule, v), rule, v)
      BY <2>1, ValidateRefuses, RefuseIs
    <2>2. {"decimal", "int", "array"} \subseteq ClientCodes
      BY DEF ClientCodes
    <2>3. CASE rule.directive = "decimal"
      <3> DEFINE converts == v.form = "number"
      <3>1. Gql!Verdict(rule, v) = Gql!Validate(v, Gql!GoTypes[rule.directive], converts,
                                     Gql!Refuse(Gql!Exceeds(rule, v.n), "decimal"))
        BY <2>3, TypesOf, Zenon DEF Gql!Verdict, Gql!ValidateDecimalDirective
      <3> HIDE DEF converts
      <3>2. QED BY <2>1, <2>2, <3>1
    <2>4. CASE rule.directive = "int"
      <3> DEFINE converts == v.form = "number" /\ v.n % 2 = 0
      <3>1. Gql!Verdict(rule, v) = Gql!Validate(v, Gql!GoTypes[rule.directive], converts,
                                     Gql!Refuse(Gql!Exceeds(rule, v.n), "int"))
        BY <2>4, TypesOf, Zenon DEF Gql!Verdict, Gql!ValidateIntDirective
      <3> HIDE DEF converts
      <3>2. QED BY <2>1, <2>2, <3>1
    <2>5. CASE rule.directive = "array"
      <3>1. Gql!Verdict(rule, v) = Gql!Validate(v, Gql!GoTypes[rule.directive], TRUE,
                                     Gql!Refuse(Gql!Exceeds(rule, v.n), "array"))
        BY <2>5, TypesOf DEF Gql!Verdict, Gql!ValidateArrayDirective
      <3>2. QED BY <2>1, <2>2, <3>1
    <2>6. QED BY <1>3, <2>3, <2>4, <2>5
  <1>4. QED BY <1>1, <1>2, <1>3 DEF IsRule

(* The field was admitted by every directive that has run.                 *)
LEMMA GqlInit == Gql!Init => Gql!Inductive
  <1> SUFFICES ASSUME Gql!Init PROVE Gql!Inductive
    OBVIOUS
  <1>1. s3 = s2 /\ s2 \in Seq({s2[j] : j \in DOMAIN s2}) /\ Len(s2) \in Nat
    BY GqlAssumption DEF Gql!Init
  <1>2. Gql!DoneAdmit
    BY <1>1 DEF Gql!Init, Gql!DoneAdmit, Gql!Done
  <1>3. Gql!ErrorHasSource
    BY DEF Gql!Init, Gql!ErrorHasSource
  <1>4. QED BY <1>1, <1>2, <1>3 DEF Gql!Init, Gql!Inductive

(* A directive that has run let the field pass; a failure is kept until it *)
(* is presented.                                                           *)
LEMMA GqlStep == ASSUME Gql!Inductive, [Gql!Next]_Gql!vars PROVE Gql!Inductive'
  <1> DEFINE R == {s2[j] : j \in DOMAIN s2}
  <1>0. /\ s1 \in Fields /\ s2 \in Chains /\ s4 \in Times /\ s6 \in BOOLEAN
        /\ s5 \in {"running", "resolved", "failed", "replied"} /\ s3 \in Seq(R)
        /\ Gql!DoneAdmit /\ Gql!ErrorHasSource
    BY DEF Gql!Inductive
  <1>1. s2 \in Seq(R) /\ Len(s2) \in Nat /\ Len(s3) \in Nat
    BY <1>0, GqlAssumption
  <1>2. CASE UNCHANGED Gql!vars
    BY <1>0, <1>2 DEF Gql!vars, Gql!Inductive, Gql!DoneAdmit, Gql!Done, Gql!ErrorHasSource,
                      Gql!Verdict, Gql!ValidateDateDirective
  <1>3. CASE Gql!LibraryFails
    <2>1. PICK e \in Failures : e[1].code \in Gql!LibraryCodes /\ s5' = "failed" /\ s7' = e
      BY <1>3 DEF Gql!LibraryFails, Gql!Fail
    <2>2. UNCHANGED <<s1, s2, s3, s4, s6, s8>> /\ s5 = "running"
      BY <1>3 DEF Gql!LibraryFails
    <2>3. Gql!ErrorHasSource'
      BY <1>0, <2>1, <2>2 DEF Gql!ErrorHasSource
    <2>4. Gql!DoneAdmit'
      BY <1>0, <2>1, <2>2 DEF Gql!DoneAdmit, Gql!Done, Gql!Verdict, Gql!ValidateDateDirective
    <2>5. QED BY <1>0, <2>1, <2>2, <2>3, <2>4 DEF Gql!Inductive
  <1>4. CASE Gql!Directive
    <2>1. /\ s5 = "running" /\ s3 # <<>> /\ s3' = Tail(s3)
          /\ UNCHANGED <<s1, s2, s4, s6, s8>>
      BY <1>4 DEF Gql!Directive
    <2>2. /\ s3' \in Seq(R) /\ Len(s3') = Len(s3) - 1 /\ Len(s3) > 0
          /\ \A i \in 1..Len(s3) - 1 : s3'[i] = s3[i + 1]
      BY <1>0, <1>1, <2>1, HeadTailProperties
    <2> DEFINE n == Len(s2) - Len(s3) + 1
    <2>3. n \in DOMAIN s2 /\ Head(s3) = s2[n] /\ ~s6
      BY <1>0, <1>1, <2>1, <2>2 DEF Gql!DoneAdmit
    <2>4. /\ Len(s3') <= Len(s2')
          /\ s6' => s3' = <<>>
          /\ \A i \in 1..Len(s3') : s3'[i] = s2'[Len(s2') - Len(s3') + i]
      BY <1>0, <1>1, <2>1, <2>2, <2>3 DEF Gql!DoneAdmit
    <2>5. \A rule : Gql!Verdict(rule, s1)' = Gql!Verdict(rule, s1)
      BY <2>1 DEF Gql!Verdict, Gql!ValidateDateDirective
    <2>6. CASE Gql!Verdict(s2[n], s1) = <<>>
      <3>1. UNCHANGED <<s5, s7>>
        BY <1>4, <2>3, <2>6 DEF Gql!Directive
      <3>2. \A j \in 1..Len(s2') - Len(s3') : j \in 1..Len(s2) - Len(s3) \/ j = n
        <4>1. Len(s2') - Len(s3') = n /\ n - 1 = Len(s2) - Len(s3) /\ n \in Int
          BY <1>1, <2>1, <2>2
        <4> HIDE DEF n
        <4>2. QED BY <4>1
      <3>3. (\A j \in Gql!Done : Gql!Verdict(s2[j], s1) = <<>>)'
        <4> HIDE DEF n
        <4>1. \A j \in 1..Len(s2) - Len(s3) : Gql!Verdict(s2[j], s1) = <<>>
          BY <1>0, <2>1 DEF Gql!DoneAdmit, Gql!Done
        <4>2. \A j \in 1..Len(s2') - Len(s3') : Gql!Verdict(s2[j], s1) = <<>>
          BY <2>6, <3>2, <4>1
        <4>3. QED BY <2>1, <2>5, <4>2 DEF Gql!Done
      <3>4. Gql!DoneAdmit'
        BY <2>4, <3>3 DEF Gql!DoneAdmit
      <3>5. Gql!ErrorHasSource'
        BY <1>0, <2>1, <3>1 DEF Gql!ErrorHasSource
      <3>6. QED BY <1>0, <2>1, <2>2, <3>1, <3>4, <3>5 DEF Gql!Inductive
    <2>7. CASE Gql!Verdict(s2[n], s1) # <<>>
      <3>1. s5' = "failed" /\ s7' = Gql!Verdict(s2[n], s1)
        BY <1>4, <2>3, <2>7 DEF Gql!Directive, Gql!Fail
      <3>2. Gql!DoneAdmit'
        <4>1. ~s6' /\ s5' # "running"
          BY <2>1, <2>3, <3>1
        <4>2. QED BY <2>4, <4>1 DEF Gql!DoneAdmit
      <3>3. Gql!ErrorHasSource'
        BY <1>0, <2>1, <2>3, <2>5, <2>7, <3>1 DEF Gql!ErrorHasSource
      <3>4. QED BY <1>0, <2>1, <2>2, <3>1, <3>2, <3>3 DEF Gql!Inductive
    <2>8. QED BY <2>6, <2>7
  <1>5. CASE Gql!Resolve
    <2>1. /\ s5 = "running" /\ s3 = <<>> /\ s6' = TRUE /\ UNCHANGED <<s1, s2, s3, s4, s8>>
          /\ \/ s5' = "resolved" /\ UNCHANGED s7
             \/ \E e \in Failures : s5' = "failed" /\ s7' = e
      BY <1>5 DEF Gql!Resolve, Gql!Fail
    <2>2. Gql!DoneAdmit'
      BY <1>0, <2>1 DEF Gql!DoneAdmit, Gql!Done, Gql!Verdict, Gql!ValidateDateDirective
    <2>3. Gql!ErrorHasSource'
      BY <1>0, <2>1 DEF Gql!ErrorHasSource
    <2>4. QED BY <1>0, <2>1, <2>2, <2>3 DEF Gql!Inductive
  <1>6. CASE Gql!Present
    <2>1. /\ s5 = "failed" /\ s5' = "replied" /\ s8' = Gql!DefaultErrorPresenter(Gql!OnPath(s7))
          /\ UNCHANGED <<s1, s2, s3, s4, s6, s7>>
      BY <1>6 DEF Gql!Present
    <2>2. \A rule : Gql!Verdict(rule, s1)' = Gql!Verdict(rule, s1)
      BY <2>1 DEF Gql!Verdict, Gql!ValidateDateDirective
    <2>3. Gql!DoneAdmit'
      BY <1>0, <2>1, <2>2 DEF Gql!DoneAdmit, Gql!Done
    <2>4. Gql!ErrorHasSource'
      BY <1>0, <2>1, <2>2 DEF Gql!ErrorHasSource
    <2>5. QED BY <1>0, <2>1, <2>3, <2>4 DEF Gql!Inductive
  <1>7. QED BY <1>2, <1>3, <1>4, <1>5, <1>6 DEF Gql!Next

(* The resolver's field passed every directive.                            *)
LEMMA GqlResolved == Gql!Inductive => Gql!ResolvedIsValid
  <1> SUFFICES ASSUME Gql!Inductive, s6, s1.type \notin {"absent", "nil"}, NEW j \in DOMAIN s2
               PROVE  Admits(s2[j], s1, s4)
    BY DEF Gql!ResolvedIsValid, Admits
  <1>1. /\ s2 \in Chains /\ s1 \in Fields /\ s4 \in Times /\ Gql!DoneAdmit
    BY DEF Gql!Inductive
  <1>2. IsRule(s2[j]) /\ s1.n \in Int /\ s1.bytes \in Int /\ s4 \in Int
    BY <1>1, GqlAssumption DEF IsRule
  <1>3. s2 \in Seq({s2[i] : i \in DOMAIN s2})
    BY <1>1, GqlAssumption
  <1>4. Gql!Verdict(s2[j], s1) = <<>>
    BY <1>1, <1>3 DEF Gql!DoneAdmit, Gql!Done
  <1> DEFINE rule == s2[j]
  <1> SUFFICES Admits(rule, s1, s4)
    OBVIOUS
  <1>5. IsRule(rule) /\ Gql!Verdict(rule, s1) = <<>>
    BY <1>2, <1>4
  <1> HIDE DEF rule
  <1>6. CASE rule.directive = "string"
    BY <1>2, <1>5, <1>6, StringAdmits DEF Gql!Verdict
  <1>7. CASE rule.directive = "date"
    BY <1>2, <1>5, <1>7, DateAdmits DEF Gql!Verdict
  <1>8. CASE rule.directive \in {"decimal", "int", "array"}
    BY <1>2, <1>5, <1>8, OthersAdmit DEF Gql!Verdict
  <1>9. QED BY <1>5, <1>6, <1>7, <1>8 DEF IsRule

(* What wrapping on the field's path leaves of an error, and which layer   *)
(* of it the response is.                                                  *)
LEMMA OnPathIs ==
  ASSUME NEW e, IsError(e)
  PROVE  LET p == Gql!OnPath(e)
         IN  /\ Gql!Response(p).code \in Gql!LibraryCodes =>
                  \E k \in DOMAIN e : Gql!Response(p) = e[k]
             /\ e[1].kind = "gql" => Gql!Response(p) = e[1]
             /\ Gql!ClientErrors(p) \subseteq Nat
             /\ Gql!ClientErrors(e) # {} => Gql!ClientErrors(p) # {}
             /\ \A j \in Gql!ClientErrors(p) : \E k \in DOMAIN e : p[j] = e[k]
  <1> DEFINE S == {e[j] : j \in DOMAIN e}
             p == Gql!OnPath(e)
  <1>1. e \in Seq(S) /\ Len(e) \in Nat \ {0} /\ 1 \in DOMAIN e
    BY DEF IsError
  <1> HIDE DEF S
  <1>2. DOMAIN e = 1..Len(e) /\ \A j \in DOMAIN e : e[j] \in S
    BY <1>1
  <1>3. CASE Gql!GqlErrors(e) # {}
    <2> DEFINE G == Gql!GqlErrors(e)
    <2>1. p = e /\ G \subseteq DOMAIN e /\ G \subseteq Nat
      BY <1>2, <1>3 DEF Gql!OnPath, Gql!GqlErrors
    <2>2. Gql!Response(p) = e[Gql!Min(G)]
      BY <2>1 DEF Gql!Response
    <2>3. e[1].kind = "gql" => 1 \in G
      BY <1>1 DEF Gql!GqlErrors
    <2> HIDE DEF G, p
    <2>4. G # {}
      BY <1>3 DEF G
    <2>5. \E m \in G : \A n \in G : m <= n
      BY <2>1, <2>4, LeastExists
    <2>6. Gql!Min(G) \in G /\ \A n \in G : Gql!Min(G) <= n
      BY <2>5 DEF Gql!Min
    <2>7. 1 \in G => Gql!Min(G) = 1
      BY <1>2, <2>1, <2>6
    <2>8. /\ Gql!ClientErrors(p) \subseteq Nat
          /\ Gql!ClientErrors(e) # {} => Gql!ClientErrors(p) # {}
          /\ \A j \in Gql!ClientErrors(p) : \E k \in DOMAIN e : p[j] = e[k]
      BY <1>2, <2>1 DEF Gql!ClientErrors
    <2>9. QED BY <2>1, <2>2, <2>3, <2>6, <2>7, <2>8 DEF p
  <1>4. CASE Gql!GqlErrors(e) = {}
    <2> DEFINE g == Gql!GqlError(Gql!Message(e), Gql!None)
               T == S \cup {g}
    <2>0. \A j \in DOMAIN e : e[j].kind # "gql"
      BY <1>4 DEF Gql!GqlErrors
    <2>1. g.kind = "gql" /\ g.code \notin Gql!LibraryCodes
      BY DEF Gql!GqlError, Gql!None, Gql!LibraryCodes
    <2>2. p = <<g>> \o e
      BY <1>4 DEF Gql!OnPath
    <2> HIDE DEF g, p
    <2>3. e \in Seq(T) /\ <<g>> \in Seq(T) /\ Len(<<g>>) = 1 /\ <<g>>[1] = g
      <3>1. e \in Seq(T)
        BY <1>1, <1>2
      <3>2. QED BY <3>1
    <2> HIDE DEF T
    <2> DEFINE h == <<g>>
    <2>4. h \in Seq(T) /\ Len(h) = 1 /\ h[1] = g /\ p = h \o e
      BY <2>2, <2>3
    <2> HIDE DEF h
    <2>5. /\ p \in Seq(T) /\ Len(p) = 1 + Len(e)
          /\ \A k \in 1..1 + Len(e) : p[k] = IF k <= 1 THEN h[k] ELSE e[k - 1]
      <3>1. h \in Seq(T) /\ e \in Seq(T)
        BY <2>3, <2>4
      <3>2. /\ h \o e \in Seq(T) /\ Len(h \o e) = Len(h) + Len(e)
            /\ \A k \in 1..Len(h) + Len(e) :
                 (h \o e)[k] = IF k <= Len(h) THEN h[k] ELSE e[k - Len(h)]
        BY ONLY <3>1, ConcatProperties
      <3>3. QED BY <2>4, <3>2
    <2>6. DOMAIN p = 1..Len(e) + 1 /\ p[1] = g /\ \A k \in 1..Len(e) : p[k + 1] = e[k]
      BY <1>1, <2>4, <2>5
    <2>7. \A j \in Gql!ClientErrors(p) : j - 1 \in DOMAIN e /\ p[j] = e[j - 1]
      BY <1>1, <1>2, <2>1, <2>6 DEF Gql!ClientErrors
    <2>8. \A j \in Gql!ClientErrors(e) : j + 1 \in Gql!ClientErrors(p)
      BY <1>1, <1>2, <2>6 DEF Gql!ClientErrors
    <2>9. Gql!ClientErrors(p) \subseteq Nat
      BY <1>1, <2>6 DEF Gql!ClientErrors
    <2>10. \A k \in DOMAIN p : k # 1 => k - 1 \in DOMAIN e /\ p[k] = e[k - 1]
      BY <1>1, <1>2, <2>6
    <2>11. Gql!GqlErrors(p) = {1}
      BY <1>1, <2>0, <2>1, <2>6, <2>10 DEF Gql!GqlErrors
    <2>12. Gql!Min({1}) = 1
      BY DEF Gql!Min
    <2>13. Gql!Response(p) = g
      BY <2>6, <2>11, <2>12 DEF Gql!Response
    <2>14. QED BY <1>1, <2>0, <2>1, <2>7, <2>8, <2>9, <2>13 DEF p
  <1>5. QED BY <1>3, <1>4

(* What a client is told is an outermost layer that is meant for it.       *)
LEMMA Presented ==
  ASSUME NEW e, IsError(e)
  PROVE  LET r == Gql!DefaultErrorPresenter(Gql!OnPath(e))
         IN  \/ \E k \in DOMAIN e : e[k].kind = "client" /\ r = Gql!Told(e[k].texts, e[k].code)
             \/ /\ Gql!ClientErrors(e) = {}
                /\ \E k \in DOMAIN e : /\ e[k].code \in Gql!LibraryCodes
                                        /\ r = Gql!Told(e[k].texts, e[k].code)
             \/ /\ Gql!ClientErrors(e) = {} /\ r = Gql!Told({"unexpected"}, "500")
                /\ ~(e[1].kind = "gql" /\ e[1].code \in Gql!LibraryCodes)
  <1> DEFINE p == Gql!OnPath(e)
             C == Gql!ClientErrors(p)
             r == Gql!DefaultErrorPresenter(p)
             g == Gql!Response(p)
  <1>1. /\ g.code \in Gql!LibraryCodes => \E k \in DOMAIN e : g = e[k]
        /\ e[1].kind = "gql" => g = e[1]
        /\ C \subseteq Nat
        /\ Gql!ClientErrors(e) # {} => C # {}
        /\ \A j \in C : \E k \in DOMAIN e : p[j] = e[k]
    BY OnPathIs
  <1>3. \A j \in C : p[j].kind = "client"
    BY DEF Gql!ClientErrors
  <1> HIDE DEF p
  <1>4. CASE C # {}
    <2>1. \E m \in C : \A n \in C : m <= n
      BY <1>1, <1>4, LeastExists
    <2>2. Gql!Min(C) \in C
      BY <2>1 DEF Gql!Min
    <2>3. r = Gql!Told(p[Gql!Min(C)].texts, p[Gql!Min(C)].code)
      BY <1>4 DEF Gql!DefaultErrorPresenter, Gql!ClientError
    <2> HIDE DEF C, r
    <2>4. PICK k \in DOMAIN e : p[Gql!Min(C)] = e[k]
      BY <1>1, <2>2
    <2>5. e[k].kind = "client" /\ r = Gql!Told(e[k].texts, e[k].code)
      BY <1>3, <2>2, <2>3, <2>4
    <2>6. QED BY <2>5 DEF r, p
  <1>5. CASE C = {}
    <2>1. r = Gql!Obfuscated(p)
      BY <1>5 DEF Gql!DefaultErrorPresenter
    <2>2. CASE g.code \in Gql!LibraryCodes
      <3>1. r = Gql!Told(g.texts, g.code)
        BY <2>1, <2>2 DEF Gql!Obfuscated
      <3> HIDE DEF g, r
      <3>2. \E k \in DOMAIN e : e[k].code \in Gql!LibraryCodes /\ r = Gql!Told(e[k].texts, e[k].code)
        BY <1>1, <2>2, <3>1
      <3>3. QED BY <1>1, <1>5, <3>2 DEF p, r
    <2>3. CASE g.code \notin Gql!LibraryCodes
      <3>1. r = Gql!Told({"unexpected"}, "500")
        BY <2>1, <2>3 DEF Gql!Obfuscated
      <3>2. ~(e[1].kind = "gql" /\ e[1].code \in Gql!LibraryCodes)
        BY <1>1, <2>3
      <3>3. QED BY <1>1, <1>5, <3>1, <3>2 DEF p
    <2>4. QED BY <2>2, <2>3
  <1>6. QED BY <1>4, <1>5

(* An error that is on its way has a source, and what is told of it.       *)
LEMMA ErrorIs ==
  ASSUME Gql!Inductive, s5 = "replied"
  PROVE  /\ IsError(s7) /\ s8 = Gql!DefaultErrorPresenter(Gql!OnPath(s7))
         /\ ~s6 => \/ s7[1].kind = "gql" /\ s7[1].code \in Gql!LibraryCodes
                   \/ \E j \in DOMAIN s2 : IsRefusal(s7, s2[j], s1)
  <1>1. /\ s2 \in Chains /\ s8 = Gql!DefaultErrorPresenter(Gql!OnPath(s7))
        /\ \/ s7 \in Failures /\ (s6 \/ s7[1].code \in Gql!LibraryCodes)
           \/ ~s6 /\ \E j \in DOMAIN s2 : s7 = Gql!Verdict(s2[j], s1) /\ s7 # <<>>
    BY DEF Gql!Inductive, Gql!ErrorHasSource
  <1>2. \A j \in DOMAIN s2 : IsRule(s2[j])
    BY <1>1, GqlAssumption DEF IsRule
  <1>3. \A e \in Failures : IsError(e)
    BY GqlAssumption DEF IsError, Gql!LibraryCodes
  <1>4. \A j \in DOMAIN s2 : s7 = Gql!Verdict(s2[j], s1) /\ s7 # <<>> => IsRefusal(s7, s2[j], s1)
    BY <1>2, Refusing
  <1>5. IsError(s7)
    BY <1>1, <1>3, <1>4 DEF IsRefusal
  <1>6. QED BY <1>1, <1>4, <1>5 DEF IsError

(* Who reads what of an error.                                             *)
LEMMA GqlErrors == Gql!Inductive => Gql!NothingLeaks /\ Gql!RefusalIsExplained
  <1> SUFFICES ASSUME Gql!Inductive PROVE Gql!NothingLeaks /\ Gql!RefusalIsExplained
    OBVIOUS
  <1>1. CASE s5 # "replied"
    BY <1>1 DEF Gql!Inductive, Gql!ErrorHasSource, Gql!NothingLeaks, Gql!RefusalIsExplained,
                Gql!Told
  <1>2. CASE s5 = "replied"
    <2>1. IsError(s7)
      BY <1>2, ErrorIs
    <2>2. \A texts, code : /\ Gql!Told(texts, code).texts = texts
                           /\ Gql!Told(texts, code).code = code
      BY DEF Gql!Told
    <2>3. \/ \E k \in DOMAIN s7 : /\ s7[k].kind = "client"
                                  /\ s8.texts = s7[k].texts /\ s8.code = s7[k].code
          \/ /\ Gql!ClientErrors(s7) = {}
             /\ \E k \in DOMAIN s7 : /\ s7[k].code \in Gql!LibraryCodes
                                      /\ s8.texts = s7[k].texts /\ s8.code = s7[k].code
          \/ /\ Gql!ClientErrors(s7) = {} /\ s8.texts = {"unexpected"}
             /\ ~(s7[1].kind = "gql" /\ s7[1].code \in Gql!LibraryCodes)
      BY <1>2, <2>1, <2>2, ErrorIs, Presented
    <2>4. 1 \in DOMAIN s7
      BY <2>1 DEF IsError
    <2>5. Gql!NothingLeaks
      BY <2>3, <2>4 DEF Gql!NothingLeaks
    <2>6. ASSUME s8.code = "500"
          PROVE  /\ \A j \in DOMAIN s7 : s7[j].kind # "client"
                 /\ ~s6 => \E j \in DOMAIN s2 :
                              \/ s1.type \notin Gql!GoTypes[s2[j].directive]
                              \/ s2[j].pattern = "REGEX" /\ s2[j].regexp # "word"
      <3>1. Gql!ClientErrors(s7) = {} /\ ~(s7[1].kind = "gql" /\ s7[1].code \in Gql!LibraryCodes)
        BY <2>1, <2>3, <2>6 DEF IsError, Gql!LibraryCodes
      <3>2. \A j \in DOMAIN s7 : s7[j].kind # "client"
        BY <3>1 DEF Gql!ClientErrors
      <3>3. ~s6 => \E j \in DOMAIN s2 : IsRefusal(s7, s2[j], s1)
        BY <1>2, <3>1, ErrorIs
      <3>4. QED BY <2>4, <3>2, <3>3 DEF IsRefusal, Gql!None
    <2>7. QED BY <1>2, <2>5, <2>6 DEF Gql!RefusalIsExplained
  <1>3. QED BY <1>1, <1>2

(* The directives that have not run are the last of the field's.           *)
LEMMA ChainIsSuffix ==
  ASSUME Gql!Inductive PROVE s3 = SubSeq(s2, Len(s2) - Len(s3) + 1, Len(s2))
  <1> DEFINE R == {s2[j] : j \in DOMAIN s2}
             n == Len(s2) - Len(s3) + 1
             rest == SubSeq(s2, n, Len(s2))
  <1>1. /\ s2 \in Seq(R) /\ s3 \in Seq(R) /\ Len(s3) <= Len(s2)
        /\ \A k \in 1..Len(s3) : s3[k] = s2[Len(s2) - Len(s3) + k]
    BY GqlAssumption DEF Gql!Inductive, Gql!DoneAdmit
  <1> HIDE DEF R
  <1>2. /\ Len(s2) \in Nat /\ Len(s3) \in Nat /\ n \in Int
        /\ \A k \in n..Len(s2) : s2[k] \in R
    BY <1>1, LenProperties
  <1>3. /\ rest \in Seq(R) /\ Len(rest) = Len(s3)
        /\ \A k \in 1..Len(s3) : rest[k] = s2[Len(s2) - Len(s3) + k]
    <2> HIDE DEF n
    <2>1. /\ rest \in Seq(R) /\ Len(rest) = IF n <= Len(s2) THEN Len(s2) - n + 1 ELSE 0
          /\ \A k \in 1..Len(s2) - n + 1 : rest[k] = s2[n + k - 1]
      BY <1>2, SubSeqProperties
    <2>2. Len(s2) - n + 1 = Len(s3) /\ (n <= Len(s2) \/ Len(s3) = 0)
      BY <1>1, <1>2 DEF n
    <2>3. \A k \in 1..Len(s3) : n + k - 1 = Len(s2) - Len(s3) + k
      BY <1>2 DEF n
    <2> HIDE DEF rest
    <2>4. Len(rest) = Len(s3)
      BY <2>1, <2>2
    <2>5. QED BY <2>1, <2>2, <2>3, <2>4
  <1> HIDE DEF rest
  <1>4. s3 = rest
    BY <1>1, <1>3, SeqEqual
  <1>5. QED BY <1>4 DEF rest, n

(* The client is told a code, once it is told anything.                    *)
LEMMA GqlTyped == ASSUME Gql!Inductive PROVE Gql!TypeOK
  <1>1. /\ s1 \in Fields /\ s2 \in Chains /\ s4 \in Times /\ s6 \in BOOLEAN
        /\ s5 \in {"running", "resolved", "failed", "replied"} /\ Gql!ErrorHasSource
    BY DEF Gql!Inductive
  <1>2. s1.type \in {"absent", "nil"} \cup UNION {Gql!GoTypes[d] : d \in DOMAIN Gql!GoTypes}
    <2>1. DOMAIN Gql!GoTypes = {"string", "date", "decimal", "int", "array"}
      BY DEF Gql!GoTypes
    <2>2. s1.type \in {"absent", "nil", "string", "time", "int", "number", "decimal", "list"}
      BY <1>1, GqlAssumption
    <2>3. {"string", "time", "int", "number", "decimal", "list"}
            \subseteq UNION {Gql!GoTypes[d] : d \in {"string", "date", "decimal", "int", "array"}}
      BY TypesOf DEF Gql!StringTypes, Gql!DateTypes, Gql!DecimalTypes, Gql!IntTypes,
                     Gql!ArrayTypes
    <2>4. QED BY <2>1, <2>2, <2>3
  <1>3. s7 = <<>> <=> s5 \in {"running", "resolved"}
    <2>1. \A e \in Failures : e # <<>>
      BY GqlAssumption
    <2>2. QED BY <1>1, <2>1 DEF Gql!ErrorHasSource
  <1>4. s8.code = Gql!None <=> s5 # "replied"
    <2>1. \A texts, code : Gql!Told(texts, code).code = code
      BY DEF Gql!Told
    <2>2. CASE s5 # "replied"
      BY <1>1, <2>1, <2>2 DEF Gql!ErrorHasSource
    <2>3. CASE s5 = "replied"
      <3>1. IsError(s7) /\ s8 = Gql!DefaultErrorPresenter(Gql!OnPath(s7))
        BY <2>3, ErrorIs
      <3>2. \/ \E k \in DOMAIN s7 : s7[k].kind = "client" /\ s8.code = s7[k].code
            \/ s8.code \in Gql!LibraryCodes
            \/ s8.code = "500"
        BY <2>1, <3>1, Presented
      <3>3. QED BY <2>3, <3>1, <3>2 DEF IsError, Gql!None, Gql!LibraryCodes
    <2>4. QED BY <2>2, <2>3
  <1>5. QED BY <1>1, <1>2, <1>3, <1>4, ChainIsSuffix DEF Gql!TypeOK

-----------------------------------------------------------------------------
(* Accounts.                                                               *)

(* Accounts: nobody was asked anything yet.                                *)
LEMMA AccountsInit == Accounts!Init => Accounts!Inductive
  BY AccountsAssumption
  DEF Accounts!Init, Accounts!Inductive, Accounts!TypeOK, Accounts!SliceHasEmail,
      Accounts!EmailIsTheirOwn, Accounts!GivenShared, Accounts!Slices, Accounts!Shared

(* A slice that is passed on stays its caller's.                           *)
LEMMA AccountsStep ==
  ASSUME Accounts!Inductive, [Accounts!Next]_Accounts!vars PROVE Accounts!Inductive'
  <1> USE AccountsAssumption
      DEF Accounts!TypeOK, Accounts!SliceHasEmail, Accounts!EmailIsTheirOwn, Accounts!Inductive,
          Accounts!GivenShared, Accounts!Slices, Accounts!Shared, Accounts!Whats,
          Accounts!Ends, Accounts!Asks
  <1>1. CASE UNCHANGED Accounts!vars
    BY <1>1 DEF Accounts!vars
  <1>2. ASSUME NEW c \in Administered, Accounts!AdminCreateUser(c) PROVE Accounts!Inductive'
    <2> DEFINE u == s2[c].user
               e == s3[Accounts!Appended(c, s2[c].slice)]
    <2>1. /\ s4[c] = "appended" /\ u \in User /\ s2[c].what = "create"
          /\ UNCHANGED <<s2, s3>>
      BY <1>2 DEF Accounts!AdminCreateUser
    <2>2. /\ e \in User
          /\ e # u => Accounts!GivenShared(u) /\ Accounts!GivenShared(e)
      BY <2>1 DEF Accounts!Appended
    <2>3. CASE s1[u] = Nothing
      <3>1. s1' = [s1 EXCEPT ![u] = [email |-> e, password |-> c]]
        BY <1>2, <2>3 DEF Accounts!AdminCreateUser, Accounts!Created
      <3>2. PICK how \in {"ok", "error"} : s4' = [s4 EXCEPT ![c] = how]
        BY <1>2, <2>3 DEF Accounts!AdminCreateUser
      <3> HIDE DEF e
      <3>3. /\ [email |-> e, password |-> c] \in [email : User, password : Administered]
            /\ s1'[u] = [email |-> e, password |-> c] /\ s1'[u].email = e /\ s1'[u] # Nothing
            /\ \A v \in User : v # u => s1'[v] = s1[v]
        BY <2>1, <2>2, <3>1
      <3>4. Accounts!TypeOK'
        BY <2>1, <3>1, <3>2, <3>3
      <3>5. Accounts!SliceHasEmail'
        BY <2>1, <3>2
      <3>6. Accounts!EmailIsTheirOwn'
        <4>1. ASSUME NEW v \in User, s1'[v] # Nothing, s1'[v].email # v
              PROVE  (Accounts!GivenShared(v) /\ Accounts!GivenShared(s1[v].email))'
          <5>1. CASE v = u
            BY <2>1, <2>2, <3>3, <4>1, <5>1
          <5>2. CASE v # u
            BY <2>1, <3>3, <4>1, <5>2
          <5>3. QED BY <5>1, <5>2
        <4>2. \A d \in Administered : s4'[d] = "ok" => s1'[s2'[d].user] # Nothing
          <5>1. ASSUME NEW d \in Administered, s4'[d] = "ok" PROVE s1'[s2'[d].user] # Nothing
            <6>1. CASE d = c
              BY <2>1, <3>3, <6>1
            <6>2. CASE d # c
              <7>1. s4[d] = "ok" /\ s2'[d] = s2[d]
                BY <2>1, <3>2, <5>1, <6>2
              <7>2. s1[s2[d].user] # Nothing
                BY <7>1
              <7>3. CASE s2[d].user = u
                BY <7>1, <7>3, <3>3
              <7>4. CASE s2[d].user # u
                BY <7>1, <7>2, <7>4, <3>1
              <7>5. QED BY <7>3, <7>4
            <6>3. QED BY <6>1, <6>2
          <5>2. QED BY <5>1
        <4>3. QED BY <4>1, <4>2
      <3>7. QED BY <3>4, <3>5, <3>6
    <2>4. CASE s1[u] # Nothing
      BY <1>2, <2>4 DEF Accounts!AdminCreateUser
    <2>5. QED BY <2>3, <2>4
  <1>3. ASSUME NEW c \in Administered, NEW u \in User, NEW given \in {Accounts!Shared, c},
               Accounts!AppendEmail(c, u, given) PROVE Accounts!Inductive'
    BY <1>3 DEF Accounts!AppendEmail, Accounts!Appended
  <1>4. ASSUME NEW c \in Administered, NEW u \in User, Accounts!AdminGetUser(c, u)
        PROVE  Accounts!Inductive'
    BY <1>4 DEF Accounts!AdminGetUser
  <1>5. ASSUME NEW c \in Administered, NEW u \in User, Accounts!RequestFails(c, u)
        PROVE  Accounts!Inductive'
    BY <1>5 DEF Accounts!RequestFails
  <1>6. ASSUME NEW c \in Administered, NEW u \in User,
               NEW what \in {"resend", "reset"}, Accounts!Asks(c, what, u, c),
               Accounts!SetsPassword(c, u)
        PROVE  Accounts!Inductive'
    BY <1>6 DEF Accounts!SetsPassword
  <1>7. QED BY <1>1, <1>2, <1>3, <1>4, <1>5, <1>6
    DEF Accounts!Next, Accounts!AdminResendTemporaryPassword, Accounts!AdminSetTemporaryPassword

-----------------------------------------------------------------------------
(* The NTP time.                                                           *)

(* Nothing was measured yet.                                               *)
LEMMA NtpInit == ASSUME NtpTime!Init PROVE NtpTime!Inductive
  BY NtpAssumption
  DEF NtpTime!Init, NtpTime!Inductive, NtpTime!TypeOK, NtpTime!QuerierHasMutex,
      NtpTime!StoredIsMeasured, NtpTime!ReadingIsPast,
         NtpTime!OffsetIsFresh, NtpTime!Time, NtpTime!Never

(* The type is kept by every step.                                         *)
LEMMA NtpStepTypeOK == ASSUME NtpTime!Inductive, [NtpTime!Next]_NtpTime!vars PROVE NtpTime!TypeOK'
  <1> USE NtpAssumption DEF NtpTime!Nobody, NtpTime!TypeOK, NtpTime!Time, NtpTime!Never
  <1> NtpTime!TypeOK
    BY DEF NtpTime!Inductive
  <1>1. CASE UNCHANGED NtpTime!vars
    BY <1>1 DEF NtpTime!vars
  <1>2. CASE NtpTime!Tick
    BY <1>2 DEF NtpTime!Tick
  <1>3. ASSUME NEW c \in Caller, NtpTime!Call(c) PROVE NtpTime!TypeOK'
    BY <1>3 DEF NtpTime!Call
  <1>4. ASSUME NEW c \in Caller, NtpTime!UseStored(c) PROVE NtpTime!TypeOK'
    <2> DEFINE answer == <<s1[1] + s3.offset, s3.offset>>
    <2>1. answer \in Int \X (Skew \cup {0})
      <3>0. /\ s1 \in (0..MaxClock) \X Skew
            /\ s3 \in [offset : Skew \cup {0}, refreshed : (0..MaxClock) \cup {-1}]
        OBVIOUS
      <3>1. s1[1] \in Int /\ s3.offset \in Int /\ s3.offset \in Skew \cup {0}
        <4>1. 0..MaxClock \subseteq Int /\ Skew \subseteq Int
          BY ONLY NtpAssumption
        <4>2. s1[1] \in 0..MaxClock
          BY ONLY <3>0
        <4>3. s3.offset \in Skew \cup {0}
          BY ONLY <3>0
        <4>4. \A o \in Skew \cup {0} : o \in Int
          BY ONLY NtpAssumption
        <4>5. s3.offset \in Int
          BY ONLY <4>3, <4>4, Zenon
        <4>6. QED BY ONLY <4>1, <4>2, <4>3, <4>5
      <3>2. s1[1] + s3.offset \in Int
        BY ONLY <3>1
      <3>3. QED BY ONLY <3>1, <3>2
    <2>2. s6' = [s6 EXCEPT ![c] = answer]
      BY <1>4 DEF NtpTime!UseStored, NtpTime!Return
    <2> HIDE DEF answer
    <2>3. s6' \in [Caller -> Int \X (Skew \cup {0})]
      BY <2>1, <2>2
    <2>4. QED BY <1>4, <2>3 DEF NtpTime!UseStored, NtpTime!Return
  <1>5. ASSUME NEW c \in Caller, NtpTime!Query(c) PROVE NtpTime!TypeOK'
    BY <1>5 DEF NtpTime!Query
  <1>6. ASSUME NEW c \in Caller, NtpTime!QueryAnswers(c) PROVE NtpTime!TypeOK'
    <2> DEFINE answer == <<s1[1] + s1[2], s1[2]>>
    <2>1. answer \in Int \X (Skew \cup {0})
      <3>0. s1 \in (0..MaxClock) \X Skew
        OBVIOUS
      <3>1. s1[1] \in Int /\ s1[2] \in Int /\ s1[2] \in Skew \cup {0}
        <4>1. 0..MaxClock \subseteq Int /\ Skew \subseteq Int
          BY ONLY NtpAssumption
        <4>2. s1[1] \in 0..MaxClock /\ s1[2] \in Skew
          BY ONLY <3>0
        <4>3. QED BY ONLY <4>1, <4>2
      <3>2. s1[1] + s1[2] \in Int
        BY ONLY <3>1
      <3>3. QED BY ONLY <3>1, <3>2
    <2>2. s6' = [s6 EXCEPT ![c] = answer]
      BY <1>6 DEF NtpTime!QueryAnswers, NtpTime!Return
    <2> HIDE DEF answer
    <2>3. s6' \in [Caller -> Int \X (Skew \cup {0})]
      BY <2>1, <2>2
    <2>4. QED BY <1>6, <2>3 DEF NtpTime!QueryAnswers, NtpTime!Return
  <1>7. ASSUME NEW c \in Caller, NtpTime!QueryFails(c) PROVE NtpTime!TypeOK'
    BY <1>7 DEF NtpTime!QueryFails
  <1>8. QED BY <1>1, <1>2, <1>3, <1>4, <1>5, <1>6, <1>7 DEF NtpTime!Next

(* Only a caller that finds the mutex free begins a query.                 *)
LEMMA NtpStepMutex ==
  ASSUME NtpTime!Inductive, [NtpTime!Next]_NtpTime!vars
  PROVE  NtpTime!QuerierHasMutex'
  <1> USE NtpAssumption DEF NtpTime!Nobody, NtpTime!TypeOK, NtpTime!QuerierHasMutex
  <1> NtpTime!TypeOK /\ NtpTime!QuerierHasMutex
    BY DEF NtpTime!Inductive
  <1>1. CASE UNCHANGED NtpTime!vars
    BY <1>1 DEF NtpTime!vars
  <1>2. CASE NtpTime!Tick
    BY <1>2 DEF NtpTime!Tick
  <1>3. ASSUME NEW c \in Caller, NtpTime!Call(c) PROVE NtpTime!QuerierHasMutex'
    BY <1>3 DEF NtpTime!Call
  <1>4. ASSUME NEW c \in Caller, NtpTime!UseStored(c) PROVE NtpTime!QuerierHasMutex'
    BY <1>4 DEF NtpTime!UseStored, NtpTime!Return
  <1>5. ASSUME NEW c \in Caller, NtpTime!Query(c) PROVE NtpTime!QuerierHasMutex'
    BY <1>5 DEF NtpTime!Query
  <1>6. ASSUME NEW c \in Caller, NtpTime!QueryAnswers(c) PROVE NtpTime!QuerierHasMutex'
    BY <1>6 DEF NtpTime!QueryAnswers, NtpTime!Return
  <1>7. ASSUME NEW c \in Caller, NtpTime!QueryFails(c) PROVE NtpTime!QuerierHasMutex'
    BY <1>7 DEF NtpTime!QueryFails
  <1>8. QED BY <1>1, <1>2, <1>3, <1>4, <1>5, <1>6, <1>7 DEF NtpTime!Next

(* A query notes the time before it, and measures during it.               *)
LEMMA NtpStepTimes ==
  ASSUME NtpTime!Inductive, [NtpTime!Next]_NtpTime!vars
  PROVE  NtpTime!StoredIsMeasured' /\ NtpTime!ReadingIsPast'
  <1> USE NtpAssumption DEF NtpTime!Nobody, NtpTime!TypeOK, NtpTime!StoredIsMeasured,
                            NtpTime!ReadingIsPast, NtpTime!Time, NtpTime!Never
  <1> NtpTime!TypeOK /\ NtpTime!StoredIsMeasured /\ NtpTime!ReadingIsPast
    BY DEF NtpTime!Inductive
  <1>1. CASE UNCHANGED NtpTime!vars
    BY <1>1 DEF NtpTime!vars
  <1>2. CASE NtpTime!Tick
    BY <1>2 DEF NtpTime!Tick
  <1>3. ASSUME NEW c \in Caller, NtpTime!Call(c)
        PROVE  NtpTime!StoredIsMeasured' /\ NtpTime!ReadingIsPast'
    BY <1>3 DEF NtpTime!Call
  <1>4. ASSUME NEW c \in Caller, NtpTime!UseStored(c)
        PROVE  NtpTime!StoredIsMeasured' /\ NtpTime!ReadingIsPast'
    BY <1>4 DEF NtpTime!UseStored, NtpTime!Return
  <1>5. ASSUME NEW c \in Caller, NtpTime!Query(c)
        PROVE  NtpTime!StoredIsMeasured' /\ NtpTime!ReadingIsPast'
    BY <1>5 DEF NtpTime!Query
  <1>6. ASSUME NEW c \in Caller, NtpTime!QueryAnswers(c)
        PROVE  NtpTime!StoredIsMeasured' /\ NtpTime!ReadingIsPast'
    BY <1>6 DEF NtpTime!QueryAnswers, NtpTime!Return
  <1>7. ASSUME NEW c \in Caller, NtpTime!QueryFails(c)
        PROVE  NtpTime!StoredIsMeasured' /\ NtpTime!ReadingIsPast'
    BY <1>7 DEF NtpTime!QueryFails
  <1>8. QED BY <1>1, <1>2, <1>3, <1>4, <1>5, <1>6, <1>7 DEF NtpTime!Next

(* What a caller returns with is fresh, and what others do leaves it.      *)
LEMMA NtpStepFresh ==
  ASSUME NtpTime!Inductive, [NtpTime!Next]_NtpTime!vars
  PROVE  NtpTime!OffsetIsFresh'
  <1> USE NtpAssumption DEF NtpTime!Nobody, NtpTime!TypeOK, NtpTime!OffsetIsFresh, NtpTime!Time,
                            NtpTime!Never
  <1> NtpTime!TypeOK /\ NtpTime!OffsetIsFresh /\ NtpTime!StoredIsMeasured /\ NtpTime!ReadingIsPast
    BY DEF NtpTime!Inductive
  <1>1. CASE UNCHANGED NtpTime!vars
    BY <1>1 DEF NtpTime!vars
  <1>2. CASE NtpTime!Tick
    BY <1>2 DEF NtpTime!Tick
  <1>3. ASSUME NEW c \in Caller, NtpTime!Call(c) PROVE NtpTime!OffsetIsFresh'
    BY <1>3 DEF NtpTime!Call
  <1>4. ASSUME NEW c \in Caller, NtpTime!UseStored(c) PROVE NtpTime!OffsetIsFresh'
    BY <1>4 DEF NtpTime!UseStored, NtpTime!Return, NtpTime!IsFresh, NtpTime!StoredIsMeasured
  <1>5. ASSUME NEW c \in Caller, NtpTime!Query(c) PROVE NtpTime!OffsetIsFresh'
    BY <1>5 DEF NtpTime!Query
  <1>6. ASSUME NEW c \in Caller, NtpTime!QueryAnswers(c) PROVE NtpTime!OffsetIsFresh'
    BY <1>6 DEF NtpTime!QueryAnswers, NtpTime!Return, NtpTime!ReadingIsPast
  <1>7. ASSUME NEW c \in Caller, NtpTime!QueryFails(c) PROVE NtpTime!OffsetIsFresh'
    BY <1>7 DEF NtpTime!QueryFails
  <1>8. QED BY <1>1, <1>2, <1>3, <1>4, <1>5, <1>6, <1>7 DEF NtpTime!Next

(* All of it, at every step.                                               *)
LEMMA NtpStep ==
  ASSUME NtpTime!Inductive, [NtpTime!Next]_NtpTime!vars PROVE NtpTime!Inductive'
  BY NtpStepTypeOK, NtpStepMutex, NtpStepTimes, NtpStepFresh DEF NtpTime!Inductive

-----------------------------------------------------------------------------
(* Signed links.                                                           *)

(* What division by a positive number leaves.                              *)
LEMMA Remainder ==
  ASSUME NEW x \in Nat, NEW m \in Nat \ {0}
  PROVE  x % m <= x /\ (x < m => x % m = x) /\ x % m \in Nat
  OBVIOUS

(* A duration of a positive number of seconds is no longer than that, and  *)
(* as long if it fits.                                                     *)
LEMMA DurationIs ==
  ASSUME NEW e \in Nat \ {0}
  PROVE  /\ UrlSigner!Duration(e) \in Int /\ UrlSigner!Duration(e) <= e
         /\ e < 2^(DurationBits - 1) => UrlSigner!Duration(e) = e
  <1> DEFINE p == 2^(DurationBits - 1)
  <1>1. p \in Nat \ {0} /\ 2^DurationBits = 2 * p
    BY UrlAssumption
  <1>2. UrlSigner!Duration(e) = ((e + p) % (2 * p)) - p
    BY <1>1 DEF UrlSigner!Duration
  <1> HIDE DEF p
  <1>3. e + p \in Nat /\ 2 * p \in Nat \ {0}
    BY <1>1
  <1>4. /\ (e + p) % (2 * p) <= e + p /\ (e + p) % (2 * p) \in Nat
        /\ e + p < 2 * p => (e + p) % (2 * p) = e + p
    BY <1>3, Remainder
  <1> DEFINE r == (e + p) % (2 * p)
  <1>5. r <= e + p /\ r \in Nat /\ (e + p < 2 * p => r = e + p)
    BY <1>4
  <1>6. UrlSigner!Duration(e) = r - p
    BY <1>2
  <1> HIDE DEF r
  <1>7. UrlSigner!Duration(e) \in Int /\ UrlSigner!Duration(e) <= e /\ (e < p => UrlSigner!Duration(e) = e)
    BY <1>1, <1>5, <1>6
  <1>8. QED BY <1>7 DEF p

(* Links: none was issued yet.                                             *)
LEMMA UrlInit == UrlSigner!Init => UrlSigner!Inductive
  BY UrlAssumption DEF UrlSigner!Init, UrlSigner!Inductive, UrlSigner!IssuedIsSigned

(* What signing a link of some page, time, expiry and signature gives.     *)
LEMMA SigningGives ==
  ASSUME NEW page, NEW at, NEW old, NEW sig, NEW e, NEW t,
         NEW link, link = [page |-> page, at |-> at, expires |-> old, sig |-> sig]
  PROVE  UrlSigner!SignUrlForTime(link, e, t)
           = [page |-> page, at |-> <<UrlSigner!Number(t)>>, expires |-> <<UrlSigner!Number(e)>>,
              sig |-> <<[page |-> UrlSigner!Reparsed(page), at |-> <<UrlSigner!Number(t)>>,
                         expires |-> <<UrlSigner!Number(e)>>, sig |-> sig]>>]
  <1> DEFINE timed == [link EXCEPT !.at = <<UrlSigner!Number(t)>>]
             dated == [timed EXCEPT !.expires = <<UrlSigner!Number(e)>>]
  <1>1. timed = [page |-> page, at |-> <<UrlSigner!Number(t)>>, expires |-> old, sig |-> sig]
    OBVIOUS
  <1>2. UrlSigner!SignUrlForTime(link, e, t)
          = [dated EXCEPT !.sig = <<[dated EXCEPT !.page = UrlSigner!Reparsed(dated.page)]>>]
    BY DEF UrlSigner!SignUrlForTime, UrlSigner!Mac
  <1> HIDE DEF timed
  <1>3. dated = [page |-> page, at |-> <<UrlSigner!Number(t)>>,
                 expires |-> <<UrlSigner!Number(e)>>, sig |-> sig]
    BY <1>1
  <1> HIDE DEF dated
  <1>4. QED BY <1>2, <1>3

(* What a signed link is.                                                  *)
SignedLink(l) == /\ l.page \in Page /\ UrlSigner!Parseable(l.page)
                 /\ UrlSigner!First(l.at) \in Int /\ UrlSigner!First(l.expires) \in Int
                 /\ UrlSigner!IsSigned(l)

(* Signing a link of one page makes a signed link of that page.            *)
LEMMA SigningSigns ==
  ASSUME NEW page \in Page, UrlSigner!Parseable(page),
         NEW at, NEW old, NEW sig, NEW e \in Int, NEW t \in Int,
         NEW link, link = [page |-> page, at |-> at, expires |-> old, sig |-> sig]
  PROVE  SignedLink(UrlSigner!SignUrlForTime(link, e, t))
  <1> DEFINE l == UrlSigner!SignUrlForTime(link, e, t)
             dated == [page |-> UrlSigner!Reparsed(page), at |-> <<UrlSigner!Number(t)>>,
                       expires |-> <<UrlSigner!Number(e)>>, sig |-> sig]
  <1>1. l = [page |-> page, at |-> <<UrlSigner!Number(t)>>, expires |-> <<UrlSigner!Number(e)>>,
             sig |-> <<dated>>]
    BY SigningGives
  <1>2. /\ l.page = page /\ l.at = <<UrlSigner!Number(t)>>
        /\ l.expires = <<UrlSigner!Number(e)>> /\ l.sig = <<dated>>
    BY <1>1
  <1> HIDE DEF l
  <1>3. /\ UrlSigner!First(l.at) = t /\ UrlSigner!First(l.expires) = e
        /\ Head(l.sig).sig = sig
    BY <1>2 DEF UrlSigner!First, UrlSigner!Number
  <1>4. UrlSigner!IsSigned(l)
    BY <1>1, <1>2, <1>3 DEF UrlSigner!IsSigned
  <1>5. QED BY <1>2, <1>3, <1>4 DEF l, SignedLink

(* Every step issues signed links only.                                    *)
LEMMA UrlStep == ASSUME UrlSigner!Inductive, [UrlSigner!Next]_UrlSigner!vars
                 PROVE  UrlSigner!Inductive'
  <1>0. s1 \in 0..MaxTime /\ s1 \in Nat /\ MaxTime \in Nat /\ \A l \in s2 : SignedLink(l)
    BY UrlAssumption DEF UrlSigner!Inductive, UrlSigner!IssuedIsSigned, SignedLink
  <1>1. s1 \div 2 \in Int
    BY <1>0
  <1>2. CASE UNCHANGED UrlSigner!vars
    BY <1>2 DEF UrlSigner!vars, UrlSigner!Inductive, UrlSigner!IssuedIsSigned
  <1>3. CASE UrlSigner!Tick
    BY <1>0, <1>3 DEF UrlSigner!Tick, UrlSigner!Inductive, UrlSigner!IssuedIsSigned
  <1>4. ASSUME NEW l, SignedLink(l), s2' = s2 \cup {l}, s1' = s1
        PROVE  UrlSigner!Inductive'
    BY <1>0, <1>4 DEF UrlSigner!Inductive, UrlSigner!IssuedIsSigned, SignedLink
  <1>5. CASE UrlSigner!Sign
    <2>1. PICK page \in {p \in Page : UrlSigner!Parseable(p)}, e \in Expiry :
            s2' = s2 \cup {UrlSigner!SignUrl(UrlSigner!Plain(page), e)}
      BY <1>5 DEF UrlSigner!Sign
    <2> DEFINE l == UrlSigner!SignUrlForTime(UrlSigner!Plain(page), e, s1 \div 2)
    <2>2. SignedLink(l)
      BY <1>1, SigningSigns, UrlAssumption DEF UrlSigner!Plain
    <2>3. s2' = s2 \cup {l} /\ s1' = s1
      BY <1>5, <2>1 DEF UrlSigner!SignUrl, UrlSigner!Sign
    <2> HIDE DEF l
    <2>4. QED BY <1>4, <2>2, <2>3
  <1>6. CASE UrlSigner!SignAgain
    <2>1. PICK link \in s2, e \in Expiry : s2' = s2 \cup {UrlSigner!SignUrl(link, e)}
      BY <1>6 DEF UrlSigner!SignAgain
    <2> DEFINE l == UrlSigner!SignUrlForTime(link, e, s1 \div 2)
    <2>2. link.page \in Page /\ UrlSigner!Parseable(link.page) /\ UrlSigner!IsSigned(link)
      BY <1>0 DEF SignedLink
    <2>3. PICK at, old, sig : link = [page |-> link.page, at |-> at, expires |-> old, sig |-> sig]
      BY <2>2 DEF UrlSigner!IsSigned
    <2>4. SignedLink(l)
      <3> DEFINE page == link.page
      <3>1. /\ page \in Page /\ UrlSigner!Parseable(page)
            /\ link = [page |-> page, at |-> at, expires |-> old, sig |-> sig]
        BY <2>2, <2>3
      <3> HIDE DEF page
      <3>2. e \in Int
        BY UrlAssumption
      <3>3. QED BY <1>1, <3>1, <3>2, SigningSigns
    <2>5. s2' = s2 \cup {l} /\ s1' = s1
      BY <1>6, <2>1 DEF UrlSigner!SignUrl, UrlSigner!SignAgain
    <2> HIDE DEF l
    <2>6. QED BY <1>4, <2>4, <2>5
  <1>7. QED BY <1>2, <1>3, <1>5, <1>6 DEF UrlSigner!Next

(* A signed link has one time, one expiry and one signature.               *)
LEMMA UrlTyped == ASSUME UrlSigner!Inductive PROVE UrlSigner!TypeOK
  <1>1. ASSUME NEW l \in s2
        PROVE  /\ l.page \in Page /\ Len(l.sig) = 1
               /\ l.at \in Seq(UrlSigner!Written) /\ l.expires \in Seq(UrlSigner!Written)
    <2>1. /\ l.page \in Page /\ UrlSigner!First(l.at) \in Int /\ UrlSigner!First(l.expires) \in Int
          /\ UrlSigner!IsSigned(l)
      BY DEF UrlSigner!Inductive, UrlSigner!IssuedIsSigned
    <2>2. \A n \in Int : UrlSigner!Number(n) \in UrlSigner!Written
      BY DEF UrlSigner!Number, UrlSigner!Written
    <2> DEFINE t == UrlSigner!Number(UrlSigner!First(l.at))
               e == UrlSigner!Number(UrlSigner!First(l.expires))
               mac == [page |-> UrlSigner!Reparsed(l.page), at |-> l.at, expires |-> l.expires,
                       sig |-> Head(l.sig).sig]
               page == l.page
    <2>3. l = [page |-> page, at |-> <<t>>, expires |-> <<e>>, sig |-> <<mac>>]
      BY <2>1 DEF UrlSigner!IsSigned
    <2>4. t \in UrlSigner!Written /\ e \in UrlSigner!Written
      BY <2>1, <2>2
    <2> HIDE DEF t, e, mac, page
    <2>5. l.at = <<t>> /\ l.expires = <<e>> /\ l.sig = <<mac>>
      BY <2>3
    <2>6. QED BY <2>1, <2>4, <2>5
  <1>2. QED BY <1>1 DEF UrlSigner!Inductive, UrlSigner!TypeOK

(* A link has a page, times, expiries and signatures.                      *)
IsLink(l) == l = [page |-> l.page, at |-> l.at, expires |-> l.expires, sig |-> l.sig]

(* What a link is checked against: the MAC of its time and expiry, and of  *)
(* its page parsed again twice.                                            *)
Original(l) == LET unsigned == [l EXCEPT !.sig = <<>>]
               IN  [unsigned EXCEPT !.page = UrlSigner!Reparsed(unsigned.page)]

LEMMA OriginalIs ==
  ASSUME NEW l, IsLink(l)
  PROVE  Original(l) = [page |-> UrlSigner!Reparsed(l.page), at |-> l.at, expires |-> l.expires,
                        sig |-> <<>>]
  <1> DEFINE unsigned == [l EXCEPT !.sig = <<>>]
             page == l.page
             at == l.at
             expires == l.expires
  <1>1. l = [page |-> page, at |-> at, expires |-> expires, sig |-> l.sig]
    BY DEF IsLink
  <1> HIDE DEF page, at, expires
  <1>2. unsigned = [page |-> page, at |-> at, expires |-> expires, sig |-> <<>>]
    BY <1>1
  <1>3. Original(l) = [unsigned EXCEPT !.page = UrlSigner!Reparsed(unsigned.page)]
    BY DEF Original
  <1> HIDE DEF unsigned
  <1>4. Original(l) = [page |-> UrlSigner!Reparsed(page), at |-> at, expires |-> expires,
                       sig |-> <<>>]
    BY <1>2, <1>3
  <1>5. QED BY <1>4 DEF page, at, expires

LEMMA MacIs ==
  ASSUME NEW l, IsLink(l), NEW e, NEW t
  PROVE  Head(UrlSigner!SignUrlForTime(Original(l), e, t).sig)
           = [page |-> UrlSigner!Reparsed(UrlSigner!Reparsed(l.page)),
              at |-> <<UrlSigner!Number(t)>>, expires |-> <<UrlSigner!Number(e)>>, sig |-> <<>>]
  <1> DEFINE page == UrlSigner!Reparsed(l.page)
             original == Original(l)
  <1>1. original = [page |-> page, at |-> l.at, expires |-> l.expires, sig |-> <<>>]
    BY OriginalIs
  <1> HIDE DEF page, original
  <1>2. UrlSigner!SignUrlForTime(original, e, t).sig
          = <<[page |-> UrlSigner!Reparsed(page), at |-> <<UrlSigner!Number(t)>>,
               expires |-> <<UrlSigner!Number(e)>>, sig |-> <<>>]>>
    BY <1>1, SigningGives
  <1>3. QED BY <1>2 DEF page, original

(* When a link passes.                                                     *)
LEMMA VerifyIs ==
  ASSUME NEW l, IsLink(l)
  PROVE  UrlSigner!VerifyUrl(l) = "passes" <=>
           /\ UrlSigner!IsCurrent(l)
           /\ UrlSigner!Parseable(l.page) /\ UrlSigner!Parseable(UrlSigner!Reparsed(l.page))
           /\ Head(l.sig) = [page |-> UrlSigner!Reparsed(UrlSigner!Reparsed(l.page)),
                             at |-> <<UrlSigner!Number(UrlSigner!First(l.at))>>,
                             expires |-> <<UrlSigner!Number(UrlSigner!First(l.expires))>>,
                             sig |-> <<>>]
  <1> DEFINE original == Original(l)
             expected == UrlSigner!SignUrlForTime(original, Head(l.expires).n, Head(l.at).n)
  <1>1. UrlSigner!VerifyUrl(l) =
          IF ~UrlSigner!IsCurrent(l) THEN "refused"
          ELSE IF ~UrlSigner!Parseable(l.page) \/ ~UrlSigner!Parseable(original.page) THEN "panics"
          ELSE IF Head(l.sig) = Head(expected.sig) THEN "passes" ELSE "refused"
    BY DEF UrlSigner!VerifyUrl, Original
  <1>2. original.page = UrlSigner!Reparsed(l.page)
    BY OriginalIs
  <1>3. Head(expected.sig) = [page |-> UrlSigner!Reparsed(UrlSigner!Reparsed(l.page)),
                              at |-> <<UrlSigner!Number(UrlSigner!First(l.at))>>,
                              expires |-> <<UrlSigner!Number(UrlSigner!First(l.expires))>>,
                              sig |-> <<>>]
    BY MacIs DEF UrlSigner!First
  <1> HIDE DEF original, expected
  <1>4. QED BY <1>1, <1>2, <1>3

(* Whatever passes was signed, with this content and for this time.        *)
LEMMA UrlPassed == UrlSigner!Inductive => UrlSigner!PassedWasSigned
  <1> SUFFICES ASSUME UrlSigner!Inductive, NEW link \in UrlSigner!Links,
                      UrlSigner!VerifyUrl(link) = "passes"
               PROVE  \E original \in s2 : UrlSigner!Same(link, original)
                                           /\ s1 <= UrlSigner!Lasts(original)
    BY DEF UrlSigner!PassedWasSigned
  <1>0. PICK l \in s2, page \in Page :
          \E at, old : link = [page |-> page, at |-> at, expires |-> old, sig |-> l.sig]
    BY DEF UrlSigner!Links
  <1>1. PICK at, old : link = [page |-> page, at |-> at, expires |-> old, sig |-> l.sig]
    BY <1>0
  <1>2. s1 \in Nat /\ UrlSigner!First(l.at) \in Int /\ UrlSigner!First(l.expires) \in Int
        /\ UrlSigner!IsSigned(l)
    BY DEF UrlSigner!Inductive, UrlSigner!IssuedIsSigned
  <1> DEFINE a == UrlSigner!First(l.at)
             e == UrlSigner!First(l.expires)
             mac == Head(l.sig)
  <1>3. /\ l.at = <<UrlSigner!Number(a)>> /\ l.expires = <<UrlSigner!Number(e)>>
        /\ mac.page = UrlSigner!Reparsed(l.page) /\ mac.at = l.at /\ mac.expires = l.expires
        /\ link = [page |-> page, at |-> at, expires |-> old, sig |-> l.sig]
    BY <1>1, <1>2 DEF UrlSigner!IsSigned
  <1> DEFINE n == UrlSigner!First(at)
             m == UrlSigner!First(old)
             covered == UrlSigner!Reparsed(UrlSigner!Reparsed(page))
  <1>4. link.page = page /\ link.at = at /\ link.expires = old /\ link.sig = l.sig
    BY <1>3
  <1>5. IsLink(link)
    BY <1>3 DEF IsLink
  <1>6. /\ UrlSigner!IsCurrent(link)
        /\ mac = [page |-> covered, at |-> <<UrlSigner!Number(n)>>,
                  expires |-> <<UrlSigner!Number(m)>>, sig |-> <<>>]
    BY <1>4, <1>5, VerifyIs
  <1>7. /\ UrlSigner!Parses(at) /\ UrlSigner!Parses(old) /\ m >= 1
        /\ ~UrlSigner!IsExpired(n, m)
    BY <1>4, <1>6 DEF UrlSigner!IsCurrent, UrlSigner!First
  <1> HIDE DEF n, m, mac, a, e, covered
  <1>8. mac.page = covered /\ mac.at = <<UrlSigner!Number(n)>> /\ mac.expires = <<UrlSigner!Number(m)>>
    BY <1>6
  <1>9. covered = UrlSigner!Reparsed(l.page) /\ n = a /\ m = e
    <2>1. UrlSigner!Number(n) = UrlSigner!Number(a) /\ UrlSigner!Number(m) = UrlSigner!Number(e)
      BY <1>3, <1>8
    <2>2. QED BY <1>3, <1>8, <2>1 DEF UrlSigner!Number
  <1>10. a \in Int /\ e \in Nat \ {0}
    BY <1>2, <1>7, <1>9 DEF a, e
  <1>11. s1 <= 2 * (a + UrlSigner!Duration(e))
    BY <1>2, <1>7, <1>9, <1>10, DurationIs DEF UrlSigner!IsExpired
  <1>12. s1 <= UrlSigner!Lasts(l)
    BY <1>2, <1>10, <1>11, DurationIs DEF UrlSigner!Lasts, a, e
  <1>13. UrlSigner!Same(link, l)
    BY <1>4, <1>7, <1>9 DEF UrlSigner!Same, n, m, a, e, covered
  <1>14. QED BY <1>12, <1>13

(* What parsing a page again takes off.                                    *)
LEMMA ReparsedIs ==
  ASSUME NEW page \in Page
  PROVE  /\ UrlSigner!Reparsed(page) \in [before : Seq(STRING), path : STRING]
         /\ page.before = <<>> => UrlSigner!Reparsed(page) = page
         /\ page.before # <<>> => Len(UrlSigner!Reparsed(page).before) = Len(page.before) - 1
  <1>1. page \in [before : Seq(STRING), path : STRING]
    BY UrlAssumption
  <1> DEFINE s == page.before
  <1>2. s \in Seq(STRING) /\ page = [before |-> s, path |-> page.path] /\ page.path \in STRING
    BY <1>1
  <1>3. CASE s = <<>>
    BY <1>1, <1>3 DEF UrlSigner!Reparsed
  <1>4. CASE s # <<>>
    <2>1. UrlSigner!Reparsed(page) = [page EXCEPT !.before = Tail(s)]
      BY <1>4 DEF UrlSigner!Reparsed
    <2>2. Tail(s) \in Seq(STRING) /\ Len(Tail(s)) = Len(s) - 1
      BY <1>2, <1>4, HeadTailProperties
    <2> HIDE DEF s
    <2>3. /\ UrlSigner!Reparsed(page) = [before |-> Tail(s), path |-> page.path]
          /\ UrlSigner!Reparsed(page).before = Tail(s)
      BY <1>2, <2>1
    <2>4. QED BY <1>2, <1>4, <2>2, <2>3 DEF s
  <1>5. QED BY <1>3, <1>4

(* Replacing the segments of a page.                                       *)
LEMMA BeforeReplaced ==
  ASSUME NEW b, NEW q, NEW t
  PROVE  [[before |-> b, path |-> q] EXCEPT !.before = t].before = t
  OBVIOUS

(* Parsing a page twice more leaves what parsing it once more does if at   *)
(* most one piece comes off.                                               *)
LEMMA ReparsedTwice ==
  ASSUME NEW page \in Page
  PROVE  LET again == UrlSigner!Reparsed(page)
         IN  /\ UrlSigner!Reparsed(again) = again <=> Len(page.before) <= 1
             /\ Len(page.before) <= 1 => UrlSigner!Parseable(again)
  <1> DEFINE again == UrlSigner!Reparsed(page)
             s == page.before
             r == again.before
  <1>1. /\ again \in [before : Seq(STRING), path : STRING]
        /\ s = <<>> => again = page
        /\ s # <<>> => Len(r) = Len(s) - 1
    BY ReparsedIs
  <1>2. s \in Seq(STRING) /\ r \in Seq(STRING)
    BY <1>1, UrlAssumption
  <1>3. /\ r = <<>> => UrlSigner!Reparsed(again) = again /\ UrlSigner!Parseable(again)
        /\ r # <<>> => UrlSigner!Reparsed(again) = [again EXCEPT !.before = Tail(r)]
    BY DEF UrlSigner!Reparsed, UrlSigner!Parseable
  <1>4. r # <<>> => UrlSigner!Reparsed(again) # again
    <2> SUFFICES ASSUME r # <<>>, UrlSigner!Reparsed(again) = again PROVE FALSE
      OBVIOUS
    <2>1. PICK q : again = [before |-> r, path |-> q]
      BY <1>1
    <2>2. UrlSigner!Reparsed(again) = [again EXCEPT !.before = Tail(r)]
      BY <1>3
    <2>3. Len(Tail(r)) = Len(r) - 1 /\ Len(r) \in Nat
      BY <1>2, HeadTailProperties, LenProperties
    <2> HIDE DEF r, again
    <2>4. Tail(r) = r
      <3>1. [[before |-> r, path |-> q] EXCEPT !.before = Tail(r)].before = Tail(r)
        BY BeforeReplaced
      <3>2. [again EXCEPT !.before = Tail(r)].before = Tail(r)
        BY <2>1, <3>1
      <3>3. again.before = Tail(r)
        BY <2>2, <3>2
      <3>4. QED BY <3>3 DEF r
    <2>5. QED BY <2>3, <2>4
  <1>5. Len(s) \in Nat /\ Len(r) \in Nat /\ (s = <<>> <=> Len(s) = 0) /\ (r = <<>> <=> Len(r) = 0)
    BY <1>2, LenProperties, EmptySeq
  <1>6. r = <<>> <=> Len(s) <= 1
    BY <1>1, <1>5
  <1>7. QED BY <1>3, <1>4, <1>6

(* A link that was signed once passes until its time is over, exactly if   *)
(* its page is the same parsed again once more.                            *)
LEMMA UrlPasses == UrlSigner!Inductive => UrlSigner!SignedPasses
  <1> SUFFICES ASSUME UrlSigner!Inductive, NEW l \in s2, UrlSigner!Fresh(l),
                      UrlSigner!First(l.expires) \in 1..(2^(DurationBits - 1) - 1),
                      s1 <= UrlSigner!Lasts(l)
               PROVE  UrlSigner!VerifyUrl(l) = "passes" <=> Len(l.page.before) <= 1
    BY DEF UrlSigner!SignedPasses
  <1> DEFINE a == UrlSigner!First(l.at)
             e == UrlSigner!First(l.expires)
             again == UrlSigner!Reparsed(l.page)
             twice == UrlSigner!Reparsed(again)
  <1>1. /\ s1 \in Nat /\ a \in Int /\ e \in Int /\ UrlSigner!IsSigned(l)
        /\ l.page \in Page /\ UrlSigner!Parseable(l.page)
    BY DEF UrlSigner!Inductive, UrlSigner!IssuedIsSigned
  <1>2. /\ l.at = <<UrlSigner!Number(a)>> /\ l.expires = <<UrlSigner!Number(e)>>
        /\ l = [page |-> l.page, at |-> l.at, expires |-> l.expires, sig |-> l.sig]
        /\ l.sig # <<>>
        /\ Head(l.sig) = [page |-> again, at |-> l.at, expires |-> l.expires, sig |-> <<>>]
    BY <1>1 DEF UrlSigner!IsSigned, UrlSigner!Fresh
  <1>3. e \in Nat \ {0} /\ e < 2^(DurationBits - 1)
    BY UrlAssumption
  <1>4. s1 <= 2 * (a + e)
    BY DEF UrlSigner!Lasts
  <1>5. UrlSigner!VerifyUrl(l) = "passes" <=>
          /\ UrlSigner!IsCurrent(l)
          /\ UrlSigner!Parseable(l.page) /\ UrlSigner!Parseable(again)
          /\ Head(l.sig) = [page |-> twice, at |-> <<UrlSigner!Number(a)>>,
                            expires |-> <<UrlSigner!Number(e)>>, sig |-> <<>>]
    BY <1>2, VerifyIs DEF IsLink
  <1>6. (twice = again <=> Len(l.page.before) <= 1)
        /\ (Len(l.page.before) <= 1 => UrlSigner!Parseable(again))
    BY <1>1, ReparsedTwice
  <1> HIDE DEF a, e, again, twice
  <1>7. UrlSigner!Parses(l.at) /\ UrlSigner!Parses(l.expires)
        /\ Head(l.at).n = a /\ Head(l.expires).n = e
    BY <1>2 DEF UrlSigner!Parses, UrlSigner!Number
  <1>8. ~UrlSigner!IsExpired(a, e)
    BY <1>1, <1>3, <1>4, DurationIs DEF UrlSigner!IsExpired
  <1>9. UrlSigner!IsCurrent(l)
    BY <1>2, <1>3, <1>7, <1>8 DEF UrlSigner!IsCurrent
  <1>10. twice = again <=> Head(l.sig) = [page |-> twice, at |-> <<UrlSigner!Number(a)>>,
                                          expires |-> <<UrlSigner!Number(e)>>, sig |-> <<>>]
    BY <1>2
  <1>11. QED BY <1>1, <1>5, <1>6, <1>9, <1>10

-----------------------------------------------------------------------------
(* Tokens.                                                                 *)

(* Jwt: no request has a token yet.                                        *)
LEMMA JwtInit == Jwt!Init => Jwt!Inductive
  BY DEF Jwt!Init, Jwt!Inductive, Jwt!TypeOK, Jwt!TokenIsOwn, Jwt!SeenIsSigned

(* The two answers to a token that fails.                                  *)
LEMMA JwtAnswers == /\ <<"JWT error">> \in Seq({"JWT has expired", "JWT error"})
                    /\ <<"JWT has expired", "JWT error">>
                         \in Seq({"JWT has expired", "JWT error"})
  OBVIOUS

(* Requests keep their type.                                               *)
LEMMA JwtType == ASSUME Jwt!TypeOK, [Jwt!Next]_Jwt!vars PROVE Jwt!TypeOK'
  <1> USE DEF Jwt!TypeOK, Jwt!Goto
  <1>1. CASE UNCHANGED Jwt!vars
    BY <1>1 DEF Jwt!vars
  <1>2. CASE Jwt!GetOidcConfig \/ Jwt!DownloadKeys
    BY <1>2 DEF Jwt!GetOidcConfig, Jwt!DownloadKeys
  <1>3. ASSUME NEW r \in Request, Jwt!ArriveUnchecked(r) PROVE Jwt!TypeOK'
    BY <1>3 DEF Jwt!ArriveUnchecked
  <1>4. ASSUME NEW r \in Request, Jwt!ArriveAnonymous(r) PROVE Jwt!TypeOK'
    BY <1>4 DEF Jwt!ArriveAnonymous
  <1>5. ASSUME NEW r \in Request, Jwt!Decode(r) PROVE Jwt!TypeOK'
    <2>1. PICK t \in Tokens : s2' = [s2 EXCEPT ![r] = t] /\ s4' = [s4 EXCEPT ![r] = t.claims]
      BY <1>5 DEF Jwt!Decode, Jwt!NewClaims
    <2>2. t.claims \in Jwt!Claims
      BY DEF Jwt!Claims
    <2>3. s4' \in [Request -> Jwt!Claims \cup {Nothing}]
      BY <2>1, <2>2
    <2>4. QED BY <1>5, <2>1, <2>3 DEF Jwt!Decode
  <1>6. ASSUME NEW r \in Request, Jwt!Verify(r) PROVE Jwt!TypeOK'
    BY <1>6 DEF Jwt!Verify
  <1>7. ASSUME NEW r \in Request, Jwt!VerifyFails(r) PROVE Jwt!TypeOK'
    BY <1>7, JwtAnswers DEF Jwt!VerifyFails, Jwt!Refuse
  <1>8. ASSUME NEW r \in Request, Jwt!Validate(r) PROVE Jwt!TypeOK'
    <2>1. CASE Jwt!Goto(r, "claims") /\ UNCHANGED <<s1, s2, s4, s5, s6>>
      BY <2>1
    <2>2. ASSUME NEW errors \in Seq({"JWT has expired", "JWT error"}), Jwt!Refuse(r, errors)
          PROVE  Jwt!TypeOK'
      BY <2>2 DEF Jwt!Refuse
    <2>3. QED BY <1>8, <2>1, <2>2, JwtAnswers DEF Jwt!Validate
  <1>9. ASSUME NEW r \in Request, Jwt!ReadClaims(r) PROVE Jwt!TypeOK'
    BY <1>9 DEF Jwt!ReadClaims, Jwt!NewClaims
  <1>10. ASSUME NEW r \in Request, Jwt!JwtFromContext(r) PROVE Jwt!TypeOK'
    BY <1>10 DEF Jwt!JwtFromContext
  <1>11. QED BY <1>1, <1>2, <1>3, <1>4, <1>5, <1>6, <1>7, <1>8, <1>9, <1>10 DEF Jwt!Next

(* Claims that pass the validator are for now, this issuer and audience.   *)
LEMMA ValidatedIsValid ==
  ASSUME NEW t \in Tokens, Jwt!Signed(t),
         ~Jwt!Expired(t.claims), ~Jwt!Early(t.claims), Jwt!Expected(t.claims)
  PROVE  Jwt!Valid(t)
  <1>1. \A end \in t.claims.until : Now < end + Leeway
    BY JwtAssumption DEF Jwt!Expired
  <1>2. \A start \in t.claims.from : Now + Leeway >= start
    BY JwtAssumption DEF Jwt!Early
  <1>3. QED BY <1>1, <1>2 DEF Jwt!Valid, Jwt!Signed, Jwt!KeyOf, Jwt!IsKeyOf, Jwt!Expected

(* A request's claims are of its own token, that was verified.             *)
LEMMA JwtStep == ASSUME Jwt!Inductive, [Jwt!Next]_Jwt!vars PROVE Jwt!Inductive'
  <1> USE DEF Jwt!TypeOK, Jwt!TokenIsOwn, Jwt!SeenIsSigned, Jwt!Goto
  <1> Jwt!TypeOK /\ Jwt!TokenIsOwn /\ Jwt!SeenIsSigned
    BY DEF Jwt!Inductive
  <1> DEFINE Q == Jwt!TokenIsOwn /\ Jwt!SeenIsSigned
  <1> SUFFICES Q'
    BY JwtType DEF Jwt!Inductive
  <1>1. CASE UNCHANGED Jwt!vars
    BY <1>1 DEF Jwt!vars
  <1>2. CASE Jwt!GetOidcConfig \/ Jwt!DownloadKeys
    BY <1>2 DEF Jwt!GetOidcConfig, Jwt!DownloadKeys
  <1>3. ASSUME NEW r \in Request, Jwt!ArriveUnchecked(r) PROVE Q'
    BY <1>3 DEF Jwt!ArriveUnchecked
  <1>4. ASSUME NEW r \in Request, Jwt!ArriveAnonymous(r) PROVE Q'
    BY <1>4 DEF Jwt!ArriveAnonymous
  <1>5. ASSUME NEW r \in Request, Jwt!Decode(r) PROVE Q'
    BY <1>5 DEF Jwt!Decode, Jwt!NewClaims, Jwt!Claims
  <1>6. ASSUME NEW r \in Request, Jwt!Verify(r) PROVE Q'
    BY <1>6 DEF Jwt!Verify
  <1>7. ASSUME NEW r \in Request, Jwt!VerifyFails(r) PROVE Q'
    BY <1>7 DEF Jwt!VerifyFails, Jwt!Refuse
  <1>8. ASSUME NEW r \in Request, Jwt!Validate(r) PROVE Q'
    BY <1>8, ValidatedIsValid DEF Jwt!Validate, Jwt!Refuse, Jwt!NewClaims
  <1>9. ASSUME NEW r \in Request, Jwt!ReadClaims(r) PROVE Q'
    BY <1>9 DEF Jwt!ReadClaims, Jwt!NewClaims
  <1>10. ASSUME NEW r \in Request, Jwt!JwtFromContext(r) PROVE Q'
    BY <1>10 DEF Jwt!JwtFromContext
  <1>11. QED BY <1>1, <1>2, <1>3, <1>4, <1>5, <1>6, <1>7, <1>8, <1>9, <1>10 DEF Jwt!Next

-----------------------------------------------------------------------------
(* Captchas.                                                               *)

(* Captcha: nobody was asked yet.                                          *)
LEMMA CaptchaInit == Captcha!Init => Captcha!Inductive
  BY DEF Captcha!Init, Captcha!Inductive, Captcha!TypeOK, Captcha!AskedIsOfForm,
         Captcha!PassedIsVouched

(* What was asked about is the form's.                                     *)
LEMMA CaptchaStep ==
  ASSUME Captcha!Inductive, [Captcha!Next]_Captcha!vars PROVE Captcha!Inductive'
  <1> USE DEF Captcha!Inductive, Captcha!TypeOK, Captcha!AskedIsOfForm, Captcha!PassedIsVouched
  <1>1. CASE UNCHANGED Captcha!vars
    BY <1>1 DEF Captcha!vars
  <1>2. CASE Captcha!MissingToken
    BY <1>2 DEF Captcha!MissingToken
  <1>3. CASE Captcha!Ask
    <2>1. s2' \in s1.tokens
      BY <1>3 DEF Captcha!Ask, Captcha!Chosen
    <2>2. s1.tokens \subseteq Captcha!Services
      BY DEF Captcha!Forms, Captcha!Services
    <2>3. s2' # "nobody" /\ s3' \in Captcha!Replies /\ UNCHANGED <<s1, s4>>
      BY <1>3, <2>1, <2>2 DEF Captcha!Ask, Captcha!Services
    <2>4. s4 \notin {"ok", "panicked"}
      BY <1>3 DEF Captcha!Ask
    <2>5. QED BY <2>1, <2>2, <2>3, <2>4
  <1>4. CASE Captcha!Judge
    <2> DEFINE answer == s3.body
    <2>1. /\ s2 \in Captcha!Services /\ s3 \in Captcha!Replies /\ s2 \in s1.tokens
          /\ UNCHANGED <<s1, s2, s3>> /\ answer \in Captcha!Bodies
      BY <1>4 DEF Captcha!Judge, Captcha!Replies
    <2>2. CASE s3.arrives \notin Captcha!Readable
      <3>1. s4' = "error"
        BY <1>4, <2>2 DEF Captcha!Judge
      <3>2. QED BY <2>1, <3>1
    <2>3. CASE s3.arrives \in Captcha!Readable
      <3>1. s4' = Captcha!Verdict(answer)
        BY <1>4, <2>3 DEF Captcha!Judge
      <3>2. s3.arrives \notin {"cut", "never"}
        BY <2>3 DEF Captcha!Readable
      <3>3. CASE s2 = "v2"
        BY <2>1, <3>1, <3>2, <3>3 DEF Captcha!Verdict
      <3>4. CASE s2 = "v3"
        BY <2>1, <3>1, <3>2, <3>4 DEF Captcha!Verdict, Captcha!V3Passes
      <3>5. CASE s2 = "turnstile"
        <4>1. s4' = Captcha!TurnstileResult(answer)
          BY <3>1, <3>5 DEF Captcha!Verdict
        <4>2. answer.success \in BOOLEAN /\ answer.action \in Action \cup {Nothing}
          BY <2>1 DEF Captcha!Bodies
        <4>3. s1.action \in Action
          BY DEF Captcha!Forms
        <4>4. CASE ~answer.success
          BY <2>1, <3>5, <4>1, <4>4 DEF Captcha!TurnstileResult
        <4>5. CASE answer.success /\ answer.action = Nothing
          BY <2>1, <3>5, <4>1, <4>3, <4>5, CaptchaAssumption DEF Captcha!TurnstileResult
        <4>6. CASE answer.success /\ answer.action \in Action \ {s1.action}
          BY <2>1, <3>5, <4>1, <4>6, CaptchaAssumption DEF Captcha!TurnstileResult
        <4>7. CASE answer.success /\ answer.action = s1.action
          BY <2>1, <3>2, <3>5, <4>1, <4>3, <4>7, CaptchaAssumption DEF Captcha!TurnstileResult
        <4>8. QED BY <4>2, <4>4, <4>5, <4>6, <4>7
      <3>6. QED BY <2>1, <3>3, <3>4, <3>5 DEF Captcha!Services
    <2>4. QED BY <2>2, <2>3
  <1>5. QED BY <1>1, <1>2, <1>3, <1>4 DEF Captcha!Next

-----------------------------------------------------------------------------
(* Origins.                                                                *)

(* A prefix has the elements of the beginning.                             *)
LEMMA PrefixIs ==
  ASSUME NEW S, NEW s \in Seq(S), NEW t \in Seq(S)
  PROVE  Cors!IsPrefix(s, t) <=> Len(s) <= Len(t) /\ \A i \in 1..Len(s) : s[i] = t[i]
  <1>0. Len(s) \in Nat /\ Len(t) \in Nat
    OBVIOUS
  <1>1. CASE Len(s) > Len(t)
    BY <1>0, <1>1 DEF Cors!IsPrefix
  <1>2. CASE Len(s) <= Len(t)
    <2> DEFINE a == SubSeq(s, 1, Len(s))
               b == SubSeq(t, 1, Len(s))
    <2>1. /\ \A i \in 1..Len(s) : s[i] \in S
          /\ \A i \in 1..Len(s) : t[i] \in S
      BY <1>0, <1>2
    <2>2. a \in Seq(S) /\ Len(a) = Len(s) /\ \A i \in 1..Len(s) : a[i] = s[i]
      BY <1>0, <2>1, SubSeqProperties
    <2>3. b \in Seq(S) /\ Len(b) = Len(s) /\ \A i \in 1..Len(s) : b[i] = t[i]
      BY <1>0, <2>1, SubSeqProperties
    <2> HIDE DEF a, b
    <2>4. a = b <=> \A i \in 1..Len(s) : s[i] = t[i]
      BY <2>2, <2>3, SeqEqual
    <2>5. QED BY <1>2, <2>4 DEF Cors!IsPrefix, a, b
  <1>3. QED BY <1>0, <1>1, <1>2

(* The elements of a sequence, backwards.                                  *)
LEMMA ReverseIs ==
  ASSUME NEW S, NEW s \in Seq(S)
  PROVE  /\ Cors!Reverse(s) \in Seq(S) /\ Len(Cors!Reverse(s)) = Len(s)
         /\ \A i \in 1..Len(s) : Cors!Reverse(s)[i] = s[Len(s) - i + 1]
  <1>1. Len(s) \in Nat /\ \A i \in 1..Len(s) : s[i] \in S /\ Len(s) - i + 1 \in 1..Len(s)
    OBVIOUS
  <1>2. Cors!Reverse(s) \in [1..Len(s) -> S]
    BY <1>1 DEF Cors!Reverse
  <1>3. Cors!Reverse(s) \in Seq(S)
    BY <1>1, <1>2, IsASeq
  <1>4. QED BY <1>1, <1>2, <1>3, LenProperties DEF Cors!Reverse

(* A suffix has those of the end.                                          *)
LEMMA SuffixIs ==
  ASSUME NEW S, NEW s \in Seq(S), NEW t \in Seq(S)
  PROVE  Cors!IsSuffix(s, t) <=> /\ Len(s) <= Len(t)
                                 /\ \A i \in 1..Len(s) : s[i] = t[Len(t) - Len(s) + i]
  <1> DEFINE a == Cors!Reverse(s)
             b == Cors!Reverse(t)
  <1>1. /\ a \in Seq(S) /\ Len(a) = Len(s) /\ \A i \in 1..Len(s) : a[i] = s[Len(s) - i + 1]
        /\ b \in Seq(S) /\ Len(b) = Len(t) /\ \A i \in 1..Len(t) : b[i] = t[Len(t) - i + 1]
        /\ Len(s) \in Nat /\ Len(t) \in Nat
    BY ReverseIs
  <1>2. Cors!IsSuffix(s, t) <=> Len(s) <= Len(t) /\ \A i \in 1..Len(s) : a[i] = b[i]
    BY <1>1, PrefixIs DEF Cors!IsSuffix
  <1> HIDE DEF a, b
  <1>3. ASSUME Len(s) <= Len(t)
        PROVE  (\A i \in 1..Len(s) : a[i] = b[i])
                 <=> \A i \in 1..Len(s) : s[i] = t[Len(t) - Len(s) + i]
    <2>1. ASSUME \A i \in 1..Len(s) : a[i] = b[i], NEW i \in 1..Len(s)
          PROVE  s[i] = t[Len(t) - Len(s) + i]
      <3>1. Len(s) - i + 1 \in 1..Len(s) /\ Len(s) - i + 1 \in 1..Len(t)
        BY <1>1, <1>3
      <3>2. a[Len(s) - i + 1] = s[Len(s) - (Len(s) - i + 1) + 1]
        BY <1>1, <3>1
      <3>3. b[Len(s) - i + 1] = t[Len(t) - (Len(s) - i + 1) + 1]
        BY <1>1, <3>1
      <3>4. /\ Len(s) - (Len(s) - i + 1) + 1 = i
            /\ Len(t) - (Len(s) - i + 1) + 1 = Len(t) - Len(s) + i
        BY <1>1
      <3>5. QED BY <2>1, <3>1, <3>2, <3>3, <3>4
    <2>2. ASSUME \A i \in 1..Len(s) : s[i] = t[Len(t) - Len(s) + i], NEW i \in 1..Len(s)
          PROVE  a[i] = b[i]
      <3>1. Len(s) - i + 1 \in 1..Len(s) /\ i \in 1..Len(t)
        BY <1>1, <1>3
      <3>2. s[Len(s) - i + 1] = t[Len(t) - Len(s) + (Len(s) - i + 1)]
        BY <2>2, <3>1
      <3>3. Len(t) - Len(s) + (Len(s) - i + 1) = Len(t) - i + 1
        BY <1>1
      <3>4. QED BY <1>1, <3>1, <3>2, <3>3
    <2>3. QED BY <2>1, <2>2
  <1>4. QED BY <1>2, <1>3

(* A string begins with b and ends with a, the two apart, just if it is b, *)
(* a part of its own and a.                                                *)
LEMMA MiddleIs ==
  ASSUME NEW S, NEW t \in Seq(S), NEW b \in Seq(S), NEW a \in Seq(S)
  PROVE  /\ (\E middle \in Cors!Substrings(t) : t = b \o middle \o a)
              => Cors!IsPrefix(b, t) /\ Cors!IsSuffix(a, t)
         /\ Cors!IsPrefix(b, t) /\ Cors!IsSuffix(a, t) /\ Len(b) + Len(a) <= Len(t)
              => \E middle \in Cors!Substrings(t) : t = b \o middle \o a
  <1>0. Len(t) \in Nat /\ Len(b) \in Nat /\ Len(a) \in Nat
    OBVIOUS
  <1>1. ASSUME NEW middle \in Cors!Substrings(t), t = b \o middle \o a
        PROVE  Cors!IsPrefix(b, t) /\ Cors!IsSuffix(a, t)
    <2>1. PICK i \in 1..Len(t) + 1, j \in 0..Len(t) : middle = SubSeq(t, i, j)
      BY <1>1 DEF Cors!Substrings
    <2>2. i \in Int /\ j \in Int /\ \A k \in i..j : t[k] \in S
      BY <1>0
    <2>3. middle \in Seq(S) /\ Len(middle) \in Nat
      BY <2>1, <2>2, SubSeqProperties, LenProperties
    <2> DEFINE bm == b \o middle
    <2>4. /\ bm \in Seq(S) /\ Len(bm) = Len(b) + Len(middle)
          /\ \A k \in 1..Len(bm) : bm[k] = IF k <= Len(b) THEN b[k] ELSE middle[k - Len(b)]
      BY <2>3, ConcatProperties
    <2> HIDE DEF bm
    <2>5. /\ t = bm \o a /\ Len(t) = Len(bm) + Len(a)
          /\ \A k \in 1..Len(t) : t[k] = IF k <= Len(bm) THEN bm[k] ELSE a[k - Len(bm)]
      <3> DEFINE c == bm \o a
      <3>1. t = c
        BY <1>1 DEF bm
      <3>2. /\ Len(c) = Len(bm) + Len(a)
            /\ \A k \in 1..Len(bm) + Len(a) :
                 c[k] = IF k <= Len(bm) THEN bm[k] ELSE a[k - Len(bm)]
        BY <2>4, ConcatProperties
      <3>3. t = bm \o a
        BY <3>1
      <3> HIDE DEF c
      <3>4. QED BY <3>1, <3>2, <3>3
    <2>6. \A k \in 1..Len(b) : b[k] = t[k]
      BY <1>0, <2>3, <2>4, <2>5
    <2>7. \A k \in 1..Len(a) : a[k] = t[Len(t) - Len(a) + k]
      BY <1>0, <2>3, <2>4, <2>5
    <2>8. Len(b) <= Len(t) /\ Len(a) <= Len(t)
      BY <1>0, <2>3, <2>4, <2>5
    <2>9. Cors!IsPrefix(b, t)
      BY <2>6, <2>8, PrefixIs
    <2>10. Cors!IsSuffix(a, t)
      BY <2>7, <2>8, SuffixIs
    <2>11. QED BY <2>9, <2>10
  <1>2. ASSUME Cors!IsPrefix(b, t), Cors!IsSuffix(a, t), Len(b) + Len(a) <= Len(t)
        PROVE  \E middle \in Cors!Substrings(t) : t = b \o middle \o a
    <2> DEFINE i == Len(b) + 1
               j == Len(t) - Len(a)
               middle == SubSeq(t, i, j)
    <2>1. i \in 1..Len(t) + 1 /\ j \in 0..Len(t) /\ i - 1 <= j
      BY <1>0, <1>2
    <2>2. middle \in Cors!Substrings(t)
      <3> HIDE DEF i, j
      <3>1. QED BY <2>1 DEF Cors!Substrings
    <2>3. \A k \in i..j : t[k] \in S
      BY <1>0, <2>1
    <2>4. /\ middle \in Seq(S) /\ Len(middle) = Len(t) - Len(a) - Len(b)
          /\ \A k \in 1..Len(middle) : middle[k] = t[Len(b) + k]
      <3>1. /\ middle \in Seq(S) /\ Len(middle) = IF i <= j THEN j - i + 1 ELSE 0
            /\ \A k \in 1..j - i + 1 : middle[k] = t[i + k - 1]
        BY <1>0, <2>3, SubSeqProperties
      <3>2. (IF i <= j THEN j - i + 1 ELSE 0) = Len(t) - Len(a) - Len(b)
        BY <1>0, <2>1
      <3>3. \A k \in Nat : i + k - 1 = Len(b) + k
        BY <1>0
      <3>4. j - i + 1 = Len(t) - Len(a) - Len(b)
        BY <1>0
      <3> HIDE DEF middle, i, j
      <3>5. QED BY <1>0, <3>1, <3>2, <3>3, <3>4
    <2> HIDE DEF middle
    <2> DEFINE bm == b \o middle
    <2>5. /\ bm \in Seq(S) /\ Len(bm) = Len(b) + Len(middle)
          /\ \A k \in 1..Len(bm) : bm[k] = IF k <= Len(b) THEN b[k] ELSE middle[k - Len(b)]
      BY <2>4, ConcatProperties
    <2> HIDE DEF bm
    <2> DEFINE c == bm \o a
    <2>6. /\ c \in Seq(S) /\ Len(c) = Len(bm) + Len(a)
          /\ \A k \in 1..Len(bm) + Len(a) :
                 c[k] = IF k <= Len(bm) THEN bm[k] ELSE a[k - Len(bm)]
      <3>1. bm \in Seq(S) /\ a \in Seq(S)
        BY <2>5
      <3>2. QED BY ONLY <3>1, ConcatProperties
    <2> HIDE DEF c
    <2>7. /\ \A k \in 1..Len(b) : b[k] = t[k]
          /\ \A k \in 1..Len(a) : a[k] = t[Len(t) - Len(a) + k]
      BY <1>2, PrefixIs, SuffixIs
    <2>8. Len(c) = Len(t)
      BY <1>0, <2>4, <2>5, <2>6
    <2>9. \A k \in 1..Len(t) : t[k] = c[k]
      <3>1. TAKE k \in 1..Len(t)
      <3>2. CASE k <= Len(b)
        BY <1>0, <1>2, <2>4, <2>5, <2>6, <2>7, <2>8, <3>2
      <3>3. CASE k > Len(b) /\ k <= Len(bm)
        BY <1>0, <1>2, <2>4, <2>5, <2>6, <2>7, <2>8, <3>3
      <3>4. CASE k > Len(bm)
        <4>1. k - Len(bm) \in 1..Len(a) /\ Len(t) - Len(a) + (k - Len(bm)) = k
          BY <1>0, <2>4, <2>5, <2>6, <2>8, <3>4
        <4>2. c[k] = a[k - Len(bm)] /\ a[k - Len(bm)] = t[k]
          <5>1. c[k] = a[k - Len(bm)]
            BY <1>0, <2>4, <2>5, <2>6, <2>8, <3>4
          <5>2. a[k - Len(bm)] = t[Len(t) - Len(a) + (k - Len(bm))]
            BY <2>7, <4>1
          <5>3. QED BY <4>1, <5>1, <5>2
        <4>3. QED BY <4>2
      <3>5. QED BY <1>0, <2>4, <2>5, <3>2, <3>3, <3>4
    <2>10. t = c
      BY <2>6, <2>8, <2>9, SeqEqual
    <2>11. QED BY <2>2, <2>10 DEF c, bm
  <1>3. QED BY <1>1, <1>2

(* The parts of a pattern before and after its first *.                    *)
LEMMA PartsAre ==
  ASSUME NEW o \in Seq(STRING), Cors!Stars(o) # {}
  PROVE  /\ Cors!Before(o) \in Seq(STRING) /\ Cors!After(o) \in Seq(STRING)
         /\ Len(Cors!Before(o)) + Len(Cors!After(o)) = Len(o) - 1
  <1>1. Cors!Stars(o) \subseteq 1..Len(o) /\ Len(o) \in Nat
    BY DEF Cors!Stars
  <1>2. \E i \in Cors!Stars(o) : \A j \in Cors!Stars(o) : i <= j
    BY <1>1, LeastExists
  <1>3. Cors!Star(o) \in 1..Len(o)
    BY <1>1, <1>2 DEF Cors!Star
  <1> DEFINE n == Cors!Star(o)
  <1>4. n - 1 \in Int /\ n + 1 \in Int /\ n \in 1..Len(o)
    BY <1>1, <1>3
  <1> HIDE DEF n
  <1>5. /\ \A i \in 1..n - 1 : o[i] \in STRING
        /\ \A i \in n + 1..Len(o) : o[i] \in STRING
    BY <1>1, <1>4
  <1>6. SubSeq(o, 1, n - 1) \in Seq(STRING) /\ Len(SubSeq(o, 1, n - 1)) = n - 1
    BY <1>1, <1>4, <1>5, SubSeqProperties
  <1>7. SubSeq(o, n + 1, Len(o)) \in Seq(STRING) /\ Len(SubSeq(o, n + 1, Len(o))) = Len(o) - n
    BY <1>1, <1>4, <1>5, SubSeqProperties
  <1>8. Cors!Before(o) = SubSeq(o, 1, n - 1) /\ Cors!After(o) = SubSeq(o, n + 1, Len(o))
    BY DEF Cors!Before, Cors!After, n
  <1>9. n - 1 + (Len(o) - n) = Len(o) - 1
    BY <1>1, <1>4
  <1>10. QED BY <1>6, <1>7, <1>8, <1>9

(* A pattern matches what it becomes, and else what its ends overlap in.   *)
LEMMA MatchesIs ==
  ASSUME s1 \in Seq(STRING), NEW o \in Seq(STRING)
  PROVE  /\ s1 \in Cors!Becomes(o) => Cors!Matches(o)
         /\ Cors!Matches(o) => s1 \in Cors!Becomes(o) \/ Cors!Overlaps(o)
  <1>1. CASE Cors!Stars(o) = {}
    BY <1>1 DEF Cors!Becomes, Cors!Matches
  <1>2. CASE Cors!Stars(o) # {}
    <2> DEFINE b == Cors!Before(o)
               a == Cors!After(o)
    <2>1. /\ b \in Seq(STRING) /\ a \in Seq(STRING) /\ Len(b) + Len(a) = Len(o) - 1
          /\ Len(o) \in Nat /\ Len(b) \in Nat /\ Len(a) \in Nat /\ Len(s1) \in Nat
      BY <1>2, PartsAre
    <2>2. Cors!Matches(o) <=> Cors!IsPrefix(b, s1) /\ Cors!IsSuffix(a, s1)
      BY <1>2 DEF Cors!Matches
    <2>3. s1 \in Cors!Becomes(o) <=> \E middle \in Cors!Substrings(s1) : s1 = b \o middle \o a
      BY <1>2 DEF Cors!Becomes
    <2>4. Cors!Overlaps(o) <=> Len(s1) < Len(o) - 1 /\ Cors!IsPrefix(b, s1) /\ Cors!IsSuffix(a, s1)
      BY <1>2 DEF Cors!Overlaps
    <2> HIDE DEF a, b
    <2>5. /\ s1 \in Cors!Becomes(o) => Cors!IsPrefix(b, s1) /\ Cors!IsSuffix(a, s1)
          /\ Cors!IsPrefix(b, s1) /\ Cors!IsSuffix(a, s1) /\ Len(b) + Len(a) <= Len(s1)
               => s1 \in Cors!Becomes(o)
      <3>1. /\ (\E middle \in Cors!Substrings(s1) : s1 = b \o middle \o a)
                 => Cors!IsPrefix(b, s1) /\ Cors!IsSuffix(a, s1)
            /\ Cors!IsPrefix(b, s1) /\ Cors!IsSuffix(a, s1) /\ Len(b) + Len(a) <= Len(s1)
                 => \E middle \in Cors!Substrings(s1) : s1 = b \o middle \o a
        BY ONLY s1 \in Seq(STRING), <2>1, MiddleIs
      <3>2. QED BY <2>3, <3>1
    <2>6. Len(b) + Len(a) <= Len(s1) \/ Len(s1) < Len(o) - 1
      BY <2>1
    <2>7. QED BY <2>2, <2>4, <2>5, <2>6
  <1>3. QED BY <1>1, <1>2

(* Cors: nothing was decided yet.                                          *)
LEMMA CorsInit == Cors!Init => Cors!Inductive
  BY DEF Cors!Init, Cors!Inductive, Cors!TypeOK, Cors!ResultIsOfPatterns

(* The result follows from the patterns of the list.                       *)
LEMMA CorsStep == ASSUME Cors!Inductive, [Cors!Next]_Cors!vars PROVE Cors!Inductive'
  <1> USE DEF Cors!Inductive, Cors!TypeOK, Cors!ResultIsOfPatterns, Cors!Matches, Cors!Stars,
              Cors!Before, Cors!After
  <1>1. CASE UNCHANGED Cors!vars
    BY <1>1 DEF Cors!vars
  <1>2. CASE Cors!AllowOriginFunc
    BY <1>2 DEF Cors!AllowOriginFunc
  <1>3. QED BY <1>1, <1>2 DEF Cors!Next

(* An origin is allowed just if a pattern in the list matches it.          *)
LEMMA CorsSafe == Cors!Inductive => Cors!AllowedIsListed
  <1> SUFFICES ASSUME Cors!Inductive, s3 # "none" PROVE Cors!AllowedIsListed
    BY DEF Cors!AllowedIsListed
  <1> DEFINE patterns == Cors!ToSet(s2)
  <1>1. s1 \in Seq(STRING) /\ s2 \in Seq(Seq(STRING))
    BY CorsAssumption DEF Cors!Inductive, Cors!TypeOK
  <1>2. \A o \in patterns : o \in Seq(STRING)
    BY <1>1, ElementOfSeq DEF Cors!ToSet
  <1>3. s3 = "allowed" <=> \E o \in patterns : Cors!Matches(o)
    BY DEF Cors!Inductive, Cors!ResultIsOfPatterns, Cors!ToSet
  <1> HIDE DEF patterns
  <1>4. /\ (\E o \in patterns : s1 \in Cors!Becomes(o)) => s3 = "allowed"
        /\ s3 = "allowed" => \/ \E o \in patterns : s1 \in Cors!Becomes(o)
                             \/ \E o \in patterns : Cors!Overlaps(o)
    BY <1>1, <1>2, <1>3, MatchesIs
  <1>5. QED BY <1>4 DEF Cors!AllowedIsListed, patterns

-----------------------------------------------------------------------------
(* Migrations.                                                             *)

(* Migrate: nothing was typed yet.                                         *)
LEMMA MigrateInit == Migrate!Init => Migrate!Inductive
  BY MigrateAssumption
  DEF Migrate!Init, Migrate!Inductive, Migrate!TypeOK, Migrate!ReadsInOrder,
      Migrate!AnswersAreCounted

(* A read takes some of what has arrived, and has a number of its own.     *)
LEMMA FilledIs ==
  ASSUME Migrate!TypeOK, Migrate!Fill
  PROVE  /\ s4' \in Seq(Migrate!Bytes) /\ s5' \in [read : Nat, bytes : Seq(Migrate!Bytes)]
         /\ s5'.read = s5.read + 1
         /\ UNCHANGED <<s1, s2, s3, s6, s7, s8>>
  <1>1. PICK n \in 1..Len(s4) : /\ s5' = [read |-> s5.read + 1, bytes |-> SubSeq(s4, 1, n)]
                                /\ s4' = SubSeq(s4, n + 1, Len(s4))
    BY DEF Migrate!Fill
  <1>2. s4 \in Seq(Migrate!Bytes) /\ Len(s4) \in Nat /\ s5.read \in Nat
    BY DEF Migrate!TypeOK
  <1>3. SubSeq(s4, 1, n) \in Seq(Migrate!Bytes) /\ SubSeq(s4, n + 1, Len(s4)) \in Seq(Migrate!Bytes)
    <2>1. \A k \in 1..Len(s4) : s4[k] \in Migrate!Bytes
      BY <1>2, ElementOfSeq
    <2>2. QED BY <1>2, <2>1
  <1>4. QED BY <1>1, <1>2, <1>3 DEF Migrate!Fill

(* What is left of a read when a byte of it is used or skipped.            *)
LEMMA UsedIs ==
  ASSUME Migrate!TypeOK, Migrate!CliConfirm
  PROVE  /\ s5' \in [read : Nat, bytes : Seq(Migrate!Bytes)] /\ s5'.read = s5.read
         /\ s5.bytes # <<>> /\ UNCHANGED <<s1, s2, s3, s4>>
         /\ Migrate!Byte \in {"y", "n"} => s5'.bytes = <<>>
  <1>1. /\ s5 \in [read : Nat, bytes : Seq(Migrate!Bytes)] /\ s5.bytes # <<>>
        /\ UNCHANGED <<s1, s2, s3, s4>>
    BY DEF Migrate!CliConfirm, Migrate!TypeOK
  <1>2. Tail(s5.bytes) \in Seq(Migrate!Bytes)
    BY <1>1
  <1>3. CASE Migrate!Byte \in {"y", "n"}
    <2> DEFINE none == <<>>
    <2>1. s5' = [s5 EXCEPT !.bytes = none]
      BY <1>3 DEF Migrate!CliConfirm, Migrate!NewReader
    <2>2. none \in Seq(Migrate!Bytes) /\ none = <<>>
      OBVIOUS
    <2> HIDE DEF none
    <2>3. s5' \in [read : Nat, bytes : Seq(Migrate!Bytes)] /\ s5'.read = s5.read /\ s5'.bytes = none
      BY <1>1, <2>1, <2>2
    <2>4. QED BY <1>1, <2>2, <2>3
  <1>4. CASE Migrate!Byte \notin {"y", "n"}
    <2> DEFINE rest == Tail(s5.bytes)
    <2>1. s5' = [s5 EXCEPT !.bytes = rest]
      BY <1>4 DEF Migrate!CliConfirm, Migrate!Skipped
    <2>2. rest \in Seq(Migrate!Bytes)
      BY <1>2
    <2> HIDE DEF rest
    <2>3. QED BY <1>1, <1>4, <2>1, <2>2
  <1>5. QED BY <1>3, <1>4

(* A y is counted with the number of its read.                             *)
LEMMA ConfirmedIs ==
  ASSUME Migrate!TypeOK, Migrate!CliConfirm, Migrate!Byte = "y"
  PROVE  /\ s7' \in Seq(Nat) /\ Len(s7') = Len(s7) + 1
         /\ \A k \in 1..Len(s7) : s7'[k] = s7[k]
         /\ s7'[Len(s7) + 1] = s5.read
         /\ s6' = s6 - 1 /\ s8 = "asking" /\ s8' = IF s6 = 1 THEN "acting" ELSE s8
  <1>1. /\ s7' = Append(s7, s5.read)
        /\ s6' = s6 - 1 /\ s8 = "asking" /\ s8' = IF s6 = 1 THEN "acting" ELSE s8
    BY DEF Migrate!CliConfirm
  <1>2. s7 \in Seq(Nat) /\ s5.read \in Nat
    BY DEF Migrate!TypeOK
  <1>3. QED BY <1>1, <1>2, AppendProperties

(* Another byte confirms nothing.                                          *)
LEMMA NotConfirmedIs ==
  ASSUME Migrate!CliConfirm, Migrate!Byte # "y"
  PROVE  UNCHANGED <<s6, s7>> /\ s8 = "asking" /\ s8' \in {"asking", "cancelled"}
  BY DEF Migrate!CliConfirm

(* The answers are of different reads, and all of these are over.          *)
LEMMA MigrateOrder ==
  ASSUME Migrate!TypeOK, Migrate!ReadsInOrder, [Migrate!Next]_Migrate!vars
  PROVE  Migrate!ReadsInOrder'
  <1> USE DEF Migrate!ReadsInOrder
  <1>0. /\ s7 \in Seq(Nat) /\ Len(s7) \in Nat /\ DOMAIN s7 = 1..Len(s7) /\ s5.read \in Nat
        /\ \A k \in DOMAIN s7 : s7[k] \in Nat
    BY ElementOfSeq DEF Migrate!TypeOK
  <1>1. CASE UNCHANGED <<s5, s7>>
    BY <1>1
  <1>2. CASE Migrate!Fill
    BY <1>0, <1>2, FilledIs
  <1>3. CASE Migrate!CliConfirm
    <2>1. CASE Migrate!Byte = "y"
      <3>1. DOMAIN s7' = 1..Len(s7) + 1
        BY <1>3, <2>1, ConfirmedIs
      <3>2. \A k \in DOMAIN s7' : \/ k \in 1..Len(s7) /\ s7'[k] = s7[k] /\ s7[k] < s5.read
                                  \/ k = Len(s7) + 1 /\ s7'[k] = s5.read
        BY <1>0, <1>3, <2>1, <3>1, ConfirmedIs, UsedIs
      <3>3. (\A j, k \in DOMAIN s7 : j < k => s7[j] < s7[k])'
        BY <1>0, <3>1, <3>2
      <3>4. s5'.bytes = <<>> /\ s5'.read = s5.read
        BY <1>3, <2>1, UsedIs
      <3>5. QED BY <1>0, <3>2, <3>3, <3>4
    <2>2. CASE Migrate!Byte # "y"
      BY <1>3, <2>2, NotConfirmedIs, UsedIs
    <2>3. QED BY <2>1, <2>2
  <1>4. UNCHANGED <<s5, s7>> \/ Migrate!Fill \/ Migrate!CliConfirm
    BY DEF Migrate!Next, Migrate!vars, Migrate!Type, Migrate!ClosePipe, Migrate!Start,
           Migrate!ReadAtEnd, Migrate!Act
  <1>5. QED BY <1>1, <1>2, <1>3, <1>4

(* The reader keeps its type.                                              *)
LEMMA MigrateType ==
  ASSUME Migrate!TypeOK, [Migrate!Next]_Migrate!vars,
         Migrate!AnswersAreCounted
  PROVE  Migrate!TypeOK'
  <1> USE MigrateAssumption DEF Migrate!TypeOK
  <1>1. CASE UNCHANGED Migrate!vars
    BY <1>1 DEF Migrate!vars
  <1>2. CASE Migrate!Type
    <2>1. PICK byte \in Migrate!Bytes : s4' = Append(s4, byte)
      BY <1>2 DEF Migrate!Type
    <2>2. s4' \in Seq(Migrate!Bytes)
      BY <2>1, AppendProperties
    <2>3. s3' \in 0..MaxBytes /\ UNCHANGED <<s1, s2, s5, s6, s7, s8>>
      BY <1>2 DEF Migrate!Type
    <2>4. QED BY <2>2, <2>3
  <1>3. CASE Migrate!ClosePipe
    BY <1>3 DEF Migrate!ClosePipe
  <1>4. CASE Migrate!Start
    BY <1>4 DEF Migrate!Start, Migrate!Commands, Migrate!Questions
  <1>5. CASE Migrate!Fill
    BY <1>5, FilledIs
  <1>6. CASE Migrate!ReadAtEnd
    BY <1>6 DEF Migrate!ReadAtEnd
  <1>7. CASE Migrate!CliConfirm
    <2>1. CASE Migrate!Byte = "y"
      <3>1. /\ s7' \in Seq(Nat) /\ s6' = s6 - 1 /\ s8 = "asking"
            /\ s8' = IF s6 = 1 THEN "acting" ELSE s8
        BY <1>7, <2>1, ConfirmedIs
      <3>2. s6 \in 0..2 /\ s6 > 0
        BY <3>1 DEF Migrate!AnswersAreCounted
      <3>3. s6' \in 0..2 /\ s8' \in {"acting", "asking"}
        BY <3>1, <3>2
      <3>4. QED BY <1>7, <3>1, <3>3, UsedIs
    <2>2. CASE Migrate!Byte # "y"
      BY <1>7, <2>2, UsedIs, NotConfirmedIs
    <2>3. QED BY <2>1, <2>2
  <1>8. CASE Migrate!Act
    BY <1>8 DEF Migrate!Act
  <1>9. QED BY <1>1, <1>2, <1>3, <1>4, <1>5, <1>6, <1>7, <1>8 DEF Migrate!Next

(* As many answers are missing as there are questions without one.         *)
LEMMA MigrateCount ==
  ASSUME Migrate!TypeOK, Migrate!AnswersAreCounted, [Migrate!Next]_Migrate!vars
  PROVE  Migrate!AnswersAreCounted'
  <1> USE DEF Migrate!AnswersAreCounted
  <1>1. s1' = s1 /\ Migrate!Questions' = Migrate!Questions
    BY DEF Migrate!Next, Migrate!vars, Migrate!Type, Migrate!ClosePipe, Migrate!Start,
           Migrate!Fill, Migrate!ReadAtEnd, Migrate!CliConfirm, Migrate!Act, Migrate!Questions
  <1>2. Migrate!Questions \in 0..2 /\ s6 \in 0..2 /\ s7 \in Seq(Nat) /\ Len(s7) \in Nat
    BY DEF Migrate!TypeOK, Migrate!Questions, Migrate!Commands
  <1>3. CASE UNCHANGED <<s6, s7, s8>>
    BY <1>1, <1>3
  <1>4. CASE Migrate!Start
    BY <1>1, <1>2, <1>4 DEF Migrate!Start
  <1>5. CASE Migrate!CliConfirm
    <2>1. CASE Migrate!Byte = "y"
      BY <1>1, <1>2, <1>5, <2>1, ConfirmedIs
    <2>2. CASE Migrate!Byte # "y"
      BY <1>1, <1>2, <1>5, <2>2, NotConfirmedIs
    <2>3. QED BY <2>1, <2>2
  <1>6. CASE UNCHANGED <<s6, s7>> /\ s8 = "asking" /\ s8' = "looping"
    BY <1>1, <1>6
  <1>7. CASE Migrate!Act
    BY <1>1, <1>7 DEF Migrate!Act
  <1>8. QED BY <1>3, <1>4, <1>5, <1>6, <1>7
    DEF Migrate!Next, Migrate!vars, Migrate!Type, Migrate!ClosePipe, Migrate!Fill,
        Migrate!ReadAtEnd

(* All of it, at every step.                                               *)
LEMMA MigrateStep ==
  ASSUME Migrate!Inductive, [Migrate!Next]_Migrate!vars PROVE Migrate!Inductive'
  BY MigrateOrder, MigrateType, MigrateCount DEF Migrate!Inductive

(* The confirmations of a command that acts are as many as it asks for.    *)
LEMMA MigrateSafe == Migrate!Inductive => Migrate!HarmIsConfirmed
  <1> SUFFICES ASSUME Migrate!Inductive PROVE Migrate!HarmIsConfirmed
    OBVIOUS
  <1>1. Len(s7) \in Nat /\ Migrate!Questions \in Int
    BY DEF Migrate!Inductive, Migrate!TypeOK, Migrate!Questions, Migrate!Commands
  <1>2. QED BY <1>1
    DEF Migrate!Inductive, Migrate!ReadsInOrder, Migrate!AnswersAreCounted, Migrate!HarmIsConfirmed

-----------------------------------------------------------------------------
(* Values.                                                                 *)

(* Values: nothing was made of them yet.                                   *)
LEMMA ValuesInit == Values!Init => Values!Inductive
  <1>1. Values!Init => Values!TypeOK
    <2> SUFFICES ASSUME Values!Init PROVE Values!TypeOK
      OBVIOUS
    <2>1. s1 \in Values!ByValue \cup Values!ByPointer \cup {"text"}
      BY DEF Values!Init
    <2>2. s8 = "given" /\ s3.valid = FALSE /\ s3.v = 0
      BY DEF Values!Init
    <2>3. s4 = {} /\ s5 = {} /\ s6 = {}
      BY DEF Values!Init
    <2>4. s7.limit = 0 /\ s7.runes = <<>> /\ s7.bytes = 0
      BY DEF Values!Init
    <2>5. <<>> \in Seq(1..4)
      OBVIOUS
    <2>6. \A p \in {s4, s5, s6} : p \subseteq Int /\ \A v, w \in p : v = w
      BY <2>3
    <2>7. s8 \in Values!States
      BY <2>2 DEF Values!States
    <2>8. s3.valid \in BOOLEAN /\ s3.v \in Int
      BY DEF Values!Init
    <2>9. s7.limit \in Limits \cup {0} /\ s7.runes \in Seq(1..4) /\ s7.bytes \in Nat
      BY <2>4, <2>5
    <2>10. QED BY <2>1, <2>6, <2>7, <2>8, <2>9 DEF Values!TypeOK
  <1>2. QED BY <1>1 DEF Values!Init, Values!Inductive, Values!Given, Values!StagesFollow

(* An int that is cut to its width is an int.                              *)
LEMMA Int32Is == ASSUME NEW v \in Int PROVE Values!Int32(v) \in Int
  <1> DEFINE half == 2^(IntBits - 1)
             whole == 2^IntBits
  <1>1. half \in Nat /\ whole \in Nat \ {0}
    BY ValuesAssumption
  <1>2. Values!Int32(v) = ((v + half) % whole) - half
    BY DEF Values!Int32
  <1> HIDE DEF half, whole
  <1>3. QED BY <1>1, <1>2

(* A pointer points to an integer, or to nothing.                          *)
IsPointer(p) == p \subseteq Int /\ \A v, w \in p : v = w

(* What a pointer's column holds.                                          *)
LEMMA RefIs ==
  ASSUME NEW p, IsPointer(p)
  PROVE  Values!SqlNullRef(p).valid \in BOOLEAN /\ Values!SqlNullRef(p).v \in Int
  <1>1. p # {} => Values!Deref(p) \in Int
    BY DEF IsPointer, Values!Deref
  <1>2. QED BY <1>1 DEF Values!SqlNullRef

LEMMA ColumnIs ==
  ASSUME Values!Given, s1 # "text"
  PROVE  Values!Column.valid \in BOOLEAN /\ Values!Column.v \in Int
  <1>1. CASE s1 \in Values!ByValue
    <2>1. s2 \in Int /\ Values!Column = Values!SqlNull(s2)
      BY <1>1, ValuesAssumption
         DEF Values!Given, Values!Column, Values!ByValue, Values!ByPointer
    <2>2. QED BY <2>1 DEF Values!SqlNull
  <1>2. CASE s1 \notin Values!ByValue
    <2>1. IsPointer(s2)
      BY <1>2, ValuesAssumption DEF Values!Given, Values!Pointers, IsPointer
    <2>2. IsPointer({Values!Int32(v) : v \in s2})
      BY <2>1, Int32Is DEF IsPointer
    <2>3. \/ Values!Column = Values!SqlNullRef(s2)
          \/ Values!Column = Values!SqlNullRef({Values!Int32(v) : v \in s2})
      BY <1>2 DEF Values!Column, Values!SqlNullIntRef
    <2>4. QED BY <2>1, <2>2, <2>3, RefIs
  <1>3. QED BY <1>1, <1>2

(* What a column keeps of a number is a number.                            *)
LEMMA HeldIs == ASSUME NEW v \in Int PROVE Values!Held(v) \subseteq Int
  <1>1. Values!Second(v) \in Int /\ Values!Day(v) \in Int
    BY DEF Values!Second, Values!Day
  <1>2. Values!Held(v) \subseteq {v, Values!Second(v), Values!Day(v)}
    BY DEF Values!Held
  <1>3. QED BY <1>1, <1>2

(* What is written of what a pointer points to is again a pointer.         *)
LEMMA WireIs == ASSUME NEW p, IsPointer(p) PROVE IsPointer(UNION {Values!Written(v) : v \in p})
  <1>1. \A v \in Int : Values!Second(v) \in Int /\ Values!Day(v) \in Int
    BY DEF Values!Second, Values!Day
  <1>2. \A v \in Int : IsPointer(Values!Written(v))
    BY <1>1 DEF Values!Written, IsPointer
  <1>3. QED BY <1>2 DEF IsPointer

(* A text that is cut is a text, and what is left of it a number of bytes. *)
LEMMA CutIs ==
  ASSUME NEW text \in Seq(1..4), NEW limit \in Nat
  PROVE  /\ Values!TruncateStr(text, limit) \in Seq(1..4)
         /\ Values!TruncateStrBytes(text, limit) \in Nat
  <1>1. Len(text) \in Nat /\ DOMAIN text = 1..Len(text) /\ \A k \in 1..Len(text) : text[k] \in 1..4
    BY LenProperties
  <1>2. Values!TruncateStr(text, limit) \in Seq(1..4)
    <2>1. CASE Len(text) < limit
      BY <2>1 DEF Values!TruncateStr
    <2>2. CASE ~(Len(text) < limit)
      <3>1. \A k \in 1..limit : text[k] \in 1..4
        BY <1>1, <2>2
      <3>2. SubSeq(text, 1, limit) \in Seq(1..4)
        BY <3>1, SubSeqProperties
      <3>3. QED BY <2>2, <3>2 DEF Values!TruncateStr, Values!Prefix
    <2>3. QED BY <2>1, <2>2
  <1> DEFINE late == {k \in DOMAIN text : Values!End(text, k) > limit}
             last == IF late = {} THEN Len(text) ELSE Values!Min(late) - 1
  <1>3. last \in 0..Len(text)
    <2>1. late \subseteq 1..Len(text)
      BY <1>1
    <2>2. late = {} => last = Len(text)
      OBVIOUS
    <2>3. late # {} => last = Values!Min(late) - 1
      OBVIOUS
    <2> HIDE DEF late, last
    <2>4. CASE late # {}
      <3>1. late \subseteq Nat
        BY <1>1, <2>1
      <3>2. \E m \in late : \A n \in late : m <= n
        BY <2>4, <3>1, LeastExists
      <3>3. Values!Min(late) \in 1..Len(text)
        BY <2>1, <3>2 DEF Values!Min
      <3>4. QED BY <1>1, <2>3, <2>4, <3>3
    <2>5. CASE late = {}
      BY <1>1, <2>2, <2>5
    <2>6. QED BY <2>4, <2>5
  <1>4. Values!TruncateStrBytes(text, limit) = IF last = 0 THEN 0 ELSE Values!End(text, last)
    BY DEF Values!TruncateStrBytes
  <1> HIDE DEF last
  <1>5. last # 0 => text[last] \in 1..4 /\ last \in 1..Len(text)
    BY <1>1, <1>3
  <1>6. QED BY <1>1, <1>2, <1>4, <1>5 DEF Values!End

(* A text that is given is a sequence of lengths.                          *)
LEMMA TextIs == ASSUME NEW text \in Texts PROVE text \in Seq(1..4) /\ text \in Seq(Nat)
  <1>1. text \in Seq(1..4)
    BY ValuesAssumption
  <1>2. Len(text) \in Nat /\ text \in [1..Len(text) -> Nat]
    BY <1>1, LenProperties
  <1>3. QED BY <1>1, <1>2

(* Every stage has its types.                                              *)
LEMMA ValuesType == ASSUME Values!Inductive, [Values!Next]_Values!vars PROVE Values!TypeOK'
  <1>1. /\ Values!TypeOK /\ Values!Given
        /\ s3.valid \in BOOLEAN /\ s3.v \in Int
        /\ IsPointer(s4) /\ IsPointer(s5) /\ IsPointer(s6)
    BY DEF Values!Inductive, Values!TypeOK, IsPointer
  <1>2. CASE UNCHANGED Values!vars
    BY <1>1, <1>2 DEF Values!vars, Values!TypeOK
  <1>3. CASE Values!Store
    <2>1. CASE UNCHANGED s3
      BY <1>1, <1>3, <2>1 DEF Values!Store, Values!TypeOK, Values!States
    <2>2. ASSUME NEW held \in Values!Held(Values!Column.v),
                 s3' = [valid |-> Values!Column.valid, v |-> held]
          PROVE  Values!TypeOK'
      <3>1. Values!Column.valid \in BOOLEAN /\ held \in Int
        BY <1>1, <1>3, <2>2, ColumnIs, HeldIs DEF Values!Store
      <3>2. s3'.valid = Values!Column.valid /\ s3'.v = held
        BY <2>2
      <3>3. s3'.valid \in BOOLEAN /\ s3'.v \in Int
        BY <3>1, <3>2
      <3>4. QED BY <1>1, <1>3, <3>3 DEF Values!Store, Values!TypeOK, Values!States
    <2>3. QED BY <1>3, <2>1, <2>2 DEF Values!Store
  <1>4. CASE Values!Load
    <2>1. s4' = Values!RefFromSql(s3)
      BY <1>4 DEF Values!Load
    <2>2. IsPointer(s4')
      BY <1>1, <2>1 DEF Values!RefFromSql, IsPointer
    <2>3. QED BY <1>1, <1>4, <2>2 DEF Values!Load, Values!TypeOK, Values!States, IsPointer
  <1>5. CASE Values!Marshal
    <2>1. s5' = UNION {Values!Written(v) : v \in s4}
      BY <1>5 DEF Values!Marshal
    <2>2. IsPointer(s5')
      BY <1>1, <2>1, WireIs
    <2>3. QED BY <1>1, <1>5, <2>2 DEF Values!Marshal, Values!TypeOK, Values!States, IsPointer
  <1>6. CASE Values!Unmarshal
    <2>1. s6' \in {s5, s6, {}} /\ UNCHANGED <<s1, s2, s3, s4, s5, s7>>
          /\ s8' \in {"returned", "refused"}
      BY <1>6 DEF Values!Unmarshal
    <2>2. IsPointer(s6')
      BY <1>1, <2>1 DEF IsPointer
    <2>3. QED BY <1>1, <2>1, <2>2 DEF Values!TypeOK, Values!States, IsPointer
  <1>7. CASE Values!Truncate
    <2>1. PICK limit \in Limits :
            s7' = [limit |-> limit, runes |-> Values!TruncateStr(s2, limit),
                   bytes |-> Values!TruncateStrBytes(s2, limit)]
      BY <1>7 DEF Values!Truncate
    <2>2. s2 \in Seq(1..4) /\ limit \in Nat
      BY <1>1, <1>7, TextIs, ValuesAssumption
         DEF Values!Truncate, Values!Given, Values!ByValue, Values!ByPointer
    <2>3. /\ s7'.limit \in Limits \cup {0} /\ s7'.runes \in Seq(1..4) /\ s7'.bytes \in Nat
      BY <2>1, <2>2, CutIs
    <2>4. QED BY <1>1, <1>7, <2>3 DEF Values!Truncate, Values!TypeOK, Values!States
  <1>8. CASE Values!Make
    <2>1. s4' = s2 /\ s2 \in Values!Pointers /\ s8' = "loaded" /\ UNCHANGED <<s1, s3, s5, s6, s7>>
      BY <1>1, <1>8 DEF Values!Make, Values!OnTheWire, Values!Given, Values!ByValue
    <2>2. IsPointer(s4')
      BY <2>1, ValuesAssumption DEF Values!Pointers, IsPointer
    <2>3. QED BY <1>1, <2>1, <2>2 DEF Values!TypeOK, Values!States, IsPointer
  <1>9. CASE Values!MarshalJSONFails
    BY <1>1, <1>9 DEF Values!MarshalJSONFails, Values!TypeOK, Values!States
  <1>10. QED BY <1>2, <1>3, <1>4, <1>5, <1>6, <1>7, <1>8, <1>9 DEF Values!Next

(* A whole second, or a day, begins no later than any time in it, and ends *)
(* no later than the day before the year 0, if it begins before that.      *)
LEMMA BeginsEarlier ==
  ASSUME NEW t \in Int
  PROVE  /\ Values!Second(t) \in Int /\ Values!Second(t) <= t
         /\ Values!Day(t) \in Int /\ Values!Day(t) <= t
         /\ Values!Second(t) < Year0 => t < Year0
         /\ Values!Day(t) < Year0 => t < Year0
  <1>1. Year0 \in Int /\ Year0 % 4 = 0
    BY ValuesAssumption
  <1>2. QED BY <1>1 DEF Values!Second, Values!Day

(* What is written is outside the years if the value is.                   *)
LEMMA OutsideIs ==
  ASSUME Values!TypeOK, s5 = UNION {Values!Written(v) : v \in s4}, Values!Unreadable
  PROVE  \E v \in s4 : Values!Outside(v)
  <1>1. PICK w \in s5 : Values!Outside(w)
    BY DEF Values!Unreadable
  <1>2. PICK v \in s4 : w \in Values!Written(v)
    BY <1>1
  <1>3. w \in {Values!Second(v), Values!Day(v)}
    BY <1>2 DEF Values!Unreadable, Values!Written
  <1>4. v \in Int
    BY <1>2 DEF Values!TypeOK
  <1>5. Year10000 \in Int /\ Year0 \in Int
    BY ValuesAssumption
  <1>6. Values!Outside(v)
    BY <1>1, <1>3, <1>4, <1>5, BeginsEarlier DEF Values!Outside
  <1>7. QED BY <1>6

(* Every stage is made of the one before.                                  *)
LEMMA ValuesStages ==
  ASSUME Values!Inductive, [Values!Next]_Values!vars PROVE Values!Given' /\ Values!StagesFollow'
  <1>0. Values!TypeOK /\ Values!Given /\ Values!StagesFollow /\ UNCHANGED <<s1, s2>>
    BY DEF Values!Inductive, Values!Next, Values!vars, Values!Store, Values!Load, Values!Make,
           Values!Marshal, Values!MarshalJSONFails, Values!Unmarshal, Values!Truncate
  <1>g. Values!Given'
    BY <1>0 DEF Values!Given
  <1>k. Values!Kept' <=> s3'.valid = Values!Column.valid /\ s3'.v \in Values!Held(Values!Column.v)
    BY <1>0 DEF Values!Kept, Values!Column, Values!Held
  <1>1. CASE UNCHANGED Values!vars
    <2>1. UNCHANGED <<s1, s2, s3, s4, s5, s6, s7, s8>>
      BY <1>1 DEF Values!vars
    <2>2. /\ Values!Kept' <=> Values!Kept
          /\ Values!RefFromSql(s3)' = Values!RefFromSql(s3)
          /\ Values!Unreadable' <=> Values!Unreadable
          /\ UNION {Values!Written(v) : v \in s4}' = UNION {Values!Written(v) : v \in s4}
      BY <2>1, <1>k
         DEF Values!Kept, Values!RefFromSql, Values!Unreadable, Values!Outside, Values!Written
    <2>3. (\E v \in s4 : Values!Outside(v))' <=> (\E v \in s4 : Values!Outside(v))
      BY <2>1 DEF Values!Outside
    <2>4. QED BY <1>0, <1>g, <2>1, <2>2, <2>3 DEF Values!StagesFollow
  <1>2. CASE Values!Store
    <2>1. s8' \in {"stored", "rejected"} /\ s1' # "text"
      BY <1>0, <1>2 DEF Values!Store
    <2>2. s8' = "stored" => Values!Kept'
      BY <1>2, <1>k DEF Values!Store
    <2>3. QED BY <2>1, <2>2, <1>g DEF Values!StagesFollow
  <1>3. CASE Values!Load
    <2>1. s8' = "loaded" /\ s1' # "text" /\ s4' = Values!RefFromSql(s3)' /\ Values!Kept'
      BY <1>0, <1>3, <1>k DEF Values!Load, Values!StagesFollow, Values!Kept, Values!RefFromSql
    <2>2. QED BY <2>1, <1>g DEF Values!StagesFollow
  <1>4. CASE Values!Make
    BY <1>0, <1>4, <1>g DEF Values!Make, Values!OnTheWire, Values!StagesFollow
  <1>5. CASE Values!Marshal
    <2>1. s8' = "sent" /\ s1' \in Values!OnTheWire /\ UNCHANGED <<s3, s4>> /\ s8 = "loaded"
      BY <1>0, <1>5 DEF Values!Marshal
    <2>2. s5' = UNION {Values!Written(v) : v \in s4}'
      BY <1>0, <1>5, <2>1 DEF Values!Marshal, Values!Written
    <2>3. s1' # "text" /\ \/ s4' = s2' /\ s1' \in Values!OnTheWire
                          \/ s4' = Values!RefFromSql(s3)' /\ Values!Kept'
      BY <1>0, <2>1, <1>k DEF Values!StagesFollow, Values!RefFromSql, Values!Kept
    <2>4. QED BY <2>1, <2>2, <2>3, <1>g DEF Values!StagesFollow
  <1>6. CASE Values!MarshalJSONFails
    <2>1. s8' = "refused" /\ UNCHANGED <<s3, s4>> /\ s8 = "loaded"
          /\ \E v \in s4' : Values!Outside(v)'
      BY <1>6 DEF Values!MarshalJSONFails, Values!Outside
    <2>2. s1' # "text" /\ \/ s4' = s2' /\ s1' \in Values!OnTheWire
                          \/ s4' = Values!RefFromSql(s3)' /\ Values!Kept'
      BY <1>0, <2>1, <1>k DEF Values!StagesFollow, Values!RefFromSql, Values!Kept
    <2>3. QED BY <2>1, <2>2, <1>g DEF Values!StagesFollow
  <1>7. CASE Values!Unmarshal
    <2>1. UNCHANGED <<s3, s4, s5>> /\ s8 = "sent" /\ s8' \in {"returned", "refused"}
      BY <1>7 DEF Values!Unmarshal
    <2>2. s1' # "text" /\ \/ s4' = s2' /\ s1' \in Values!OnTheWire
                          \/ s4' = Values!RefFromSql(s3)' /\ Values!Kept'
      BY <1>0, <2>1, <1>k DEF Values!StagesFollow, Values!RefFromSql, Values!Kept
    <2>3. s1' \in Values!OnTheWire /\ s5 = UNION {Values!Written(v) : v \in s4}
      BY <1>0, <2>1 DEF Values!StagesFollow
    <2>4. s5' = UNION {Values!Written(v) : v \in s4}'
      BY <1>0, <2>1, <2>3 DEF Values!Written
    <2>5. s8' = "returned" => s6' = s5' \/ (s6' = {} /\ s1' = "time" /\ Values!Unreadable')
      BY <1>0, <1>7, <2>1 DEF Values!Unmarshal, Values!Unreadable, Values!Outside
    <2>6. s8' = "refused" => \E v \in s4' : Values!Outside(v)'
      <3>1. s8' = "refused" => Values!Unreadable
        BY <1>7 DEF Values!Unmarshal
      <3>2. s8' = "refused" => \E v \in s4 : Values!Outside(v)
        BY <1>0, <2>3, <3>1, OutsideIs
      <3>3. QED BY <2>1, <3>2 DEF Values!Outside
    <2>7. QED BY <2>1, <2>2, <2>3, <2>4, <2>5, <2>6, <1>g DEF Values!StagesFollow
  <1>8. CASE Values!Truncate
    <2>1. PICK limit \in Limits :
            s7' = [limit |-> limit, runes |-> Values!TruncateStr(s2, limit),
                   bytes |-> Values!TruncateStrBytes(s2, limit)]
      BY <1>8 DEF Values!Truncate
    <2>2. s7'.limit = limit /\ s7'.runes = Values!TruncateStr(s2, limit)
      BY <2>1
    <2>3. s8' = "cut" /\ s1' = "text" /\ s7'.runes = Values!TruncateStr(s2', s7'.limit)
      BY <1>0, <1>8, <2>2 DEF Values!Truncate
    <2>4. QED BY <2>1, <2>2, <2>3, <1>g DEF Values!StagesFollow
  <1>9. QED BY <1>1, <1>2, <1>3, <1>4, <1>5, <1>6, <1>7, <1>8 DEF Values!Next

LEMMA ValuesStep == ASSUME Values!Inductive, [Values!Next]_Values!vars PROVE Values!Inductive'
  BY ValuesType, ValuesStages DEF Values!Inductive

(* The beginning of a text of n characters is as long as that.             *)
LEMMA BeginningIs ==
  ASSUME NEW text \in Seq(Nat), NEW n \in 0..Len(text)
  PROVE  Len(Values!Prefix(text, n)) = n /\ (n = Len(text) => Values!Prefix(text, n) = text)
  <1>1. Len(text) \in Nat /\ \A k \in 1..n : text[k] \in Nat
    OBVIOUS
  <1>2. /\ Values!Prefix(text, n) \in Seq(Nat) /\ Len(Values!Prefix(text, n)) = n
        /\ \A k \in 1..n : Values!Prefix(text, n)[k] = text[k]
    BY <1>1, SubSeqProperties DEF Values!Prefix
  <1>3. n = Len(text) => Values!Prefix(text, n) = text
    BY <1>2, SeqEqual
  <1>4. QED BY <1>2, <1>3

(* What a column keeps is what is read from it.                            *)
LEMMA ReadIsStored ==
  ASSUME Values!Given, s1 # "text", Values!Kept, s4 = Values!RefFromSql(s3)
  PROVE  Values!Stored
  <1> DEFINE held == s3.v
  <1>1. held \in Values!Held(Values!Column.v) /\ s4 = IF Values!Column.valid THEN {held} ELSE {}
    BY DEF Values!Kept, Values!RefFromSql
  <1> HIDE DEF held
  <1>2. CASE s1 \in Values!ByValue
    <2>1. Values!Column.v = s2 /\ (Values!Column.valid <=> s2 # 0)
      BY <1>2 DEF Values!Column, Values!ByValue, Values!SqlNull
    <2>2. CASE s2 # 0
      <3>1. s4 = {held} /\ held \in Values!Held(s2)
        BY <1>1, <2>1, <2>2
      <3>2. Values!FromRef({held}) = held /\ {held} # {}
        BY DEF Values!FromRef, Values!Deref
      <3>3. QED BY <1>2, <2>2, <3>1, <3>2 DEF Values!Stored
    <2>3. CASE s2 = 0
      <3>1. s4 = {} /\ Values!FromRef({}) = 0
        BY <1>1, <2>1, <2>3 DEF Values!FromRef
      <3>2. 0 \in Values!Held(0)
        BY DEF Values!Held
      <3>3. QED BY <1>2, <2>3, <3>1, <3>2 DEF Values!Stored
    <2>4. QED BY <2>2, <2>3
  <1>3. CASE s1 \notin Values!ByValue
    <2>1. s2 \in Values!Pointers
      BY <1>3 DEF Values!Given
    <2>2. CASE s2 = {}
      <3>1. {Values!Int32(v) : v \in s2} = {}
        BY <2>2
      <3>2. Values!Column = Values!SqlNullRef({})
        BY <1>3, <2>2, <3>1 DEF Values!Column, Values!SqlNullIntRef
      <3>3. ~Values!Column.valid
        BY <3>2 DEF Values!SqlNullRef
      <3>4. QED BY <1>1, <1>3, <2>2, <3>3 DEF Values!Stored
    <2>3. ASSUME NEW v, s2 = {v}, s1 # "int" \/ v = Values!Int32(v) PROVE Values!Stored
      <3>1. s1 = "int" => {Values!Int32(w) : w \in s2} = {v}
        BY <2>3
      <3>2. Values!Column = Values!SqlNullRef({v})
        BY <1>3, <2>3, <3>1 DEF Values!Column, Values!SqlNullIntRef
      <3>3. Values!Column.valid /\ Values!Column.v = v
        BY <3>2 DEF Values!SqlNullRef, Values!Deref
      <3>4. s4 = {held} /\ held \in Values!Held(v)
        BY <1>1, <3>3
      <3>5. QED BY <1>3, <2>3, <3>4 DEF Values!Stored
    <2>4. ASSUME NEW v, s2 = {v}, s1 = "int", v # Values!Int32(v) PROVE Values!Stored
      BY <1>3, <2>4 DEF Values!Stored
    <2>5. QED BY <2>1, <2>2, <2>3, <2>4 DEF Values!Pointers
  <1>4. QED BY <1>2, <1>3

(* What was stored is what is read, sent and read back.                    *)
LEMMA ValuesSafe == Values!Inductive => Values!ValueSurvives
  <1> SUFFICES ASSUME Values!Inductive PROVE Values!ValueSurvives
    OBVIOUS
  <1>0. Values!Given /\ Values!StagesFollow
    BY DEF Values!Inductive
  <1>1. ASSUME s8 \in {"loaded", "sent", "returned", "refused"} PROVE Values!Stored
    <2>1. s1 # "text" /\ \/ s4 = s2 /\ s1 \in Values!OnTheWire
                         \/ s4 = Values!RefFromSql(s3) /\ Values!Kept
      BY <1>0, <1>1 DEF Values!StagesFollow
    <2>2. CASE s4 = s2 /\ s1 \in Values!OnTheWire
      BY <2>2 DEF Values!Stored, Values!OnTheWire, Values!ByValue
    <2>3. CASE s4 = Values!RefFromSql(s3) /\ Values!Kept
      BY <1>0, <2>1, <2>3, ReadIsStored
    <2>4. QED BY <2>1, <2>2, <2>3
  <1>2. ASSUME s8 \in {"sent", "returned"}
        PROVE  /\ s1 \in Values!OnTheWire
               /\ s1 = "time" => s5 = {Values!Second(v) : v \in s4}
               /\ s1 = "date" => s5 = {Values!Day(v) : v \in s4 \ {0}}
               /\ s1 \notin {"time", "date"} => s5 = s4
               /\ Values!Unreadable => \E v \in s4 : Values!Outside(v)
    <2>1. s1 \in Values!OnTheWire /\ s5 = UNION {Values!Written(v) : v \in s4}
      BY <1>0, <1>2 DEF Values!StagesFollow
    <2>2. s1 = "time" => s5 = {Values!Second(v) : v \in s4}
      BY <2>1 DEF Values!Written
    <2>3. s1 = "date" => s5 = {Values!Day(v) : v \in s4 \ {0}}
      BY <2>1 DEF Values!Written
    <2>4. s1 \notin {"time", "date"} => s5 = s4
      BY <2>1 DEF Values!Written
    <2>5. Values!Unreadable => \E v \in s4 : Values!Outside(v)
      BY <2>1, OutsideIs DEF Values!Inductive
    <2>6. QED BY <2>1, <2>2, <2>3, <2>4, <2>5
  <1>3. ASSUME s8 = "returned" PROVE Values!Returned
    <2>1. s6 = s5 \/ (s6 = {} /\ s1 = "time" /\ Values!Unreadable)
      BY <1>0, <1>3 DEF Values!StagesFollow
    <2>2. QED BY <1>2, <1>3, <2>1 DEF Values!Returned
  <1>4. ASSUME s8 = "refused" PROVE \E v \in s4 : Values!Outside(v)
    BY <1>0, <1>4 DEF Values!StagesFollow
  <1>5. ASSUME s8 = "cut" PROVE Values!Whole
    <2>1. s1 = "text" /\ s7.limit \in Nat /\ s7.runes = Values!TruncateStr(s2, s7.limit)
      BY <1>0, <1>5, ValuesAssumption DEF Values!StagesFollow
    <2>2. s2 \in Seq(Nat) /\ Len(s2) \in Nat
      BY <1>0, <2>1, ValuesAssumption DEF Values!Given, Values!ByValue, Values!ByPointer
    <2>3. CASE Len(s2) < s7.limit
      BY <2>1, <2>2, <2>3, BeginningIs DEF Values!TruncateStr, Values!Whole
    <2>4. CASE ~(Len(s2) < s7.limit)
      <3>1. s7.limit \in 0..Len(s2)
        BY <2>1, <2>2, <2>4
      <3>2. s7.runes = Values!Prefix(s2, s7.limit)
        BY <2>1, <2>4 DEF Values!TruncateStr
      <3>3. Len(s7.runes) = s7.limit
        BY <2>2, <3>1, <3>2, BeginningIs
      <3>4. QED BY <3>2, <3>3 DEF Values!Whole
    <2>5. QED BY <2>3, <2>4
  <1>6. QED BY <1>1, <1>3, <1>4, <1>5 DEF Values!ValueSurvives

-----------------------------------------------------------------------------
(* The request log.                                                        *)

USE HttpLogAssumption

(* It holds before the first write.                                        *)
LEMMA LogInit == Init => Inductive
  BY DEF Init, Inductive, TypeOK, BufferOK, LoggedIsBeginning, LoggedIsPrefix, LoggedIsEnough

(* The numbers of n bytes after the first f.                               *)
LEMMA BytesAre ==
  ASSUME NEW f \in Nat, NEW n \in Nat
  PROVE  /\ Bytes(f, n) \in Seq(Nat) /\ Len(Bytes(f, n)) = n
         /\ \A j \in 1..n : Bytes(f, n)[j] = f + j
  <1>1. Bytes(f, n) \in [1..n -> Nat]
    BY DEF Bytes
  <1>2. Bytes(f, n) \in Seq(Nat)
    BY <1>1, IsASeq
  <1>3. QED BY <1>1, <1>2, LenProperties DEF Bytes

(* A write that finds room appends the next bytes of the body.             *)
LEMMA WriteStep ==
  ASSUME Inductive, NEW n \in 0..MaxWrite, Write(n) PROVE Inductive'
  <1> DEFINE k == IF n < Limit THEN n ELSE Limit
  <1>1. /\ body \in 0..MaxBody /\ buffer \in Seq(Nat) /\ n \in Nat /\ k \in Nat
        /\ k <= n /\ k <= Limit /\ (k = n \/ k = Limit)
    BY DEF Inductive, TypeOK
  <1>2a. Len(buffer) < Limit => buffer' = buffer \o Bytes(body, k)
    BY <1>1 DEF Write, Kept
  <1> HIDE DEF k
  <1>2. body' \in 0..MaxBody /\ body' = body + n /\ UNCHANGED <<failed, state, logged>>
    BY <1>1 DEF Write
  <1>3. CASE Len(buffer) >= Limit
    BY <1>1, <1>2, <1>3 DEF Inductive, TypeOK, BufferOK, LoggedIsBeginning, LoggedIsPrefix,
                            LoggedIsEnough, Write
  <1>4. CASE Len(buffer) < Limit
    <2>1. buffer' = buffer \o Bytes(body, k)
      BY <1>2a, <1>4
    <2>2. /\ Bytes(body, k) \in Seq(Nat) /\ Len(Bytes(body, k)) = k
          /\ \A j \in 1..k : Bytes(body, k)[j] = body + j
      <3>1. body \in Nat
        BY <1>1, HttpLogAssumption
      <3>2. QED BY <3>1, <1>1, BytesAre
    <2> DEFINE b == Bytes(body, k)
    <2> HIDE DEF b
    <2>2a. /\ b \in Seq(Nat) /\ Len(b) = k /\ buffer' = buffer \o b
           /\ \A j \in 1..k : b[j] = body + j
      BY <2>1, <2>2 DEF b
    <2>3. /\ buffer' \in Seq(Nat) /\ Len(buffer') = Len(buffer) + k
          /\ \A j \in 1..Len(buffer) : buffer'[j] = buffer[j]
          /\ \A j \in Len(buffer) + 1..Len(buffer) + k : buffer'[j] = body + (j - Len(buffer))
      <3> DEFINE c == buffer \o b
      <3>1. c \in Seq(Nat) /\ Len(c) = Len(buffer) + Len(b)
        BY <1>1, <2>2a, ConcatProperties
      <3>2. \A j \in 1..Len(c) : c[j] = IF j <= Len(buffer) THEN buffer[j] ELSE b[j - Len(buffer)]
        BY <1>1, <2>2a, ConcatProperties
      <3>3. Len(buffer) \in Nat /\ Len(b) \in Nat
        BY <1>1, <2>2a, LenProperties
      <3> HIDE DEF c
      <3>4. buffer' = c
        BY <2>2a DEF c
      <3>5. buffer' \in Seq(Nat) /\ Len(buffer') = Len(buffer) + k
        BY <2>2a, <3>1, <3>4
      <3>6. \A j \in 1..Len(buffer) : buffer'[j] = buffer[j]
        BY <2>2a, <3>1, <3>2, <3>3, <3>4, <1>1
      <3>7. \A j \in Len(buffer) + 1..Len(buffer) + k : buffer'[j] = body + (j - Len(buffer))
        BY <2>2a, <3>1, <3>2, <3>3, <3>4, <1>1
      <3>8. QED BY <3>5, <3>6, <3>7
    <2>4. Len(buffer) = body
      BY <1>4, <1>1 DEF Inductive, BufferOK, Write
    <2>5. \A j \in 1..Len(buffer') : buffer'[j] = j
      BY <1>1, <2>3, <2>4 DEF Inductive, BufferOK
    <2>6. BufferOK'
      <3>1. Len(buffer) \in Nat /\ Limit \in Nat /\ body \in Nat
        BY <1>1, LenProperties, HttpLogAssumption
      <3>2. Len(buffer') <= body' /\ Len(buffer') < 2 * Limit
        BY <1>1, <1>2, <1>4, <2>3, <2>4, <3>1
      <3>3. Len(buffer') = body' \/ Len(buffer') >= Limit
        BY <1>1, <1>2, <2>3, <2>4, <3>1
      <3>4. state = "serving" /\ logged = <<>> /\ logged' = logged
        BY <1>2 DEF Inductive, BufferOK, Write
      <3>5. QED BY <3>2, <3>3, <3>4, <2>5 DEF BufferOK
    <2>7. QED BY <1>1, <1>2, <2>3, <2>6 DEF Inductive, TypeOK, LoggedIsBeginning, LoggedIsPrefix,
                                            LoggedIsEnough, Write
  <1>5. QED BY <1>1, <1>3, <1>4

(* Logging moves the buffer to the log, or leaves it.                      *)
LEMMA LogEntryStep == ASSUME Inductive, LogEntry PROVE Inductive'
  BY DEF LogEntry, Inductive, TypeOK, BufferOK, LoggedIsBeginning, LoggedIsPrefix, LoggedIsEnough

(* Whatever is written or logged next.                                     *)
LEMMA LogStep == ASSUME Inductive, [Next]_vars PROVE Inductive'
  <1>1. CASE UNCHANGED vars
    BY <1>1 DEF vars, Inductive, TypeOK, BufferOK, LoggedIsBeginning, LoggedIsPrefix, LoggedIsEnough
  <1>2. QED BY <1>1, WriteStep, LogEntryStep DEF Next

-----------------------------------------------------------------------------
(* All together.                                                           *)

(* The component that runs keeps its own invariant, and the log its in any *)
(* case: it rests while another component runs.                            *)
CallsInv == /\ Inductive
            /\ part \in {"log", "gql", "list", "accounts", "ntp", "url", "jwt", "captcha", "cors",
                        "mail", "migrate", "values"}
            /\ part = "log" => Rest1
            /\ part = "gql" => Gql!Inductive
            /\ part = "list" => Cognito!Inductive
            /\ part = "accounts" => Accounts!Inductive
            /\ part = "ntp" => NtpTime!Inductive
            /\ part = "url" => UrlSigner!Inductive
            /\ part = "jwt" => Jwt!Inductive
            /\ part = "captcha" => Captcha!Inductive
            /\ part = "cors" => Cors!Inductive
            /\ part = "mail" => Mailer!Inductive
            /\ part = "migrate" => Migrate!Inductive
            /\ part = "values" => Values!Inductive

LEMMA CallsInitInv == CallsInit => CallsInv
  <1> SUFFICES ASSUME CallsInit PROVE CallsInv
    OBVIOUS
  <1>1. Inductive
    BY LogInit DEF CallsInit, LogRests
  <1>2. QED BY <1>1, GqlInit, CognitoInit, AccountsInit, NtpInit, UrlInit, JwtInit, CaptchaInit,
               CorsInit, MailInit, MigrateInit, ValuesInit DEF CallsInit, CallsInv

(* A step is one of the component that runs, or none of its variables      *)
(* changes.                                                                *)
LEMMA StepIs ==
  ASSUME [CallsNext]_<<part, vars, calls>>
  PROVE  /\ part' = part
         /\ [Next]_vars
         /\ part = "log" => UNCHANGED calls
         /\ part = "gql" => [Gql!Next]_Gql!vars
         /\ part = "list" => [Cognito!Next]_Cognito!vars
         /\ part = "accounts" => [Accounts!Next]_Accounts!vars
         /\ part = "ntp" => [NtpTime!Next]_NtpTime!vars
         /\ part = "url" => [UrlSigner!Next]_UrlSigner!vars
         /\ part = "jwt" => [Jwt!Next]_Jwt!vars
         /\ part = "captcha" => [Captcha!Next]_Captcha!vars
         /\ part = "cors" => [Cors!Next]_Cors!vars
         /\ part = "mail" => [Mailer!Next]_Mailer!vars
         /\ part = "migrate" => [Migrate!Next]_Migrate!vars
         /\ part = "values" => [Values!Next]_Values!vars
  <1>1. CASE UNCHANGED <<part, vars, calls>>
    BY <1>1 DEF calls, Gql!vars, Cognito!vars, Accounts!vars, NtpTime!vars, UrlSigner!vars,
                Jwt!vars, Captcha!vars, Cors!vars, Mailer!vars, Migrate!vars, Values!vars
  <1>2. CASE CallsNext
    BY <1>2 DEF CallsNext
  <1>3. QED BY <1>1, <1>2

LEMMA CallsStepInv ==
  ASSUME CallsInv, [CallsNext]_<<part, vars, calls>> PROVE CallsInv'
  <1>1. /\ part' = part
        /\ Inductive'
    BY StepIs, LogStep DEF CallsInv
  <1>2. part = "gql" => Gql!Inductive'
    BY StepIs, GqlStep DEF CallsInv
  <1>3. part = "accounts" => Accounts!Inductive'
    BY StepIs, AccountsStep DEF CallsInv
  <1>4. part = "ntp" => NtpTime!Inductive'
    BY StepIs, NtpStep DEF CallsInv
  <1>5. part = "url" => UrlSigner!Inductive'
    BY StepIs, UrlStep DEF CallsInv
  <1>6. part = "jwt" => Jwt!Inductive'
    BY StepIs, JwtStep DEF CallsInv
  <1>7. part = "captcha" => Captcha!Inductive'
    BY StepIs, CaptchaStep DEF CallsInv
  <1>8. part = "cors" => Cors!Inductive'
    BY StepIs, CorsStep DEF CallsInv
  <1>9. part = "migrate" => Migrate!Inductive'
    BY StepIs, MigrateStep DEF CallsInv
  <1>10. part = "values" => Values!Inductive'
    BY StepIs, ValuesStep DEF CallsInv
  <1>11. part = "list" => Cognito!Inductive'
    BY StepIs, CognitoStep DEF CallsInv
  <1>12. part = "mail" => Mailer!Inductive'
    BY StepIs, MailStep DEF CallsInv
  <1>13. part = "log" => Rest1'
    BY StepIs DEF CallsInv, calls, Rest1, Rest3, Rest4, Rest5, Rest6, Rest7, Rest8
  <1>14. QED BY <1>1, <1>2, <1>3, <1>4, <1>5, <1>6, <1>7, <1>8, <1>9, <1>10, <1>11, <1>12, <1>13
             DEF CallsInv

(* The invariants hold of every component, whatever the others are.        *)
THEOREM CallsInvariance == CallsSpec => []CallsInv
  BY CallsInitInv, CallsStepInv, PTL DEF CallsSpec

(* Every component's variables keep to what its calls may hold, with any   *)
(* inputs that the assumptions admit; the log's while others run as well.  *)
THEOREM CallsTyping == CallsSpec => []CallsTypeOK
  <1> SUFFICES ASSUME CallsInv PROVE CallsTypeOK
    BY CallsInvariance, PTL
  <1>1. TypeOK
    BY DEF CallsInv, Inductive
  <1>2. /\ part = "log" => Rest1
        /\ part = "gql" => Gql!TypeOK
        /\ part = "url" => UrlSigner!TypeOK
    BY GqlTyped, UrlTyped DEF CallsInv
  <1>3. /\ part = "list" => Cognito!TypeOK
        /\ part = "accounts" => Accounts!TypeOK
        /\ part = "ntp" => NtpTime!TypeOK
        /\ part = "jwt" => Jwt!TypeOK
        /\ part = "captcha" => Captcha!TypeOK
    BY DEF CallsInv, Cognito!Inductive, Accounts!Inductive, NtpTime!Inductive, Jwt!Inductive,
           Captcha!Inductive
  <1>4. /\ part = "cors" => Cors!TypeOK
        /\ part = "mail" => Mailer!TypeOK
        /\ part = "migrate" => Migrate!TypeOK
        /\ part = "values" => Values!TypeOK
    BY DEF CallsInv, Cors!Inductive, Mailer!Inductive, Migrate!Inductive, Values!Inductive
  <1>5. part \in {"log", "gql", "list", "accounts", "ntp", "url"} => CallsTypeOK
    BY <1>1, <1>2, <1>3 DEF CallsTypeOK
  <1>6. part \in {"jwt", "captcha", "cors", "mail", "migrate", "values"} => CallsTypeOK
    BY <1>1, <1>3, <1>4 DEF CallsTypeOK
  <1>7. QED BY <1>5, <1>6 DEF CallsInv

(* logger.go: what is logged of a failed request is the beginning of its   *)
(* body, up to the limit at least, and the buffer stays below twice it.    *)
THEOREM LogsFaithfully == CallsSpec => []LogIsFaithful
  <1>1. CallsInv => LogIsFaithful
    BY DEF CallsInv, Inductive, BufferOK, LogIsFaithful, MemoryIsBounded
  <1>2. QED BY <1>1, CallsInvariance, PTL

(* graphql.go: a resolver sees a field that all its directives admit.      *)
THEOREM ResolvesValid == CallsSpec => []ResolvedIsValid
  <1>1. CallsInv => ResolvedIsValid
    BY GqlResolved DEF CallsInv, ResolvedIsValid
  <1>2. QED BY <1>1, CallsInvariance, PTL

(* graphql.go: no text of an error that is not a client's reaches one, and *)
(* a client is told why its value was refused.                             *)
THEOREM TellsClients == CallsSpec => []ErrorsFindTheirReader
  <1>1. CallsInv => ErrorsFindTheirReader
    BY GqlErrors DEF CallsInv, ErrorsFindTheirReader
  <1>2. QED BY <1>1, CallsInvariance, PTL

(* cognito.go: a listing that succeeds has every user of the pool, in the  *)
(* pool's order, however many pages of any size they come in.              *)
THEOREM ListsAll == CallsSpec => []ListIsComplete
  <1>1. CallsInv => ListIsComplete
    BY DEF CallsInv, Cognito!Inductive, ListIsComplete
  <1>2. QED BY <1>1, CallsInvariance, PTL

(* cognito.go: a user is created with its own email, whatever calls run at *)
(* the same time.                                                          *)
THEOREM OwnEmail == CallsSpec => []EmailIsTheirOwn
  <1>1. CallsInv => EmailIsTheirOwn
    BY DEF CallsInv, Accounts!Inductive, EmailIsTheirOwn
  <1>2. QED BY <1>1, CallsInvariance, PTL

(* ntp_time.go: an offset is never used an hour after it was measured.     *)
THEOREM FreshOffset == CallsSpec => []OffsetIsFresh
  <1>1. CallsInv => OffsetIsFresh
    BY DEF CallsInv, NtpTime!Inductive, OffsetIsFresh
  <1>2. QED BY <1>1, CallsInvariance, PTL

(* url_signer.go: a link that passes was signed and lasts, but for what of *)
(* its path is parsed as authorities; one that was signed passes as long   *)
(* as it lasts, just if at most one piece of its path is.  What its        *)
(* numbers are written as makes no difference.                             *)
THEOREM LinksAreSigned == CallsSpec => []SignedPasses
  <1>1. CallsInv => SignedPasses
    BY UrlPassed, UrlPasses DEF CallsInv, SignedPasses
  <1>2. QED BY <1>1, CallsInvariance, PTL

(* jwt.go: what a handler reads of its caller is signed, valid and of its  *)
(* own request, however requests interleave.                               *)
THEOREM ActsOnSigned == CallsSpec => []SeenIsSigned
  <1>1. CallsInv => SeenIsSigned
    BY DEF CallsInv, Jwt!Inductive, SeenIsSigned
  <1>2. QED BY <1>1, CallsInvariance, PTL

(* recaptcha.go, turnstile.go: only who was vouched for passes.            *)
THEOREM VouchesFirst == CallsSpec => []PassedIsVouched
  <1>1. CallsInv => PassedIsVouched
    BY DEF CallsInv, Captcha!Inductive, PassedIsVouched
  <1>2. QED BY <1>1, CallsInvariance, PTL

(* middleware.go: an origin is allowed just if a pattern of the list       *)
(* becomes it, or its two ends overlap in it.                              *)
THEOREM AllowsListed == CallsSpec => []AllowedIsListed
  <1>1. CallsInv => AllowedIsListed
    BY CorsSafe DEF CallsInv, AllowedIsListed
  <1>2. QED BY <1>1, CallsInvariance, PTL

(* ses.go: everyone on a mail's lists, however long these are, is sent the *)
(* mail or is warned of, never both, and only addresses of safe domains    *)
(* are sent it if any are listed.                                          *)
THEOREM AccountsForEveryone == CallsSpec => []EveryoneIsAccountedFor
  <1>1. CallsInv => EveryoneIsAccountedFor
    BY DEF CallsInv, Mailer!Inductive, EveryoneIsAccountedFor
  <1>2. QED BY <1>1, CallsInvariance, PTL

(* migrate.go: nothing is undone or dropped but on the y of a read of its  *)
(* own for each question, whatever bytes arrive, in pieces of any size,    *)
(* and however many of them a reader holds.                                *)
THEOREM ConfirmsHarm == CallsSpec => []HarmIsConfirmed
  <1>1. CallsInv => HarmIsConfirmed
    BY MigrateSafe DEF CallsInv, HarmIsConfirmed
  <1>2. QED BY <1>1, CallsInvariance, PTL

(* util.go, scalars: a value survives its column, down to what that keeps  *)
(* of a time, and its wire, but for years that are not written in four     *)
(* digits; and a text that is cut keeps its beginning.                     *)
THEOREM ValuesSurvive == CallsSpec => []ValueSurvives
  <1>1. CallsInv => ValueSurvives
    BY ValuesSafe DEF CallsInv, ValueSurvives
  <1>2. QED BY <1>1, CallsInvariance, PTL
=============================================================================
