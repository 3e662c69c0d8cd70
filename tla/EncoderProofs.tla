---------------------------- MODULE EncoderProofs ----------------------------
(***************************************************************************)
(* Proofs about Encoder, for every set of values, order of keys and        *)
(* indent: the lines of its output are indented by their depth, and its    *)
(* output is a document that denotes the value.                            *)
(***************************************************************************)
EXTENDS EncoderGrammar, GrammarProofs

-----------------------------------------------------------------------------
(* Sequences of calls *)

Scalars    == {"null", "boolean", "integer", "decimal", "string"}
Delimiters == {"array_delimiter", "object_delimiter"}
Writes     == Scalars \cup OpeningBrackets \cup ClosingBrackets \cup Delimiters \cup {"object_key"}
Contents   == {""} \cup Range(KeyOrder) \cup UNION {{v[p].content : p \in DOMAIN v} : v \in Sources}
CallRecords == [write : Writes, content : Contents]

\* What a call does to the depth.
Change(call) == IF call.write \in OpeningBrackets THEN 1 ELSE IF call.write \in ClosingBrackets THEN -1 ELSE 0

\* Calls after which the depth is not a before them but b, and never below 0.
IsLevels(h, q, a, b) ==
    /\ h[0] = a /\ h[Len(q)] = b
    /\ \A i \in 1 .. Len(q) : h[i] = h[i - 1] + Change(q[i])
LevelsLead(q, a, b) == \E h \in [0 .. Len(q) -> Nat] : IsLevels(h, q, a, b)

\* What may come after what: an element has to follow a delimiter or a key.
MayFollow(c, d) ==
    /\ c.write \in Delimiters \cup {"object_key"} => d.write \notin ClosingBrackets \cup Delimiters
    /\ c.write \in OpeningBrackets => d.write \notin Delimiters
Chained(q) == \A i \in 1 .. Len(q) - 1 : MayFollow(q[i], q[i + 1])

\* The calls for whole elements.
Whole(q) ==
    /\ q # <<>>
    /\ q[1].write \notin ClosingBrackets \cup Delimiters
    /\ q[Len(q)].write \notin OpeningBrackets \cup Delimiters \cup {"object_key"}
    /\ Chained(q) /\ LevelsLead(q, 0, 0)
WholeCalls == {q \in Seq(CallRecords) : Whole(q)}

\* A call changes the depth by an integer.
LEMMA ChangeIsInt == \A c \in CallRecords : Change(c) \in Int
  BY DEF Change

\* LevelsLead of a sequence on top of another level.
LEMMA LevelsUpon ==
  ASSUME NEW q \in Seq(CallRecords), NEW a \in Nat, NEW b \in Nat, NEW n \in Nat, LevelsLead(q, a, b)
  PROVE  LevelsLead(q, a + n, b + n)
<1>1. PICK h \in [0 .. Len(q) -> Nat] : IsLevels(h, q, a, b)
  BY DEF LevelsLead
<1>. DEFINE g == [i \in 0 .. Len(q) |-> h[i] + n]
<1>2. Len(q) \in Nat /\ \A i \in 1 .. Len(q) : q[i] \in CallRecords
  BY LenProperties, ElementOfSeq
<1>3. g \in [0 .. Len(q) -> Nat] /\ \A i \in 0 .. Len(q) : g[i] = h[i] + n
  OBVIOUS
<1>4. \A i \in 1 .. Len(q) : g[i] = g[i - 1] + Change(q[i])
  <2>. SUFFICES ASSUME NEW i \in 1 .. Len(q) PROVE g[i] = g[i - 1] + Change(q[i])
    OBVIOUS
  <2>1. i \in 0 .. Len(q) /\ i - 1 \in 0 .. Len(q) /\ h[i] = h[i - 1] + Change(q[i]) /\ Change(q[i]) \in Int
    BY <1>1, <1>2, ChangeIsInt DEF IsLevels
  <2>2. h[i] \in Nat /\ h[i - 1] \in Nat
    BY <2>1
  <2>3. g[i] = h[i] + n /\ g[i - 1] = h[i - 1] + n
    <3>. HIDE DEF g
    <3>. QED
      BY <1>3, <2>1
  <2>. HIDE DEF g, Change
  <2>4. \A x, y \in Nat, z \in Int : x = y + z => x + n = (y + n) + z
    OBVIOUS
  <2>. QED
    BY <2>1, <2>2, <2>3, <2>4
<1>5. g[0] = a + n /\ g[Len(q)] = b + n
  BY <1>1, <1>2, <1>3 DEF IsLevels
<1>. HIDE DEF g
<1>. QED
  BY <1>3, <1>4, <1>5 DEF LevelsLead, IsLevels

\* The levels of calls and of those behind them.
LEMMA LevelsOfConcat ==
  ASSUME NEW q \in Seq(CallRecords), NEW r \in Seq(CallRecords), NEW a \in Nat, NEW b \in Nat, NEW c \in Nat,
         LevelsLead(q, a, b), LevelsLead(r, b, c)
  PROVE  LevelsLead(q \o r, a, c)
<1>1. PICK h \in [0 .. Len(q) -> Nat] : IsLevels(h, q, a, b)
  BY DEF LevelsLead
<1>2. PICK g \in [0 .. Len(r) -> Nat] : IsLevels(g, r, b, c)
  BY DEF LevelsLead
<1>. DEFINE m == Len(q)
            n == Len(r)
            s == q \o r
            f == [i \in 0 .. m + n |-> IF i <= m THEN h[i] ELSE g[i - m]]
<1>3. /\ m \in Nat /\ n \in Nat /\ Len(s) = m + n
      /\ \A i \in 1 .. m + n : s[i] = IF i <= m THEN q[i] ELSE r[i - m]
  BY LenProperties, ConcatProperties
<1>4. /\ h \in [0 .. m -> Nat] /\ h[0] = a /\ h[m] = b /\ \A i \in 1 .. m : h[i] = h[i - 1] + Change(q[i])
      /\ g \in [0 .. n -> Nat] /\ g[0] = b /\ g[n] = c /\ \A i \in 1 .. n : g[i] = g[i - 1] + Change(r[i])
  BY <1>1, <1>2 DEF IsLevels
<1>. HIDE DEF m, n, s
<1>5. f \in [0 .. m + n -> Nat]
  BY <1>3, <1>4
<1>6. \A i \in m .. m + n : f[i] = g[i - m]
  <2>. SUFFICES ASSUME NEW i \in m .. m + n PROVE f[i] = g[i - m]
    OBVIOUS
  <2>1. i \in 0 .. m + n
    BY <1>3
  <2>2. CASE i = m
    BY <1>3, <1>4, <2>1, <2>2
  <2>3. CASE i # m
    BY <1>3, <2>1, <2>3
  <2>. QED
    BY <2>2, <2>3
<1>7. \A i \in 0 .. m : f[i] = h[i]
  BY <1>3
<1>. HIDE DEF f
<1>8. ASSUME NEW i \in 1 .. m + n PROVE f[i] = f[i - 1] + Change(s[i])
  <2>1. CASE i <= m
    <3>1. i \in 0 .. m /\ i - 1 \in 0 .. m /\ i \in 1 .. m
      BY <1>3, <2>1
    <3>. QED
      BY <1>3, <1>4, <1>7, <2>1, <3>1
  <2>2. CASE ~(i <= m)
    <3>1. i \in m .. m + n /\ i - 1 \in m .. m + n /\ i - m \in 1 .. n /\ (i - 1) - m = (i - m) - 1
      BY <1>3, <2>2
    <3>2. f[i] = g[i - m] /\ f[i - 1] = g[(i - m) - 1] /\ s[i] = r[i - m]
      BY <1>3, <1>6, <2>2, <3>1
    <3>. QED
      BY <1>4, <3>1, <3>2
  <2>. QED
    BY <2>1, <2>2
<1>9. f[0] = a /\ f[m + n] = c
  <2>1. 0 \in 0 .. m /\ m + n \in m .. m + n /\ (m + n) - m = n
    BY <1>3
  <2>. QED
    BY <1>4, <1>6, <1>7, <2>1
<1>. QED
  BY <1>3, <1>5, <1>8, <1>9 DEF LevelsLead, IsLevels, s

\* The levels of a single call.
LEMMA LevelsOfOne ==
  ASSUME NEW c \in CallRecords, NEW a \in Nat, NEW b \in Nat, b = a + Change(c)
  PROVE  <<c>> \in Seq(CallRecords) /\ LevelsLead(<<c>>, a, b)
<1>. DEFINE h == [i \in 0 .. 1 |-> IF i = 0 THEN a ELSE b]
<1>1. <<c>> \in Seq(CallRecords) /\ Len(<<c>>) = 1 /\ <<c>>[1] = c
  OBVIOUS
<1>2. h \in [0 .. 1 -> Nat] /\ h[0] = a /\ h[1] = b
  OBVIOUS
<1>. HIDE DEF h
<1>3. \A i \in 1 .. 1 : h[i] = h[i - 1] + Change(<<c>>[i])
  <2>1. \A i \in 1 .. 1 : i = 1 /\ i - 1 = 0
    OBVIOUS
  <2>. QED
    BY <1>1, <1>2, <2>1
<1>. QED
  BY <1>1, <1>2, <1>3 DEF LevelsLead, IsLevels

\* Two chains make one, if the second may follow the first.
LEMMA ChainedConcat ==
  ASSUME NEW q \in Seq(CallRecords), NEW r \in Seq(CallRecords), Chained(q), Chained(r),
         q # <<>> /\ r # <<>> => MayFollow(q[Len(q)], r[1])
  PROVE  Chained(q \o r)
<1>. DEFINE m == Len(q)
            n == Len(r)
            s == q \o r
<1>1. /\ m \in Nat /\ n \in Nat /\ Len(s) = m + n
      /\ \A i \in 1 .. m + n : s[i] = IF i <= m THEN q[i] ELSE r[i - m]
      /\ m > 0 => q # <<>>
      /\ n > 0 => r # <<>>
  BY LenProperties, ConcatProperties, EmptySeq
<1>2. SUFFICES ASSUME NEW i \in 1 .. m + n - 1 PROVE MayFollow(s[i], s[i + 1])
  BY <1>1 DEF Chained
<1>3. /\ \A j \in 1 .. m - 1 : MayFollow(q[j], q[j + 1])
      /\ \A j \in 1 .. n - 1 : MayFollow(r[j], r[j + 1])
      /\ m > 0 /\ n > 0 => MayFollow(q[m], r[1])
  BY <1>1 DEF Chained
<1>. HIDE DEF m, n, s
<1>4. CASE i < m
  <2>1. i \in 1 .. m - 1 /\ s[i] = q[i] /\ s[i + 1] = q[i + 1]
    BY <1>1, <1>4
  <2>. QED
    BY <1>3, <2>1
<1>5. CASE i = m
  <2>1. s[i] = q[m] /\ s[i + 1] = r[1] /\ m > 0 /\ n > 0
    BY <1>1, <1>5
  <2>. QED
    BY <1>3, <2>1
<1>6. CASE i > m
  <2>1. i - m \in 1 .. n - 1 /\ s[i] = r[i - m] /\ s[i + 1] = r[(i - m) + 1]
    BY <1>1, <1>6
  <2>. QED
    BY <1>3, <2>1
<1>. QED
  BY <1>1, <1>4, <1>5, <1>6

\* A single call is a chain.
LEMMA ChainedOne == \A c : Chained(<<c>>)
  BY DEF Chained

\* The ends of a concatenation.
LEMMA EndsOfConcat ==
  ASSUME NEW S, NEW q \in Seq(S), NEW r \in Seq(S)
  PROVE  /\ q \o r \in Seq(S)
         /\ q # <<>> => q \o r # <<>> /\ (q \o r)[1] = q[1]
         /\ r # <<>> => q \o r # <<>> /\ (q \o r)[Len(q \o r)] = r[Len(r)]
<1>1. /\ Len(q) \in Nat /\ Len(r) \in Nat /\ q \o r \in Seq(S) /\ Len(q \o r) = Len(q) + Len(r)
      /\ \A i \in 1 .. Len(q) + Len(r) : (q \o r)[i] = IF i <= Len(q) THEN q[i] ELSE r[i - Len(q)]
      /\ q # <<>> => Len(q) > 0
      /\ r # <<>> => Len(r) > 0
  BY LenProperties, ConcatProperties, EmptySeq
<1>2. q \o r = <<>> => Len(q) = 0 /\ Len(r) = 0
  BY <1>1, EmptySeq
<1>. QED
  BY <1>1, <1>2

\* A single call, as a sequence.
LEMMA SingleCall ==
  ASSUME NEW w \in Writes, NEW c \in Contents
  PROVE  /\ Call(w, c) \in CallRecords /\ Call(w, c).write = w
         /\ <<Call(w, c)>> \in Seq(CallRecords) /\ <<Call(w, c)>> # <<>>
         /\ Len(<<Call(w, c)>>) = 1 /\ <<Call(w, c)>>[1] = Call(w, c)
         /\ Chained(<<Call(w, c)>>)
  BY ChainedOne DEF Call, CallRecords

\* The call for a scalar is whole.
LEMMA ScalarIsWhole ==
  ASSUME NEW w \in Scalars, NEW c \in Contents
  PROVE  <<Call(w, c)>> \in WholeCalls
<1>. DEFINE call == Call(w, c)
<1>1. w \in Writes /\ w \notin OpeningBrackets \cup ClosingBrackets \cup Delimiters \cup {"object_key"}
  BY DEF Writes, Scalars, OpeningBrackets, ClosingBrackets, Delimiters
<1>2. /\ call \in CallRecords /\ call.write = w
      /\ <<call>> \in Seq(CallRecords) /\ <<call>> # <<>> /\ Len(<<call>>) = 1 /\ <<call>>[1] = call
      /\ Chained(<<call>>)
  BY <1>1, SingleCall
<1>. HIDE DEF call
<1>3. Change(call) = 0
  BY <1>1, <1>2 DEF Change
<1>4. LevelsLead(<<call>>, 0, 0)
  BY <1>2, <1>3, LevelsOfOne
<1>5. <<call>> \in WholeCalls
  BY <1>1, <1>2, <1>4 DEF WholeCalls, Whole
<1>. QED
  BY <1>5 DEF call

\* An element behind the others of its container.
LEMMA DelimitedIsWhole ==
  ASSUME NEW q \in WholeCalls, NEW r \in WholeCalls, NEW w \in Delimiters
  PROVE  (q \o <<Call(w, "")>>) \o r \in WholeCalls
<1>. DEFINE d == Call(w, "")
            s == q \o <<d>>
<1>1. w \in Writes /\ w \notin OpeningBrackets \cup ClosingBrackets /\ "" \in Contents
  BY DEF Writes, OpeningBrackets, ClosingBrackets, Delimiters, Contents
<1>2. /\ d \in CallRecords /\ d.write = w
      /\ <<d>> \in Seq(CallRecords) /\ <<d>> # <<>> /\ Len(<<d>>) = 1 /\ <<d>>[1] = d
      /\ Chained(<<d>>)
  BY <1>1, SingleCall
<1>. HIDE DEF d
<1>3. LevelsLead(<<d>>, 0, 0)
  <2>1. Change(d) = 0
    BY <1>1, <1>2 DEF Change
  <2>. QED
    BY <1>2, <2>1, LevelsOfOne
<1>4. q \in Seq(CallRecords) /\ r \in Seq(CallRecords) /\ Whole(q) /\ Whole(r)
  BY DEF WholeCalls
<1>5. /\ s \in Seq(CallRecords) /\ s # <<>> /\ s[1] = q[1] /\ s[Len(s)] = d
      /\ Chained(s) /\ LevelsLead(s, 0, 0)
  <2>1. MayFollow(q[Len(q)], d)
    BY <1>1, <1>2, <1>4 DEF Whole, MayFollow, Delimiters, OpeningBrackets, ClosingBrackets
  <2>2. Chained(s)
    BY <1>2, <1>4, <2>1, ChainedConcat DEF Whole
  <2>3. LevelsLead(s, 0, 0)
    BY <1>2, <1>3, <1>4, LevelsOfConcat DEF Whole
  <2>. QED
    BY <1>2, <1>4, <2>2, <2>3, EndsOfConcat DEF Whole
<1>6. MayFollow(d, r[1])
  BY <1>1, <1>2, <1>4 DEF Whole, MayFollow, Delimiters, OpeningBrackets
<1>. HIDE DEF s
<1>7. /\ s \o r \in Seq(CallRecords) /\ s \o r # <<>> /\ (s \o r)[1] = q[1]
      /\ (s \o r)[Len(s \o r)] = r[Len(r)]
      /\ Chained(s \o r) /\ LevelsLead(s \o r, 0, 0)
  <2>1. Chained(s \o r)
    BY <1>4, <1>5, <1>6, ChainedConcat DEF Whole
  <2>. QED
    BY <1>4, <1>5, <2>1, EndsOfConcat, LevelsOfConcat DEF Whole
<1>8. s \o r \in WholeCalls
  BY <1>4, <1>7 DEF WholeCalls, Whole
<1>. QED
  BY <1>8 DEF s, d

\* A member of an object, with its key.
LEMMA KeyedIsWhole ==
  ASSUME NEW r \in WholeCalls, NEW c \in Contents
  PROVE  <<Call("object_key", c)>> \o r \in WholeCalls
<1>. DEFINE k == Call("object_key", c)
            s == <<k>> \o r
<1>1. "object_key" \in Writes /\ "object_key" \notin OpeningBrackets \cup ClosingBrackets \cup Delimiters
  BY DEF Writes, OpeningBrackets, ClosingBrackets, Delimiters
<1>2. /\ k \in CallRecords /\ k.write = "object_key"
      /\ <<k>> \in Seq(CallRecords) /\ <<k>> # <<>> /\ Len(<<k>>) = 1 /\ <<k>>[1] = k
      /\ Chained(<<k>>)
  BY <1>1, SingleCall
<1>. HIDE DEF k
<1>3. LevelsLead(<<k>>, 0, 0)
  <2>1. Change(k) = 0
    BY <1>1, <1>2 DEF Change
  <2>. QED
    BY <1>2, <2>1, LevelsOfOne
<1>4. r \in Seq(CallRecords) /\ Whole(r)
  BY DEF WholeCalls
<1>5. Chained(s)
  <2>1. MayFollow(k, r[1])
    BY <1>1, <1>2, <1>4 DEF Whole, MayFollow
  <2>. QED
    BY <1>2, <1>4, <2>1, ChainedConcat DEF Whole
<1>6. /\ s \in Seq(CallRecords) /\ s # <<>> /\ s[1] = k /\ s[Len(s)] = r[Len(r)] /\ LevelsLead(s, 0, 0)
  <2>1. LevelsLead(s, 0, 0)
    BY <1>2, <1>3, <1>4, LevelsOfConcat DEF Whole
  <2>. QED
    BY <1>2, <1>4, <2>1, EndsOfConcat DEF Whole
<1>. HIDE DEF s
<1>7. s \in WholeCalls
  BY <1>1, <1>2, <1>4, <1>5, <1>6 DEF WholeCalls, Whole
<1>. QED
  BY <1>7 DEF s, k

\* Whole elements, or none, between brackets are whole.
LEMMA BracketedIsWhole ==
  ASSUME NEW e \in WholeCalls \cup {<<>>}, NEW b \in OpeningBrackets, NEW z \in ClosingBrackets
  PROVE  (<<Call(b, "")>> \o e) \o <<Call(z, "")>> \in WholeCalls
<1>. DEFINE x == Call(b, "")
            y == Call(z, "")
            s == <<x>> \o e
            t == s \o <<y>>
<1>1. /\ b \in Writes /\ b \notin ClosingBrackets \cup Delimiters \cup {"object_key"}
      /\ z \in Writes /\ z \notin OpeningBrackets \cup Delimiters \cup {"object_key"}
      /\ "" \in Contents
  BY DEF Writes, OpeningBrackets, ClosingBrackets, Delimiters, Contents
<1>2. /\ x \in CallRecords /\ x.write = b
      /\ <<x>> \in Seq(CallRecords) /\ <<x>> # <<>> /\ Len(<<x>>) = 1 /\ <<x>>[1] = x
      /\ Chained(<<x>>)
  BY <1>1, SingleCall
<1>3. /\ y \in CallRecords /\ y.write = z
      /\ <<y>> \in Seq(CallRecords) /\ <<y>> # <<>> /\ Len(<<y>>) = 1 /\ <<y>>[1] = y
      /\ Chained(<<y>>)
  BY <1>1, SingleCall
<1>. HIDE DEF x, y
<1>4. LevelsLead(<<x>>, 0, 1) /\ LevelsLead(<<y>>, 1, 0)
  <2>1. Change(x) = 1 /\ Change(y) = -1
    BY <1>1, <1>2, <1>3 DEF Change
  <2>. QED
    BY <1>2, <1>3, <2>1, LevelsOfOne
<1>5. /\ s \in Seq(CallRecords) /\ s # <<>> /\ s[1] = x /\ Chained(s) /\ LevelsLead(s, 0, 1)
      /\ s[Len(s)].write \notin Delimiters \cup {"object_key"}
  <2>1. CASE e = <<>>
    <3>1. s = <<x>>
      BY <1>2, <2>1, ConcatEmptySeq
    <3>. QED
      BY <1>1, <1>2, <1>4, <3>1
  <2>2. CASE e \in WholeCalls
    <3>1. e \in Seq(CallRecords) /\ Whole(e)
      BY <2>2 DEF WholeCalls
    <3>2. MayFollow(x, e[1])
      BY <1>1, <1>2, <3>1 DEF Whole, MayFollow
    <3>3. Chained(s)
      BY <1>2, <3>1, <3>2, ChainedConcat DEF Whole
    <3>4. LevelsLead(e, 1, 1)
      <4>1. LevelsLead(e, 0 + 1, 0 + 1)
        BY <3>1, LevelsUpon DEF Whole
      <4>. QED
        BY <4>1
    <3>5. LevelsLead(s, 0, 1)
      BY <1>2, <1>4, <3>1, <3>4, LevelsOfConcat
    <3>6. s \in Seq(CallRecords) /\ s # <<>> /\ s[1] = x /\ s[Len(s)] = e[Len(e)]
      BY <1>2, <3>1, EndsOfConcat DEF Whole
    <3>. QED
      BY <3>1, <3>3, <3>5, <3>6 DEF Whole
  <2>. QED
    BY <2>1, <2>2
<1>6. MayFollow(s[Len(s)], y)
  BY <1>1, <1>3, <1>5 DEF MayFollow
<1>. HIDE DEF s
<1>7. Chained(t)
  BY <1>3, <1>5, <1>6, ChainedConcat
<1>8. /\ t \in Seq(CallRecords) /\ t # <<>> /\ t[1] = x /\ t[Len(t)] = y /\ LevelsLead(t, 0, 0)
  <2>1. LevelsLead(t, 0, 0)
    BY <1>3, <1>4, <1>5, LevelsOfConcat
  <2>. QED
    BY <1>3, <1>5, <2>1, EndsOfConcat
<1>. HIDE DEF t
<1>9. t \in WholeCalls
  BY <1>1, <1>2, <1>3, <1>7, <1>8 DEF WholeCalls, Whole
<1>. QED
  BY <1>9 DEF t, s, x, y

-----------------------------------------------------------------------------
(* The calls of encode *)

\* A value to encode is a tree whose nodes have kinds and contents.
LEMMA SourceIsTree ==
  ASSUME NEW v \in Sources
  PROVE  /\ DOMAIN v \subseteq Seq(StepSet) /\ IsFiniteSet(DOMAIN v) /\ <<>> \in DOMAIN v
         /\ \A p \in DOMAIN v : v[p].kind \in Kinds /\ v[p].content \in Contents
<1>1. WellFormed(Printed(v)) /\ DOMAIN Printed(v) = DOMAIN v
  BY SourcesAssumption DEF Printed
<1>2. \A p \in DOMAIN v : v[p].content \in Contents
  <2>1. {v[p].content : p \in DOMAIN v} \subseteq Contents
    BY Zenon DEF Contents
  <2>. QED
    BY <2>1
<1>. QED
  BY <1>1, <1>2, SourcesAssumption DEF WellFormed, IsTree

\* The steps that encode takes from a container.
LEMMA StepsAreSteps ==
  ASSUME NEW v \in Sources, NEW p \in DOMAIN v, IsContainer(v[p])
  PROVE  /\ Len(StepsFrom(v, p)) \in Nat
         /\ \A n \in 1 .. Len(StepsFrom(v, p)) :
              /\ StepsFrom(v, p)[n] \in StepSet
              /\ v[p].kind = "object" => StepsFrom(v, p)[n][2] \in Contents
<1>. DEFINE children == {q \in DOMAIN v \ {<<>>} : Parent(q) = p}
<1>1. Cardinality(children) \in Nat
  <2>1. IsFiniteSet(children)
    BY SourceIsTree, FS_Subset
  <2>. QED
    BY <2>1, FS_CardinalityType
<1>2. CASE v[p].kind = "array"
  <2>. DEFINE n == Cardinality(children)
              s == [i \in 1 .. n |-> Index(i - 1)]
  <2>1. StepsFrom(v, p) = s
    BY <1>2 DEF StepsFrom
  <2>. HIDE DEF n
  <2>2. \A i \in 1 .. n : Index(i - 1) \in StepSet
    BY <1>1 DEF Index, StepSet, n
  <2>3. Len(s) = n /\ s \in Seq(StepSet)
    BY <1>1, <2>2 DEF n
  <2>4. n \in Nat
    BY <1>1 DEF n
  <2>. QED
    BY <1>2, <2>1, <2>2, <2>3, <2>4
<1>3. CASE v[p].kind = "object"
  <2>. DEFINE s == [i \in DOMAIN KeyOrder |-> Key(KeyOrder[i])]
  <2>1. StepsFrom(v, p) = s
    BY <1>3 DEF StepsFrom
  <2>2. /\ DOMAIN KeyOrder = 1 .. Len(KeyOrder) /\ Len(KeyOrder) \in Nat
        /\ \A i \in 1 .. Len(KeyOrder) : KeyOrder[i] \in Text /\ KeyOrder[i] \in Range(KeyOrder)
    BY KeysAssumption DEF Range
  <2>3. \A i \in 1 .. Len(KeyOrder) : Key(KeyOrder[i]) \in StepSet /\ Key(KeyOrder[i])[2] \in Contents
    BY <2>2 DEF Key, StepSet, Contents
  <2>4. Len(s) = Len(KeyOrder)
    BY <2>2, <2>3
  <2>. QED
    BY <2>1, <2>2, <2>3, <2>4
<1>. QED
  BY <1>2, <1>3 DEF IsContainer, ContainerKinds

Entries == WholeCalls \cup {<<>>}

\* Those for the elements of the container at p are right.
RightBelow(at, v, p) ==
    \A step \in StepSet : Append(p, step) \in DOMAIN v => at[Append(p, step)] \in WholeCalls

\* Whole entries stay whole with one more.
LEMMA EntryIsWhole ==
  ASSUME NEW v \in Sources, NEW p \in DOMAIN v, IsContainer(v[p]), NEW step \in StepSet,
         v[p].kind = "object" => step[2] \in Contents,
         NEW at, RightBelow(at, v, p), NEW before \in Entries
  PROVE  AndEntry(before, v, p, step, at) \in Entries
<1>. DEFINE q == Append(p, step)
            d == IF before = <<>> THEN <<>> ELSE <<Call(Delimiter[v[p].kind], "")>>
            key == IF v[p].kind = "object" THEN <<Call("object_key", step[2])>> ELSE <<>>
            entry == key \o at[q]
<1>1. CASE q \notin DOMAIN v
  BY <1>1 DEF AndEntry
<1>2. CASE q \in DOMAIN v
  <2>1. at[q] \in WholeCalls
    BY <1>2 DEF RightBelow
  <2>2. AndEntry(before, v, p, step, at) = (before \o d) \o entry
    BY <1>2 DEF AndEntry
  <2>. HIDE DEF q
  <2>3. entry \in WholeCalls
    <3>1. CASE v[p].kind = "object"
      BY <2>1, <3>1, KeyedIsWhole
    <3>2. CASE v[p].kind # "object"
      <4>1. at[q] \in Seq(CallRecords)
        BY <2>1 DEF WholeCalls
      <4>. QED
        BY <2>1, <3>2, <4>1, ConcatEmptySeq
    <3>. QED
      BY <3>1, <3>2
  <2>. HIDE DEF entry
  <2>4. CASE before = <<>>
    <3>1. entry \in Seq(CallRecords) /\ <<>> \in Seq(CallRecords)
      BY <2>3 DEF WholeCalls
    <3>2. before \o d = <<>>
      BY <2>4, <3>1, ConcatEmptySeq
    <3>3. (before \o d) \o entry = entry
      BY <3>1, <3>2, ConcatEmptySeq
    <3>. QED
      BY <2>2, <2>3, <3>3 DEF Entries
  <2>5. CASE before # <<>>
    <3>1. before \in WholeCalls
      BY <2>5 DEF Entries
    <3>2. Delimiter[v[p].kind] \in Delimiters
      BY DEF IsContainer, ContainerKinds, Delimiter, Delimiters
    <3>3. (before \o d) \o entry \in WholeCalls
      BY <2>3, <2>5, <3>1, <3>2, DelimitedIsWhole
    <3>. QED
      BY <2>2, <3>3 DEF Entries
  <2>. QED
    BY <2>4, <2>5
<1>. QED
  BY <1>1, <1>2

\* The entries of a container, one after the other.
Builds(e, v, p, at) ==
    /\ e[0] = <<>>
    /\ \A n \in 1 .. Len(StepsFrom(v, p)) : e[n] = AndEntry(e[n - 1], v, p, StepsFrom(v, p)[n], at)

\* The recursive definition of the entries has a solution, and the calls use it.
LEMMA EntriesAreBuilt ==
  ASSUME NEW v \in Sources, NEW p \in DOMAIN v, IsContainer(v[p]), NEW at, RightBelow(at, v, p)
  PROVE  \E e \in [0 .. Len(StepsFrom(v, p)) -> Entries] :
            /\ Builds(e, v, p, at)
            /\ CallsOfContainer(v, p, at) = (<<Call(Begin[v[p].kind], "")>> \o e[Len(StepsFrom(v, p))])
                                            \o <<Call(End[v[p].kind], "")>>
<1>. DEFINE steps == StepsFrom(v, p)
            N == Len(steps)
            h == [x \in Entries \X (1 .. N) |-> AndEntry(x[1], v, p, steps[x[2]], at)]
            Defines(g) == g = [n \in 0 .. N |->
                             IF n = 0 THEN <<>> ELSE AndEntry(g[n - 1], v, p, steps[n], at)]
            entries == CHOOSE g : Defines(g)
<1>1. /\ N \in Nat
      /\ \A n \in 1 .. N : steps[n] \in StepSet /\ (v[p].kind = "object" => steps[n][2] \in Contents)
  BY StepsAreSteps
<1>. HIDE DEF steps, N
<1>2. h \in [Entries \X (1 .. N) -> Entries]
  <2>1. \A x \in Entries \X (1 .. N) : AndEntry(x[1], v, p, steps[x[2]], at) \in Entries
    BY <1>1, EntryIsWhole
  <2>. QED
    BY <2>1
<1>3. PICK e \in [0 .. N -> Entries] : Iterates(e, N, <<>>, h)
  <2>1. <<>> \in Entries
    BY DEF Entries
  <2>. HIDE DEF h
  <2>. QED
    BY <1>1, <1>2, <2>1, Iteration
<1>4. e[0] = <<>> /\ \A n \in 1 .. N : e[n] = AndEntry(e[n - 1], v, p, steps[n], at)
  <2>1. ASSUME NEW n \in 1 .. N PROVE e[n] = AndEntry(e[n - 1], v, p, steps[n], at)
    <3>1. n - 1 \in 0 .. N
      BY <1>1
    <3>2. <<e[n - 1], n>> \in Entries \X (1 .. N)
      BY <3>1
    <3>3. e[n] = h[<<e[n - 1], n>>]
      BY <1>3 DEF Iterates
    <3>. QED
      BY <3>2, <3>3
  <2>. QED
    BY <1>3, <2>1 DEF Iterates
<1>5. Defines(e)
  <2>1. \A n \in 0 .. N : e[n] = IF n = 0 THEN <<>> ELSE AndEntry(e[n - 1], v, p, steps[n], at)
    BY <1>1, <1>4
  <2>. QED
    BY <2>1
<1>6. Defines(entries)
  <2>. HIDE DEF Defines
  <2>. QED
    BY <1>5
<1>7. entries[N] = e[N]
  <2>. DEFINE S == {n \in 0 .. N : entries[n] = e[n]}
  <2>1. \A n \in 0 .. N : entries[n] = IF n = 0 THEN <<>> ELSE AndEntry(entries[n - 1], v, p, steps[n], at)
    BY <1>6
  <2>. HIDE DEF entries
  <2>2. 0 \in S
    BY <1>1, <1>4, <2>1
  <2>3. ASSUME NEW n \in 1 .. N, n - 1 \in S PROVE n \in S
    <3>1. n \in 0 .. N /\ n # 0 /\ entries[n - 1] = e[n - 1]
      BY <1>1, <2>3
    <3>. QED
      BY <1>4, <2>1, <3>1
  <2>. HIDE DEF S
  <2>4. 0 .. N \subseteq S
    BY <1>1, <2>2, <2>3, InductionUpto
  <2>. QED
    BY <1>1, <2>4 DEF S
<1>8. CallsOfContainer(v, p, at) = (<<Call(Begin[v[p].kind], "")>> \o entries[N]) \o <<Call(End[v[p].kind], "")>>
  BY DEF CallsOfContainer, steps, N
<1>. HIDE DEF entries
<1>9. Builds(e, v, p, at)
  BY <1>4 DEF Builds, steps, N
<1>. QED
  BY <1>7, <1>8, <1>9 DEF steps, N

\* The calls for a container are whole if those for its elements are.
LEMMA ContainerIsWhole ==
  ASSUME NEW v \in Sources, NEW p \in DOMAIN v, IsContainer(v[p]), NEW at, RightBelow(at, v, p)
  PROVE  CallsOfContainer(v, p, at) \in WholeCalls
<1>1. PICK e \in [0 .. Len(StepsFrom(v, p)) -> Entries] :
        CallsOfContainer(v, p, at) = (<<Call(Begin[v[p].kind], "")>> \o e[Len(StepsFrom(v, p))])
                                     \o <<Call(End[v[p].kind], "")>>
  BY EntriesAreBuilt
<1>2. e[Len(StepsFrom(v, p))] \in Entries
  BY StepsAreSteps
<1>3. Begin[v[p].kind] \in OpeningBrackets /\ End[v[p].kind] \in ClosingBrackets
  BY DEF IsContainer, ContainerKinds, Begin, End, OpeningBrackets, ClosingBrackets
<1>. QED
  BY <1>1, <1>2, <1>3, BracketedIsWhole DEF Entries

\* The calls for a container go by those for what is in it.
LEMMA ContainerLooksInside ==
  ASSUME NEW v \in Sources, NEW p \in DOMAIN v, IsContainer(v[p]),
         NEW f, RightBelow(f, v, p), NEW g, RightBelow(g, v, p),
         \A step \in StepSet : Append(p, step) \in DOMAIN v => f[Append(p, step)] = g[Append(p, step)]
  PROVE  CallsOfContainer(v, p, f) = CallsOfContainer(v, p, g)
<1>. DEFINE steps == StepsFrom(v, p)
            N == Len(steps)
<1>1. PICK e \in [0 .. N -> Entries] :
        /\ Builds(e, v, p, f)
        /\ CallsOfContainer(v, p, f) = (<<Call(Begin[v[p].kind], "")>> \o e[N]) \o <<Call(End[v[p].kind], "")>>
  BY EntriesAreBuilt
<1>2. PICK d \in [0 .. N -> Entries] :
        /\ Builds(d, v, p, g)
        /\ CallsOfContainer(v, p, g) = (<<Call(Begin[v[p].kind], "")>> \o d[N]) \o <<Call(End[v[p].kind], "")>>
  BY EntriesAreBuilt
<1>3. /\ N \in Nat /\ \A n \in 1 .. N : steps[n] \in StepSet
      /\ e[0] = <<>> /\ \A n \in 1 .. N : e[n] = AndEntry(e[n - 1], v, p, steps[n], f)
      /\ d[0] = <<>> /\ \A n \in 1 .. N : d[n] = AndEntry(d[n - 1], v, p, steps[n], g)
  BY <1>1, <1>2, StepsAreSteps DEF Builds
<1>. DEFINE S == {n \in 0 .. N : e[n] = d[n]}
<1>. HIDE DEF N, steps
<1>4. 0 \in S
  BY <1>3
<1>5. ASSUME NEW n \in 1 .. N, n - 1 \in S PROVE n \in S
  <2>1. e[n - 1] = d[n - 1] /\ n \in 0 .. N
    BY <1>3, <1>5
  <2>2. \A before : AndEntry(before, v, p, steps[n], f) = AndEntry(before, v, p, steps[n], g)
    BY <1>3 DEF AndEntry
  <2>. QED
    BY <1>3, <2>1, <2>2
<1>. HIDE DEF S
<1>6. 0 .. N \subseteq S
  BY <1>3, <1>4, <1>5, InductionUpto
<1>7. e[N] = d[N]
  BY <1>3, <1>6 DEF S
<1>. QED
  BY <1>1, <1>2, <1>7

\* encode of the value at a node.
CallsAt(v, p, at) == IF IsContainer(v[p]) THEN CallsOfContainer(v, p, at)
                     ELSE <<Call(v[p].kind, v[p].content)>>

\* How many nodes are deeper than p.
Deeper(v, p) == {q \in DOMAIN v : Len(q) > Len(p)}

\* Fewer nodes are deeper than an element than are deeper than its container.
LEMMA ChildrenAreDeeper ==
  ASSUME NEW v \in Sources, NEW p \in DOMAIN v
  PROVE  /\ Cardinality(Deeper(v, p)) \in 0 .. Cardinality(DOMAIN v) /\ Cardinality(DOMAIN v) \in Nat
         /\ \A step \in StepSet : Append(p, step) \in DOMAIN v =>
              Cardinality(Deeper(v, Append(p, step))) < Cardinality(Deeper(v, p))
<1>1. IsFiniteSet(DOMAIN v) /\ DOMAIN v \subseteq Seq(StepSet)
  BY SourceIsTree
<1>2. /\ IsFiniteSet(Deeper(v, p)) /\ Cardinality(Deeper(v, p)) <= Cardinality(DOMAIN v)
      /\ Cardinality(Deeper(v, p)) \in Nat /\ Cardinality(DOMAIN v) \in Nat
  <2>1. Deeper(v, p) \in SUBSET DOMAIN v
    BY DEF Deeper
  <2>2. IsFiniteSet(Deeper(v, p)) /\ Cardinality(Deeper(v, p)) <= Cardinality(DOMAIN v)
    BY <1>1, <2>1, FS_Subset
  <2>. QED
    BY <1>1, <2>2, FS_CardinalityType
<1>3. ASSUME NEW step \in StepSet, Append(p, step) \in DOMAIN v
      PROVE  Cardinality(Deeper(v, Append(p, step))) < Cardinality(Deeper(v, p))
  <2>. DEFINE q == Append(p, step)
  <2>1. Len(p) \in Nat /\ Len(q) = Len(p) + 1 /\ \A r \in DOMAIN v : Len(r) \in Nat
    BY <1>1, AppendProperties, LenProperties
  <2>2. q \in DOMAIN v
    BY <1>3
  <2>. HIDE DEF q
  <2>3. Deeper(v, q) \in SUBSET Deeper(v, p) /\ q \in Deeper(v, p) /\ q \notin Deeper(v, q)
    BY <2>1, <2>2 DEF Deeper
  <2>4. /\ Cardinality(Deeper(v, q)) <= Cardinality(Deeper(v, p))
        /\ Cardinality(Deeper(v, q)) = Cardinality(Deeper(v, p)) => Deeper(v, q) = Deeper(v, p)
    BY <1>2, <2>3, FS_Subset
  <2>5. Cardinality(Deeper(v, q)) \in Nat
    BY <1>2, <2>3, FS_Subset, FS_CardinalityType
  <2>. QED
    BY <1>2, <2>3, <2>4, <2>5 DEF q
<1>. QED
  BY <1>2, <1>3

\* The recursive definition of CallsOf has a solution, and encode uses it.
LEMMA CallsAreBuilt ==
  ASSUME NEW v \in Sources
  PROVE  \E at \in [DOMAIN v -> WholeCalls] :
            CallsOf(v) = at[<<>>] /\ \A p \in DOMAIN v : at[p] = CallsAt(v, p, at)
<1>. DEFINE D == DOMAIN v
            bound == Cardinality(D)
            rank == [p \in D |-> Cardinality(Deeper(v, p))]
            h == [x \in D \X [D -> WholeCalls] |-> CallsAt(v, x[1], x[2])]
            Defines(g) == g = [p \in D |-> CallsAt(v, p, g)]
            at == CHOOSE g : Defines(g)
<1>1. /\ bound \in Nat /\ rank \in [D -> 0 .. bound]
      /\ \A p \in D, step \in StepSet : Append(p, step) \in D => rank[Append(p, step)] < rank[p]
  <2>1. bound \in Nat
    BY SourceIsTree, ChildrenAreDeeper
  <2>2. \A p \in D : rank[p] = Cardinality(Deeper(v, p)) /\ rank[p] \in 0 .. bound
    BY ChildrenAreDeeper
  <2>3. \A p \in D, step \in StepSet : Append(p, step) \in D =>
           Cardinality(Deeper(v, Append(p, step))) < Cardinality(Deeper(v, p))
    BY ChildrenAreDeeper
  <2>4. rank \in [D -> 0 .. bound]
    BY <2>2
  <2>. HIDE DEF rank, D, bound
  <2>. QED
    BY <2>1, <2>2, <2>3, <2>4
<1>2. \A p \in D, f \in [D -> WholeCalls] : RightBelow(f, v, p)
  BY DEF RightBelow
<1>3. ASSUME NEW p \in D, NEW f, RightBelow(f, v, p)
      PROVE  CallsAt(v, p, f) \in WholeCalls
  <2>1. CASE IsContainer(v[p])
    BY <1>3, <2>1, ContainerIsWhole DEF CallsAt
  <2>2. CASE ~IsContainer(v[p])
    <3>1. v[p].kind \in Scalars /\ v[p].content \in Contents
      BY <2>2, SourceIsTree DEF Kinds, Scalars, IsContainer, ContainerKinds
    <3>2. CallsAt(v, p, f) = <<Call(v[p].kind, v[p].content)>>
      BY <2>2 DEF CallsAt
    <3>. QED
      BY <3>1, <3>2, ScalarIsWhole
  <2>. QED
    BY <2>1, <2>2
<1>4. ASSUME NEW p \in D, NEW f, RightBelow(f, v, p), NEW g, RightBelow(g, v, p),
             \A step \in StepSet : Append(p, step) \in D => f[Append(p, step)] = g[Append(p, step)]
      PROVE  CallsAt(v, p, f) = CallsAt(v, p, g)
  <2>1. CASE IsContainer(v[p])
    BY <1>4, <2>1, ContainerLooksInside DEF CallsAt
  <2>2. CASE ~IsContainer(v[p])
    BY <2>2 DEF CallsAt
  <2>. QED
    BY <2>1, <2>2
<1>5. \E f \in [D -> WholeCalls] : Solves(f, D, h)
  <2>1. h \in [D \X [D -> WholeCalls] -> WholeCalls]
    BY <1>2, <1>3
  <2>2. LooksBelow(D, WholeCalls, rank, h)
    <3>1. ASSUME NEW p \in D, NEW f \in [D -> WholeCalls], NEW g \in [D -> WholeCalls],
                 \A m \in D : rank[m] < rank[p] => f[m] = g[m]
          PROVE  h[<<p, f>>] = h[<<p, g>>]
      <4>1. \A step \in StepSet : Append(p, step) \in D => f[Append(p, step)] = g[Append(p, step)]
        BY <1>1, <3>1
      <4>2. CallsAt(v, p, f) = CallsAt(v, p, g)
        BY <1>2, <1>4, <4>1
      <4>. QED
        BY <4>2
    <3>. HIDE DEF rank, h
    <3>. QED
      BY <3>1 DEF LooksBelow
  <2>3. <<Call("null", "")>> \in WholeCalls
    BY ScalarIsWhole DEF Scalars, Contents
  <2>. HIDE DEF rank, h, D, bound
  <2>. QED
    BY <1>1, <2>1, <2>2, <2>3, RecursionByRank
<1>6. \E f \in [D -> WholeCalls] : Defines(f)
  <2>1. PICK f \in [D -> WholeCalls] : \A p \in D : f[p] = h[<<p, f>>]
    BY <1>5 DEF Solves
  <2>2. \A p \in D : f[p] = CallsAt(v, p, f)
    BY <2>1
  <2>. QED
    BY <2>2
<1>7. CallsOf(v) = at[<<>>]
  BY DEF CallsOf, CallsAt
<1>8. Defines(at)
  <2>. HIDE DEF Defines
  <2>. QED
    BY <1>6
<1>9. \A p \in D : at[p] \in WholeCalls
  <2>. DEFINE S == {k \in Nat : \A p \in D : rank[p] = k => at[p] \in WholeCalls}
  <2>1. ASSUME NEW k \in Nat, \A m \in Nat : m < k => m \in S PROVE k \in S
    <3>1. ASSUME NEW p \in D, rank[p] = k PROVE at[p] \in WholeCalls
      <4>1. RightBelow(at, v, p)
        <5>1. ASSUME NEW step \in StepSet, Append(p, step) \in D PROVE at[Append(p, step)] \in WholeCalls
          <6>1. rank[Append(p, step)] \in Nat /\ rank[Append(p, step)] < k
            BY <1>1, <3>1, <5>1
          <6>. HIDE DEF rank, at, D
          <6>. QED
            BY <2>1, <5>1, <6>1
        <5>. HIDE DEF at
        <5>. QED
          BY <5>1 DEF RightBelow
      <4>2. CallsAt(v, p, at) \in WholeCalls
        <5>. HIDE DEF at
        <5>. QED
          BY <1>3, <4>1
      <4>. HIDE DEF at
      <4>. QED
        BY <1>8, <4>2
    <3>. HIDE DEF rank, at, D
    <3>. QED
      BY <3>1
  <2>. HIDE DEF rank, at, D
  <2>2. Nat \subseteq S
    <3>. HIDE DEF S
    <3>. QED
      BY <2>1, InductionBelow
  <2>. QED
    BY <1>1, <2>2
<1>. HIDE DEF at
<1>10. at \in [D -> WholeCalls] /\ \A p \in D : at[p] = CallsAt(v, p, at)
  BY <1>8, <1>9
<1>. QED
  BY <1>7, <1>10

\* The calls of encode are whole: their brackets match.
LEMMA CallsAreWhole == \A v \in Sources : CallsOf(v) \in WholeCalls
  BY CallsAreBuilt, SourceIsTree

-----------------------------------------------------------------------------
(* Depth and lines of a sequence of tokens *)

TokenKinds == {"null", "boolean", "string", "number", "separator", "object_key_delimiter", "whitespace"}
              \cup OpeningBrackets \cup ClosingBrackets
TokenRecords == [kind : TokenKinds, means : Contents \cup {"space", "line break"},
                 refused_by : {{}}, nul : {FALSE}, width : Int]

TokenChange(token) == IF token.kind \in OpeningBrackets THEN 1 ELSE IF token.kind \in ClosingBrackets THEN -1 ELSE 0

\* What IndentationIsDepth says of the i-th token.
RightAt(o, i) ==
    /\ IsBreak(o[i]) =>
          o[i].width = base + IndentSize * (Depth(o, i) - (IF ClosesNext(o, i) THEN 1 ELSE 0))
    /\ pretty /\ o[i].kind \in OpeningBrackets \cup {"separator"} /\ i < Len(o) =>
          ClosesNext(o, i) \/ IsBreak(o[i + 1])
Right(o) == \A i \in 1 .. Len(o) : RightAt(o, i)

\* x may come behind o, as far as the lines are concerned.
Joins(o, x) ==
    o # <<>> => /\ IsBreak(o[Len(o)]) => x.kind \notin ClosingBrackets
                /\ pretty /\ o[Len(o)].kind \in OpeningBrackets \cup {"separator"} => x.kind \in ClosingBrackets \/ IsBreak(x)

\* The depth is an integer.
LEMMA DepthIsInt == \A o : \A i \in Nat : Depth(o, i) \in Int
<1>. SUFFICES ASSUME NEW o, NEW i \in Nat PROVE Depth(o, i) \in Int
  OBVIOUS
<1>. DEFINE A == {j \in 1 .. i : o[j].kind \in OpeningBrackets}
            B == {j \in 1 .. i : o[j].kind \in ClosingBrackets}
<1>1. IsFiniteSet(1 .. i) /\ A \in SUBSET (1 .. i) /\ B \in SUBSET (1 .. i)
  BY FS_Interval
<1>2. Cardinality(A) \in Nat /\ Cardinality(B) \in Nat
  BY <1>1, FS_Subset, FS_CardinalityType
<1>. HIDE DEF A, B
<1>3. Cardinality(A) - Cardinality(B) \in Int
  BY <1>2
<1>. QED
  BY <1>3 DEF A, B, Depth

\* Sequences that begin alike have the same depths there.
LEMMA DepthOfSame ==
  ASSUME NEW o, NEW s, NEW i \in Nat, \A j \in 1 .. i : o[j] = s[j]
  PROVE  Depth(o, i) = Depth(s, i)
<1>1. /\ {j \in 1 .. i : o[j].kind \in OpeningBrackets} = {j \in 1 .. i : s[j].kind \in OpeningBrackets}
      /\ {j \in 1 .. i : o[j].kind \in ClosingBrackets} = {j \in 1 .. i : s[j].kind \in ClosingBrackets}
  OBVIOUS
<1>. QED
  BY <1>1 DEF Depth

\* The depth in front of all tokens is 0.
LEMMA DepthOfNone == \A o : Depth(o, 0) = 0
  BY FS_EmptySet DEF Depth

\* A number more or not in a set of numbers up to i.
LEMMA CountNext ==
  ASSUME NEW i \in Nat, NEW A, A \in SUBSET (1 .. i)
  PROVE  Cardinality(A) \in Nat /\ Cardinality(A \cup {i + 1}) = Cardinality(A) + 1
<1>1. IsFiniteSet(A) /\ i + 1 \notin A
  <2>1. IsFiniteSet(1 .. i)
    BY FS_Interval
  <2>2. IsFiniteSet(A)
    BY <2>1, FS_Subset
  <2>3. i + 1 \notin A
    OBVIOUS
  <2>. QED
    BY <2>2, <2>3
<1>. QED
  BY <1>1, FS_AddElement, FS_CardinalityType

\* A token changes the depth as TokenChange says.
LEMMA DepthOfNext ==
  ASSUME NEW o, NEW i \in Nat
  PROVE  Depth(o, i + 1) = Depth(o, i) + TokenChange(o[i + 1])
<1>. DEFINE A(n) == {j \in 1 .. n : o[j].kind \in OpeningBrackets}
            B(n) == {j \in 1 .. n : o[j].kind \in ClosingBrackets}
            x == o[i + 1]
<1>1. /\ A(i + 1) = A(i) \cup (IF x.kind \in OpeningBrackets THEN {i + 1} ELSE {})
      /\ B(i + 1) = B(i) \cup (IF x.kind \in ClosingBrackets THEN {i + 1} ELSE {})
  OBVIOUS
<1>2. A(i) \in SUBSET (1 .. i) /\ B(i) \in SUBSET (1 .. i)
  OBVIOUS
<1>3. /\ Depth(o, i) = Cardinality(A(i)) - Cardinality(B(i))
      /\ Depth(o, i + 1) = Cardinality(A(i + 1)) - Cardinality(B(i + 1))
  BY DEF Depth
<1>. HIDE DEF A, B, x
<1>4. /\ Cardinality(A(i)) \in Nat /\ Cardinality(B(i)) \in Nat
      /\ Cardinality(A(i) \cup {i + 1}) = Cardinality(A(i)) + 1
      /\ Cardinality(B(i) \cup {i + 1}) = Cardinality(B(i)) + 1
  BY <1>2, CountNext
<1>5. CASE x.kind \in OpeningBrackets
  <2>1. x.kind \notin ClosingBrackets
    BY <1>5 DEF OpeningBrackets, ClosingBrackets
  <2>2. A(i + 1) = A(i) \cup {i + 1} /\ B(i + 1) = B(i) /\ TokenChange(x) = 1
    BY <1>1, <1>5, <2>1 DEF TokenChange
  <2>3. Cardinality(A(i + 1)) = Cardinality(A(i)) + 1 /\ Cardinality(B(i + 1)) = Cardinality(B(i))
    BY <1>4, <2>2
  <2>4. Depth(o, i + 1) = Depth(o, i) + 1
    BY <1>3, <1>4, <2>3
  <2>. QED
    BY <2>2, <2>4 DEF x
<1>6. CASE x.kind \in ClosingBrackets /\ x.kind \notin OpeningBrackets
  <2>1. A(i + 1) = A(i) /\ B(i + 1) = B(i) \cup {i + 1} /\ TokenChange(x) = -1
    BY <1>1, <1>6 DEF TokenChange
  <2>2. Cardinality(A(i + 1)) = Cardinality(A(i)) /\ Cardinality(B(i + 1)) = Cardinality(B(i)) + 1
    BY <1>4, <2>1
  <2>3. Depth(o, i + 1) = Depth(o, i) + (-1)
    BY <1>3, <1>4, <2>2
  <2>. QED
    BY <2>1, <2>3 DEF x
<1>7. CASE x.kind \notin ClosingBrackets /\ x.kind \notin OpeningBrackets
  <2>1. A(i + 1) = A(i) /\ B(i + 1) = B(i) /\ TokenChange(x) = 0
    BY <1>1, <1>7 DEF TokenChange
  <2>. QED
    BY <1>3, <1>4, <2>1 DEF x
<1>. QED
  BY <1>5, <1>6, <1>7

\* One token more.
LEMMA OneMore ==
  ASSUME NEW o \in Seq(TokenRecords), NEW x \in TokenRecords
  PROVE  /\ o \o <<x>> \in Seq(TokenRecords) /\ Len(o \o <<x>>) = Len(o) + 1 /\ Len(o) \in Nat
         /\ \A i \in 1 .. Len(o) : (o \o <<x>>)[i] = o[i]
         /\ (o \o <<x>>)[Len(o) + 1] = x /\ o \o <<x>> # <<>>
         /\ \A i \in 0 .. Len(o) : Depth(o \o <<x>>, i) = Depth(o, i)
         /\ Depth(o \o <<x>>, Len(o) + 1) = Depth(o, Len(o)) + TokenChange(x)
<1>. DEFINE s == o \o <<x>>
<1>1. /\ <<x>> \in Seq(TokenRecords) /\ Len(<<x>>) = 1 /\ <<x>>[1] = x
  OBVIOUS
<1>2. /\ s \in Seq(TokenRecords) /\ Len(s) = Len(o) + 1 /\ Len(o) \in Nat
      /\ \A i \in 1 .. Len(o) + 1 : s[i] = IF i <= Len(o) THEN o[i] ELSE <<x>>[i - Len(o)]
  BY <1>1, ConcatProperties, LenProperties
<1>3. \A i \in 1 .. Len(o) : s[i] = o[i]
  BY <1>2
<1>4. s[Len(o) + 1] = x
  BY <1>1, <1>2
<1>5. s # <<>>
  BY <1>2, EmptySeq
<1>. HIDE DEF s
<1>6. \A i \in 0 .. Len(o) : Depth(s, i) = Depth(o, i)
  <2>1. \A i \in 0 .. Len(o) : i \in Nat /\ \A j \in 1 .. i : s[j] = o[j]
    BY <1>2, <1>3
  <2>. QED
    BY <2>1, DepthOfSame
<1>7. Depth(s, Len(o) + 1) = Depth(o, Len(o)) + TokenChange(x)
  <2>1. Depth(s, Len(o) + 1) = Depth(s, Len(o)) + TokenChange(s[Len(o) + 1])
    BY <1>2, DepthOfNext
  <2>2. Depth(s, Len(o)) = Depth(o, Len(o))
    BY <1>2, <1>6
  <2>. QED
    BY <1>4, <2>1, <2>2
<1>. QED
  BY <1>2, <1>3, <1>4, <1>5, <1>6, <1>7 DEF s

\* What is right of the tokens of o but the last stays right.
LEMMA RightBefore ==
  ASSUME NEW o \in Seq(TokenRecords), NEW x \in TokenRecords, Right(o), Joins(o, x)
  PROVE  \A i \in 1 .. Len(o) : RightAt(o \o <<x>>, i)
<1>. DEFINE s == o \o <<x>>
<1>1. /\ Len(s) = Len(o) + 1 /\ Len(o) \in Nat
      /\ \A i \in 1 .. Len(o) : s[i] = o[i]
      /\ s[Len(o) + 1] = x
      /\ \A i \in 0 .. Len(o) : Depth(s, i) = Depth(o, i)
  BY OneMore
<1>. HIDE DEF s
<1>2. ASSUME NEW i \in 1 .. Len(o) PROVE RightAt(s, i)
  <2>1. RightAt(o, i) /\ s[i] = o[i] /\ Depth(s, i) = Depth(o, i) /\ i < Len(s)
    BY <1>1, <1>2 DEF Right
  <2>2. CASE i < Len(o)
    <3>1. s[i + 1] = o[i + 1]
      BY <1>1, <2>2
    <3>2. ClosesNext(s, i) <=> ClosesNext(o, i)
      BY <2>1, <2>2, <3>1 DEF ClosesNext
    <3>. QED
      BY <2>1, <2>2, <3>1, <3>2 DEF RightAt
  <2>3. CASE i = Len(o)
    <3>1. o # <<>> /\ s[i + 1] = x
      BY <1>1, <2>3, EmptySeq
    <3>2. ~ClosesNext(o, i) /\ (ClosesNext(s, i) <=> x.kind \in ClosingBrackets)
      BY <1>1, <2>1, <2>3, <3>1 DEF ClosesNext
    <3>3. IsBreak(o[i]) => ~ClosesNext(s, i)
      BY <2>3, <3>1, <3>2 DEF Joins
    <3>4. pretty /\ o[i].kind \in OpeningBrackets \cup {"separator"} => ClosesNext(s, i) \/ IsBreak(s[i + 1])
      BY <2>3, <3>1, <3>2 DEF Joins
    <3>. QED
      BY <2>1, <3>2, <3>3, <3>4 DEF RightAt
  <2>. QED
    BY <1>1, <2>2, <2>3
<1>. QED
  BY <1>2 DEF s

\* Right lines stay right with a token behind them.
LEMMA RightOfOneMore ==
  ASSUME NEW o \in Seq(TokenRecords), NEW x \in TokenRecords, Right(o), Joins(o, x),
         IsBreak(x) => x.width = base + IndentSize * Depth(o, Len(o))
  PROVE  Right(o \o <<x>>)
<1>. DEFINE s == o \o <<x>>
            n == Len(o) + 1
<1>1. /\ Len(s) = n /\ n \in Nat \ {0} /\ s[n] = x
      /\ Depth(s, n) = Depth(o, Len(o)) + TokenChange(x) /\ Depth(o, Len(o)) \in Int
  BY OneMore, DepthIsInt
<1>2. \A i \in 1 .. Len(o) : RightAt(s, i)
  BY RightBefore
<1>. HIDE DEF s
<1>3. RightAt(s, n)
  <2>1. ~ClosesNext(s, n) /\ ~(n < Len(s))
    BY <1>1 DEF ClosesNext
  <2>2. IsBreak(x) => TokenChange(x) = 0
    BY DEF IsBreak, TokenChange, OpeningBrackets, ClosingBrackets
  <2>3. IsBreak(x) => Depth(s, n) = Depth(o, Len(o)) /\ Depth(s, n) - 0 = Depth(s, n)
    BY <1>1, <2>2
  <2>. HIDE DEF n
  <2>. QED
    BY <1>1, <2>1, <2>3 DEF RightAt
<1>4. \A i \in 1 .. Len(s) : i \in 1 .. Len(o) \/ i = n
  BY <1>1
<1>. QED
  BY <1>2, <1>3, <1>4 DEF Right, s

\* A closing bracket on a line of its own.
LEMMA RightOfClosingLine ==
  ASSUME NEW o \in Seq(TokenRecords), NEW x \in TokenRecords, NEW y \in TokenRecords, Right(o),
         IsBreak(x), x.width = base + IndentSize * (Depth(o, Len(o)) - 1), y.kind \in ClosingBrackets
  PROVE  Right((o \o <<x>>) \o <<y>>)
<1>. DEFINE s == o \o <<x>>
            t == s \o <<y>>
            n == Len(o) + 1
<1>1. /\ s \in Seq(TokenRecords) /\ Len(s) = n /\ n \in Nat \ {0} /\ s[n] = x
      /\ Depth(s, n) = Depth(o, Len(o)) + TokenChange(x) /\ Depth(o, Len(o)) \in Int
  BY OneMore, DepthIsInt
<1>2. x.kind \notin ClosingBrackets /\ TokenChange(x) = 0
  BY DEF IsBreak, TokenChange, OpeningBrackets, ClosingBrackets
<1>3. Joins(o, x)
  BY <1>2 DEF Joins
<1>4. \A i \in 1 .. Len(o) : RightAt(s, i)
  BY <1>3, RightBefore
<1>. HIDE DEF s
<1>5. /\ Len(t) = n + 1 /\ t[n] = x /\ t[n + 1] = y /\ Depth(t, n) = Depth(o, Len(o))
      /\ \A i \in 1 .. n : t[i] = s[i]
      /\ \A i \in 0 .. n : Depth(t, i) = Depth(s, i)
  <2>1. /\ Len(t) = n + 1 /\ t[n + 1] = y
        /\ \A i \in 1 .. n : t[i] = s[i]
        /\ \A i \in 0 .. n : Depth(t, i) = Depth(s, i)
    BY <1>1, OneMore
  <2>. HIDE DEF t
  <2>. QED
    BY <1>1, <1>2, <2>1
<1>. HIDE DEF t
<1>6. ASSUME NEW i \in 1 .. Len(o) PROVE RightAt(t, i)
  <2>1. RightAt(s, i) /\ t[i] = s[i] /\ t[i + 1] = s[i + 1] /\ Depth(t, i) = Depth(s, i)
        /\ i < Len(s) /\ i < Len(t)
    BY <1>1, <1>4, <1>5, <1>6
  <2>2. ClosesNext(t, i) <=> ClosesNext(s, i)
    BY <2>1 DEF ClosesNext
  <2>. QED
    BY <2>1, <2>2 DEF RightAt
<1>7. RightAt(t, n)
  <2>1. ClosesNext(t, n)
    BY <1>1, <1>5 DEF ClosesNext
  <2>. QED
    BY <1>5, <2>1 DEF RightAt
<1>8. RightAt(t, n + 1)
  <2>1. ~IsBreak(y) /\ y.kind \notin OpeningBrackets \cup {"separator"}
    BY DEF IsBreak, OpeningBrackets, ClosingBrackets
  <2>. QED
    BY <1>5, <2>1 DEF RightAt
<1>9. \A i \in 1 .. Len(t) : i \in 1 .. Len(o) \/ i = n \/ i = n + 1
  BY <1>1, <1>5
<1>. QED
  BY <1>6, <1>7, <1>8, <1>9 DEF Right, t, s

-----------------------------------------------------------------------------
(* The first of some calls, and the rest *)

\* The calls behind the first.
LEMMA RestOfCalls ==
  ASSUME NEW q \in Seq(CallRecords), q # <<>>
  PROVE  /\ Head(q) = q[1] /\ q[1] \in CallRecords
         /\ Tail(q) \in Seq(CallRecords) /\ Len(Tail(q)) = Len(q) - 1 /\ Len(q) \in Nat \ {0}
         /\ \A i \in 1 .. Len(q) - 1 : Tail(q)[i] = q[i + 1]
         /\ (Tail(q) = <<>>) = (Len(q) = 1)
<1>1. /\ Head(q) = q[1] /\ Head(q) \in CallRecords
      /\ Tail(q) \in Seq(CallRecords) /\ Len(Tail(q)) = Len(q) - 1
      /\ \A i \in 1 .. Len(Tail(q)) : Tail(q)[i] = q[i + 1]
  BY HeadTailProperties
<1>2. Len(q) \in Nat \ {0}
  BY LenProperties, EmptySeq
<1>3. Tail(q) = <<>> <=> Len(Tail(q)) = 0
  BY <1>1, EmptySeq
<1>. QED
  BY <1>1, <1>2, <1>3

\* The levels behind the first call.
LEMMA LevelsOfRest ==
  ASSUME NEW q \in Seq(CallRecords), q # <<>>, NEW a \in Nat, NEW b \in Nat, LevelsLead(q, a, b)
  PROVE  a + Change(q[1]) \in Nat /\ LevelsLead(Tail(q), a + Change(q[1]), b)
<1>1. PICK h \in [0 .. Len(q) -> Nat] : IsLevels(h, q, a, b)
  BY DEF LevelsLead
<1>. DEFINE n == Len(q)
            t == Tail(q)
            g == [i \in 0 .. n - 1 |-> h[i + 1]]
<1>2. /\ n \in Nat \ {0} /\ Len(t) = n - 1 /\ \A i \in 1 .. n - 1 : t[i] = q[i + 1]
  BY RestOfCalls
<1>3. /\ h \in [0 .. n -> Nat] /\ h[0] = a /\ h[n] = b
      /\ \A i \in 1 .. n : h[i] = h[i - 1] + Change(q[i])
  BY <1>1 DEF IsLevels
<1>. HIDE DEF n, t
<1>4. g \in [0 .. n - 1 -> Nat] /\ \A i \in 0 .. n - 1 : g[i] = h[i + 1]
  BY <1>2, <1>3
<1>. HIDE DEF g
<1>5. h[1] \in Nat /\ h[1] = a + Change(q[1])
  <2>1. 1 \in 1 .. n /\ 1 \in 0 .. n /\ 1 - 1 = 0
    BY <1>2
  <2>. QED
    BY <1>3, <2>1
<1>6. g[0] = h[1] /\ g[n - 1] = b
  <2>1. 0 \in 0 .. n - 1 /\ n - 1 \in 0 .. n - 1 /\ (n - 1) + 1 = n /\ 0 + 1 = 1
    BY <1>2
  <2>. QED
    BY <1>3, <1>4, <2>1
<1>7. ASSUME NEW i \in 1 .. n - 1 PROVE g[i] = g[i - 1] + Change(t[i])
  <2>1. i \in 0 .. n - 1 /\ i - 1 \in 0 .. n - 1 /\ (i - 1) + 1 = i /\ i + 1 \in 1 .. n /\ (i + 1) - 1 = i
    BY <1>2
  <2>2. g[i] = h[i + 1] /\ g[i - 1] = h[i] /\ t[i] = q[i + 1]
    BY <1>2, <1>4, <2>1
  <2>. QED
    BY <1>3, <2>1, <2>2
<1>. QED
  BY <1>2, <1>4, <1>5, <1>6, <1>7 DEF LevelsLead, IsLevels, t

\* No calls leave the depth as it is.
LEMMA LevelsOfNone == \A a, b : LevelsLead(<<>>, a, b) => a = b
  BY DEF LevelsLead, IsLevels

\* The calls behind the first are a chain that may follow it.
LEMMA ChainedRest ==
  ASSUME NEW q \in Seq(CallRecords), q # <<>>, Chained(q)
  PROVE  /\ Chained(Tail(q))
         /\ Tail(q) # <<>> => MayFollow(q[1], Tail(q)[1]) /\ Tail(q)[Len(Tail(q))] = q[Len(q)]
         /\ Tail(q) = <<>> => q[Len(q)] = q[1]
<1>. DEFINE n == Len(q)
            t == Tail(q)
<1>1. /\ n \in Nat \ {0} /\ Len(t) = n - 1 /\ \A i \in 1 .. n - 1 : t[i] = q[i + 1]
      /\ (t = <<>>) = (n = 1)
  BY RestOfCalls
<1>2. \A i \in 1 .. n - 1 : MayFollow(q[i], q[i + 1])
  BY DEF Chained
<1>. HIDE DEF n, t
<1>3. ASSUME NEW i \in 1 .. (n - 1) - 1 PROVE MayFollow(t[i], t[i + 1])
  <2>1. i \in 1 .. n - 1 /\ i + 1 \in 1 .. n - 1
    BY <1>1
  <2>. QED
    BY <1>1, <1>2, <2>1
<1>4. t # <<>> => MayFollow(q[1], t[1]) /\ t[n - 1] = q[n]
  <2>. SUFFICES ASSUME t # <<>> PROVE MayFollow(q[1], t[1]) /\ t[n - 1] = q[n]
    OBVIOUS
  <2>1. 1 \in 1 .. n - 1 /\ n - 1 \in 1 .. n - 1 /\ (n - 1) + 1 = n /\ 1 + 1 = 2
    BY <1>1
  <2>2. t[1] = q[2] /\ t[n - 1] = q[n]
    BY <1>1, <2>1
  <2>. QED
    BY <1>2, <2>1, <2>2
<1>. QED
  BY <1>1, <1>3, <1>4 DEF Chained, n, t

-----------------------------------------------------------------------------
(* What a call writes *)

\* The tokens o are on their lines, and d brackets are open behind them.
Lines(o, d) == o \in Seq(TokenRecords) /\ Right(o) /\ Depth(o, Len(o)) = d

\* They are, and x is the last of them.
LinesTo(o, d, x) == Lines(o, d) /\ o # <<>> /\ o[Len(o)] = x

\* One more token on right lines.
LEMMA AppendedToken ==
  ASSUME NEW o, NEW d \in Int, NEW x \in TokenRecords, Lines(o, d), Joins(o, x),
         IsBreak(x) => x.width = base + IndentSize * d
  PROVE  LinesTo(o \o <<x>>, d + TokenChange(x), x)
<1>1. o \in Seq(TokenRecords) /\ Right(o) /\ Depth(o, Len(o)) = d
  BY DEF Lines
<1>2. Right(o \o <<x>>)
  BY <1>1, RightOfOneMore
<1>3. /\ o \o <<x>> \in Seq(TokenRecords) /\ Len(o \o <<x>>) = Len(o) + 1
      /\ (o \o <<x>>)[Len(o) + 1] = x /\ o \o <<x>> # <<>>
      /\ Depth(o \o <<x>>, Len(o) + 1) = Depth(o, Len(o)) + TokenChange(x)
  BY <1>1, OneMore
<1>. DEFINE s == o \o <<x>>
<1>. HIDE DEF s
<1>4. /\ s \in Seq(TokenRecords) /\ Right(s) /\ s # <<>>
      /\ s[Len(s)] = x /\ Depth(s, Len(s)) = d + TokenChange(x)
  BY <1>1, <1>2, <1>3 DEF s
<1>. QED
  BY <1>4 DEF s, LinesTo, Lines

\* What may come behind a token x.
LEMMA JoinsToken ==
  ASSUME NEW o, NEW d, NEW x, NEW y, LinesTo(o, d, x),
         IsBreak(x) => y.kind \notin ClosingBrackets,
         pretty /\ x.kind \in OpeningBrackets \cup {"separator"} => y.kind \in ClosingBrackets \/ IsBreak(y)
  PROVE  Joins(o, y)
BY DEF LinesTo, Joins

\* A line break and a closing bracket on right lines.
LEMMA AppendedClosingLine ==
  ASSUME NEW o, NEW d \in Int, NEW x \in TokenRecords, NEW y \in TokenRecords, Lines(o, d),
         IsBreak(x), x.width = base + IndentSize * (d - 1), y.kind \in ClosingBrackets
  PROVE  LinesTo((o \o <<x>>) \o <<y>>, d + TokenChange(y), y)
<1>. DEFINE s == o \o <<x>>
            t == s \o <<y>>
<1>1. o \in Seq(TokenRecords) /\ Right(o) /\ Depth(o, Len(o)) = d
  BY DEF Lines
<1>2. Right(t)
  BY <1>1, RightOfClosingLine
<1>3. TokenChange(x) = 0
  BY DEF IsBreak, TokenChange, OpeningBrackets, ClosingBrackets
<1>4. s \in Seq(TokenRecords) /\ Len(s) = Len(o) + 1 /\ Depth(s, Len(o) + 1) = Depth(o, Len(o)) + TokenChange(x)
  BY <1>1, OneMore
<1>. HIDE DEF s
<1>5. Depth(s, Len(s)) = d
  BY <1>1, <1>3, <1>4
<1>6. /\ t \in Seq(TokenRecords) /\ Len(t) = Len(s) + 1 /\ t[Len(s) + 1] = y /\ t # <<>>
      /\ Depth(t, Len(s) + 1) = Depth(s, Len(s)) + TokenChange(y)
  BY <1>4, OneMore
<1>. HIDE DEF t
<1>7. t[Len(t)] = y /\ Depth(t, Len(t)) = d + TokenChange(y)
  BY <1>5, <1>6
<1>. QED
  BY <1>2, <1>6, <1>7 DEF s, t, LinesTo, Lines

\* Records with the fields of a token.
LEMMA RecordOfFive ==
  ASSUME NEW K, NEW M, NEW R, NEW N, NEW k \in K, NEW m \in M, NEW r \in R, NEW n \in N, NEW w \in Int
  PROVE  LET x == [kind |-> k, means |-> m, refused_by |-> r, nul |-> n, width |-> 0]
             y == [kind |-> k, means |-> m, refused_by |-> r, nul |-> n, width |-> w]
         IN  /\ x \in [kind : K, means : M, refused_by : R, nul : N, width : Int]
             /\ y \in [kind : K, means : M, refused_by : R, nul : N, width : Int]
             /\ [x EXCEPT !.width = w] = y
             /\ y.kind = k /\ y.means = m /\ y.width = w
             /\ x.kind = k /\ x.means = m
  OBVIOUS

\* The tokens that Token makes.
LEMMA TokensAreRecords ==
  \A kind \in TokenKinds, means \in Contents \cup {"space", "line break"} :
     /\ Token(kind, means) \in TokenRecords
     /\ Token(kind, means).kind = kind /\ Token(kind, means).means = means
<1>0. 0 \in Int
  OBVIOUS
<1>. SUFFICES ASSUME NEW kind \in TokenKinds, NEW means \in Contents \cup {"space", "line break"}
              PROVE  /\ Token(kind, means) \in TokenRecords
                     /\ Token(kind, means).kind = kind /\ Token(kind, means).means = means
  OBVIOUS
<1>1. {} \in {{}} /\ FALSE \in {FALSE}
  OBVIOUS
<1>. QED
  BY <1>0, <1>1, RecordOfFive DEF Token, TokenRecords

\* The line breaks that Eol makes.
LEMMA BreaksAreRecords ==
  \A n \in Int : /\ Eol(n) \in TokenRecords /\ Eol(n).kind = "whitespace"
                 /\ Eol(n).means = "line break" /\ Eol(n).width = n
<1>. SUFFICES ASSUME NEW n \in Int
              PROVE  /\ Eol(n) \in TokenRecords /\ Eol(n).kind = "whitespace"
                     /\ Eol(n).means = "line break" /\ Eol(n).width = n
  OBVIOUS
<1>1. {} \in {{}} /\ FALSE \in {FALSE}
      /\ "whitespace" \in TokenKinds /\ "line break" \in Contents \cup {"space", "line break"}
  BY DEF TokenKinds
<1>. QED
  BY <1>1, RecordOfFive DEF Eol, Token, TokenRecords

\* The token of a call, but for the key of an object.
LEMMA WrittenToken ==
  ASSUME NEW call \in CallRecords, call.write # "object_key"
  PROVE  \E x \in TokenRecords :
            /\ Written(call) = <<x>> /\ x.kind # "whitespace" /\ x.means \in Contents
            /\ ~IsBreak(x) /\ TokenChange(x) = Change(call)
            /\ x.kind \in ClosingBrackets <=> call.write \in ClosingBrackets
            /\ x.kind \in OpeningBrackets <=> call.write \in OpeningBrackets
            /\ x.kind = "separator" <=> call.write \in Delimiters
<1>1. /\ call.write \in Writes /\ call.content \in Contents
      /\ "" \in Contents
  BY DEF CallRecords, Contents
<1>2. \A kind \in TokenKinds, means \in Contents :
         /\ Token(kind, means) \in TokenRecords
         /\ Token(kind, means).kind = kind /\ Token(kind, means).means = means
  BY TokensAreRecords
<1>3. SUFFICES \E kind \in TokenKinds, means \in Contents :
         /\ Written(call) = <<Token(kind, means)>>
         /\ kind # "whitespace"
         /\ kind \in ClosingBrackets <=> call.write \in ClosingBrackets
         /\ kind \in OpeningBrackets <=> call.write \in OpeningBrackets
         /\ kind = "separator" <=> call.write \in Delimiters
  <2>1. PICK kind \in TokenKinds, means \in Contents :
         /\ Written(call) = <<Token(kind, means)>>
         /\ kind # "whitespace"
         /\ kind \in ClosingBrackets <=> call.write \in ClosingBrackets
         /\ kind \in OpeningBrackets <=> call.write \in OpeningBrackets
         /\ kind = "separator" <=> call.write \in Delimiters
    BY <1>3
  <2>. DEFINE x == Token(kind, means)
  <2>2. x \in TokenRecords /\ x.kind = kind /\ x.means \in Contents
    BY <1>2
  <2>3. Written(call) = <<x>>
    BY <2>1
  <2>. HIDE DEF x
  <2>4. ~IsBreak(x) /\ TokenChange(x) = Change(call)
    BY <2>1, <2>2 DEF IsBreak, TokenChange, Change
  <2>. QED
    BY <2>1, <2>2, <2>3, <2>4
<1>4. CASE call.write \in Delimiters
  <2>1. Written(call) = <<Token("separator", "")>>
    BY <1>4 DEF Written, Delimiters
  <2>2. "separator" \in TokenKinds /\ "separator" \notin OpeningBrackets \cup ClosingBrackets
        /\ call.write \notin OpeningBrackets \cup ClosingBrackets
    BY <1>4 DEF TokenKinds, OpeningBrackets, ClosingBrackets, Delimiters
  <2>. QED
    BY <1>1, <1>4, <2>1, <2>2
<1>5. CASE call.write \in {"integer", "decimal"}
  <2>1. Written(call) = <<Token("number", call.content)>> \/ Written(call) = <<Token("null", "")>>
    BY <1>5 DEF Written
  <2>2. /\ "number" \in TokenKinds /\ "number" \notin OpeningBrackets \cup ClosingBrackets
        /\ "null" \in TokenKinds /\ "null" \notin OpeningBrackets \cup ClosingBrackets
        /\ call.write \notin OpeningBrackets \cup ClosingBrackets \cup Delimiters
    BY <1>5 DEF TokenKinds, OpeningBrackets, ClosingBrackets, Delimiters
  <2>. QED
    BY <1>1, <1>5, <2>1, <2>2
<1>6. CASE call.write \notin Delimiters \cup {"integer", "decimal"}
  <2>1. Written(call) = <<Token(call.write, call.content)>>
    BY <1>6 DEF Written, Delimiters
  <2>2. call.write \in {"null", "boolean", "string"} \cup OpeningBrackets \cup ClosingBrackets
    BY <1>1, <1>6 DEF Writes, Scalars
  <2>3. call.write \in TokenKinds /\ call.write # "whitespace" /\ call.write # "separator"
    BY <2>2 DEF TokenKinds, OpeningBrackets, ClosingBrackets
  <2>. QED
    BY <1>1, <1>6, <2>1, <2>3
<1>. QED
  BY <1>4, <1>5, <1>6

\* The tokens of the key of an object.
LEMMA WrittenKey ==
  ASSUME NEW call \in CallRecords, call.write = "object_key"
  PROVE  LET x == Token("string", call.content)
             y == Token("object_key_delimiter", "")
         IN  /\ x \in TokenRecords /\ y \in TokenRecords /\ Written(call) = <<x, y>>
             /\ ~IsBreak(x) /\ TokenChange(x) = 0 /\ x.kind \notin OpeningBrackets \cup ClosingBrackets \cup {"separator"}
             /\ ~IsBreak(y) /\ TokenChange(y) = 0 /\ y.kind \notin OpeningBrackets \cup ClosingBrackets \cup {"separator"}
             /\ Change(call) = 0
<1>1. call.content \in Contents /\ "" \in Contents
  BY DEF CallRecords, Contents
<1>2. Written(call) = <<Token("string", call.content), Token("object_key_delimiter", "")>>
  BY DEF Written
<1>3. "string" \in TokenKinds /\ "object_key_delimiter" \in TokenKinds
  BY DEF TokenKinds
<1>. DEFINE x == Token("string", call.content)
            y == Token("object_key_delimiter", "")
<1>4. x \in TokenRecords /\ y \in TokenRecords /\ x.kind = "string" /\ y.kind = "object_key_delimiter"
  BY <1>1, <1>3, TokensAreRecords
<1>. HIDE DEF x, y
<1>5. /\ ~IsBreak(x) /\ TokenChange(x) = 0 /\ x.kind \notin OpeningBrackets \cup ClosingBrackets \cup {"separator"}
      /\ ~IsBreak(y) /\ TokenChange(y) = 0 /\ y.kind \notin OpeningBrackets \cup ClosingBrackets \cup {"separator"}
      /\ Change(call) = 0
  BY <1>4 DEF IsBreak, TokenChange, Change, OpeningBrackets, ClosingBrackets
<1>. QED
  BY <1>2, <1>4, <1>5 DEF x, y

\* The white space of the pretty encoder.
LEMMA SpacesAreTokens ==
  /\ Space \in TokenRecords /\ ~IsBreak(Space) /\ TokenChange(Space) = 0
  /\ Space.kind \notin OpeningBrackets \cup ClosingBrackets \cup {"separator"}
  /\ \A n \in Int : LET x == Eol(n)
                    IN  /\ x \in TokenRecords /\ IsBreak(x) /\ TokenChange(x) = 0 /\ x.width = n
                        /\ x.kind \notin OpeningBrackets \cup ClosingBrackets \cup {"separator"}
<1>1. "whitespace" \in TokenKinds
  BY DEF TokenKinds
<1>2. Space \in TokenRecords /\ Space.kind = "whitespace" /\ Space.means = "space"
  BY <1>1, TokensAreRecords DEF Space
<1>3. \A n \in Int : /\ Eol(n) \in TokenRecords /\ Eol(n).kind = "whitespace"
                     /\ Eol(n).means = "line break" /\ Eol(n).width = n
  BY BreaksAreRecords
<1>. QED
  BY <1>2, <1>3 DEF IsBreak, TokenChange, OpeningBrackets, ClosingBrackets

-----------------------------------------------------------------------------
(* The invariant *)

EncoderType ==
    /\ pretty \in BOOLEAN /\ defer \in BOOLEAN
    /\ calls \in Nat /\ base \in Nat /\ indent \in Nat /\ indent >= base
    /\ stream \in {"good", "thrown"} /\ (stream = "thrown" => todo = <<>>)
    /\ todo \in Seq(CallRecords)
    /\ ~pretty => ~defer

\* The calls yet to make are the rest of those for a value.
RestOfValue ==
    /\ Chained(todo)
    /\ todo # <<>> => todo[Len(todo)].write \notin OpeningBrackets \cup Delimiters \cup {"object_key"}

\* How deep the encoder is, and how deep it remembers to be.
KeepsDepth ==
    stream = "good" =>
        /\ Depth(out, Len(out)) \in Nat /\ LevelsLead(todo, Depth(out, Len(out)), 0)
        /\ indent = base + (IF pretty THEN IndentSize * Depth(out, Len(out)) ELSE 0)

\* A line break is due behind an opening bracket and the delimiter of an object.
DefersBreaks ==
    /\ calls > 0 /\ todo = <<>> /\ stream = "good" => ~defer
    /\ out # <<>> /\ todo # <<>> =>
          LET last == out[Len(out)]
          IN  /\ IsBreak(last) => todo[1].write \notin ClosingBrackets
              /\ pretty /\ last.kind \in OpeningBrackets => defer /\ todo[1].write \notin Delimiters
              /\ pretty /\ last.kind = "separator" =>
                    defer /\ todo[1].write \notin Delimiters \cup ClosingBrackets

EncoderInv ==
    /\ EncoderType /\ RestOfValue /\ KeepsDepth /\ DefersBreaks
    /\ out \in Seq(TokenRecords) /\ Right(out)

-----------------------------------------------------------------------------

\* Indents of successive depths.
LEMMA IndentsAdd ==
  /\ \A d \in Nat : IndentSize * d \in Nat
  /\ \A d \in Nat : IndentSize * (d + 1) = IndentSize * d + IndentSize
  /\ \A d \in Nat : d - 1 \in Nat => IndentSize * (d - 1) = IndentSize * d - IndentSize
  /\ IndentSize * 0 = 0
<1>1. IndentSize \in Nat
  BY BoundsAssumption
<1>. QED
  BY <1>1

\* What Write leaves behind, for each kind of call.
WritesRight(call, d) ==
    \E x \in TokenRecords :
        /\ LinesTo(out \o Prefix(call) \o Written(call) \o Suffix(call), d + Change(call), x)
        /\ IsBreak(x) => call.write = "array_delimiter"
        /\ pretty /\ x.kind \in OpeningBrackets => call.write \in OpeningBrackets
        /\ pretty /\ x.kind = "separator" => call.write = "object_delimiter"

\* Write, for a scalar or an opening bracket.
LEMMA ScalarWritesRight ==
  ASSUME EncoderInv, todo # <<>>, stream = "good", todo[1].write \in Scalars \cup OpeningBrackets
  PROVE  WritesRight(todo[1], Depth(out, Len(out)))
<1>. DEFINE call == todo[1]
            d == Depth(out, Len(out))
<1>1. call \in CallRecords /\ out \in Seq(TokenRecords)
  BY RestOfCalls DEF EncoderInv, EncoderType
<1>2. /\ call.write \notin ClosingBrackets \cup Delimiters \cup {"object_key"}
      /\ ~Closes(call)
  BY DEF Scalars, OpeningBrackets, ClosingBrackets, Delimiters, Closes
<1>3. PICK x \in TokenRecords :
         /\ Written(call) = <<x>>
         /\ ~IsBreak(x) /\ TokenChange(x) = Change(call)
         /\ x.kind \notin ClosingBrackets
         /\ x.kind \in OpeningBrackets <=> call.write \in OpeningBrackets
         /\ x.kind # "separator"
  BY <1>1, <1>2, WrittenToken
<1>4. d \in Nat /\ Lines(out, d) /\ indent \in Nat /\ (pretty => indent = base + IndentSize * d)
  BY DEF EncoderInv, EncoderType, KeepsDepth, Lines
<1>5. Suffix(call) = <<>> /\ Prefix(call) = IF pretty /\ defer THEN <<Eol(indent)>> ELSE <<>>
  BY <1>2 DEF Suffix, Prefix, Delimiters
<1>6. out # <<>> => /\ ~IsBreak(out[Len(out)]) \/ call.write \notin ClosingBrackets
                    /\ pretty /\ out[Len(out)].kind \in OpeningBrackets \cup {"separator"} => defer
  BY DEF EncoderInv, DefersBreaks
<1>. HIDE DEF call, d
<1>7. CASE pretty /\ defer
  <2>. DEFINE b == Eol(indent)
              s == out \o <<b>>
  <2>1. b \in TokenRecords /\ IsBreak(b) /\ TokenChange(b) = 0 /\ b.width = indent
        /\ b.kind \notin OpeningBrackets \cup ClosingBrackets \cup {"separator"}
    BY <1>4, SpacesAreTokens
  <2>. HIDE DEF b
  <2>2. Joins(out, b)
    BY <2>1 DEF Joins
  <2>3. LinesTo(s, d + 0, b) /\ d + 0 = d
    BY <1>4, <1>7, <2>1, <2>2, AppendedToken
  <2>. HIDE DEF s
  <2>4. Joins(s, x) /\ Lines(s, d)
    BY <1>3, <2>1, <2>3, JoinsToken DEF LinesTo
  <2>5. LinesTo(s \o <<x>>, d + TokenChange(x), x)
    BY <1>3, <1>4, <2>4, AppendedToken
  <2>6. s \o <<x>> \in Seq(TokenRecords)
    BY <2>5 DEF LinesTo, Lines
  <2>7. out \o Prefix(call) \o Written(call) \o Suffix(call) = s \o <<x>>
    <3>1. out \o Prefix(call) \o Written(call) \o Suffix(call) = (s \o <<x>>) \o <<>>
      BY <1>3, <1>5, <1>7 DEF s, b
    <3>. QED
      BY <2>6, <3>1, ConcatEmptySeq
  <2>. QED
    BY <1>3, <2>5, <2>7 DEF WritesRight, call, d
<1>8. CASE ~(pretty /\ defer)
  <2>1. Joins(out, x)
    BY <1>3, <1>6, <1>8 DEF Joins
  <2>2. LinesTo(out \o <<x>>, d + TokenChange(x), x)
    BY <1>3, <1>4, <2>1, AppendedToken
  <2>3. out \o <<x>> \in Seq(TokenRecords)
    BY <2>2 DEF LinesTo, Lines
  <2>4. out \o Prefix(call) \o Written(call) \o Suffix(call) = out \o <<x>>
    <3>1. out \o Prefix(call) \o Written(call) \o Suffix(call) = ((out \o <<>>) \o <<x>>) \o <<>>
      BY <1>3, <1>5, <1>8
    <3>. QED
      BY <1>1, <2>3, <3>1, ConcatEmptySeq
  <2>. QED
    BY <1>3, <2>2, <2>4 DEF WritesRight, call, d
<1>. QED
  BY <1>7, <1>8

\* Write, for a closing bracket.
LEMMA ClosingWritesRight ==
  ASSUME EncoderInv, todo # <<>>, stream = "good", todo[1].write \in ClosingBrackets
  PROVE  WritesRight(todo[1], Depth(out, Len(out)))
<1>. DEFINE call == todo[1]
            d == Depth(out, Len(out))
<1>1. call \in CallRecords /\ out \in Seq(TokenRecords)
  BY RestOfCalls DEF EncoderInv, EncoderType
<1>2. /\ call.write \notin OpeningBrackets \cup Delimiters \cup {"object_key"}
      /\ Closes(call)
  BY DEF OpeningBrackets, ClosingBrackets, Delimiters, Closes
<1>3. PICK x \in TokenRecords :
         /\ Written(call) = <<x>>
         /\ ~IsBreak(x) /\ TokenChange(x) = Change(call)
         /\ x.kind \in ClosingBrackets
         /\ x.kind \notin OpeningBrackets
         /\ x.kind # "separator"
  BY <1>1, <1>2, WrittenToken
<1>4. d \in Nat /\ Lines(out, d) /\ indent \in Nat /\ (pretty => indent = base + IndentSize * d) /\ base \in Nat
  BY DEF EncoderInv, EncoderType, KeepsDepth, Lines
<1>5. Suffix(call) = <<>> /\ Prefix(call) = IF pretty /\ ~defer THEN <<Eol(indent - IndentSize)>> ELSE <<>>
  BY <1>2 DEF Suffix, Prefix, Delimiters
<1>6. out # <<>> => ~IsBreak(out[Len(out)])
  BY DEF EncoderInv, DefersBreaks
<1>7. d - 1 \in Nat
  <2>1. d + Change(call) \in Nat /\ Change(call) = -1
    BY <1>2, <1>4, LevelsOfRest DEF EncoderInv, EncoderType, KeepsDepth, Change
  <2>. HIDE DEF call, d
  <2>. QED
    BY <1>4, <2>1
<1>. HIDE DEF call, d
<1>8. CASE pretty /\ ~defer
  <2>. DEFINE n == indent - IndentSize
              b == Eol(n)
  <2>1. n \in Int /\ n = base + IndentSize * (d - 1)
    <3>1. IndentSize * (d - 1) = IndentSize * d - IndentSize /\ IndentSize * d \in Nat /\ IndentSize \in Nat
      BY <1>4, <1>7, IndentsAdd, BoundsAssumption
    <3>. HIDE DEF d
    <3>. QED
      BY <1>4, <1>8, <3>1
  <2>. HIDE DEF n
  <2>2. b \in TokenRecords /\ IsBreak(b) /\ b.width = n
    BY <2>1, SpacesAreTokens
  <2>. HIDE DEF b
  <2>. DEFINE s == (out \o <<b>>) \o <<x>>
  <2>3. LinesTo(s, d + TokenChange(x), x)
    BY <1>3, <1>4, <2>1, <2>2, AppendedClosingLine
  <2>4. out \o Prefix(call) \o Written(call) \o Suffix(call) = s \o <<>>
    BY <1>3, <1>5, <1>8 DEF b, n
  <2>. HIDE DEF s
  <2>5. s \o <<>> = s
    BY <2>3, ConcatEmptySeq DEF LinesTo, Lines
  <2>. QED
    BY <1>3, <2>3, <2>4, <2>5 DEF WritesRight, call, d
<1>9. CASE ~(pretty /\ ~defer)
  <2>1. Joins(out, x)
    BY <1>3, <1>6 DEF Joins
  <2>2. LinesTo(out \o <<x>>, d + TokenChange(x), x)
    BY <1>3, <1>4, <2>1, AppendedToken
  <2>3. out \o <<x>> \in Seq(TokenRecords)
    BY <2>2 DEF LinesTo, Lines
  <2>4. out \o Prefix(call) \o Written(call) \o Suffix(call) = out \o <<x>>
    <3>1. out \o Prefix(call) \o Written(call) \o Suffix(call) = ((out \o <<>>) \o <<x>>) \o <<>>
      BY <1>3, <1>5, <1>9
    <3>. QED
      BY <1>1, <2>3, <3>1, ConcatEmptySeq
  <2>. QED
    BY <1>3, <2>2, <2>4 DEF WritesRight, call, d
<1>. QED
  BY <1>8, <1>9

\* Write, for a delimiter.
LEMMA DelimiterWritesRight ==
  ASSUME EncoderInv, todo # <<>>, stream = "good", todo[1].write \in Delimiters
  PROVE  WritesRight(todo[1], Depth(out, Len(out)))
<1>. DEFINE call == todo[1]
            d == Depth(out, Len(out))
            o == out \o Prefix(call)
<1>1. call \in CallRecords /\ out \in Seq(TokenRecords)
  BY RestOfCalls DEF EncoderInv, EncoderType
<1>2. /\ call.write \notin OpeningBrackets \cup ClosingBrackets \cup {"object_key"}
      /\ ~Closes(call) /\ Change(call) = 0
  BY DEF OpeningBrackets, ClosingBrackets, Delimiters, Closes, Change
<1>3. PICK x \in TokenRecords :
         /\ Written(call) = <<x>>
         /\ ~IsBreak(x) /\ TokenChange(x) = 0
         /\ x.kind \notin ClosingBrackets \cup OpeningBrackets
         /\ x.kind = "separator"
  BY <1>1, <1>2, WrittenToken
<1>4. d \in Nat /\ Lines(out, d) /\ indent \in Nat /\ (pretty => indent = base + IndentSize * d)
  BY DEF EncoderInv, EncoderType, KeepsDepth, Lines
<1>5. /\ Prefix(call) = IF pretty /\ defer /\ call.write = "array_delimiter" THEN <<Eol(indent)>> ELSE <<>>
      /\ Suffix(call) = IF pretty /\ call.write = "array_delimiter" THEN <<Eol(indent)>> ELSE <<>>
  BY <1>2 DEF Suffix, Prefix, Delimiters
<1>6. out # <<>> /\ pretty => out[Len(out)].kind \notin OpeningBrackets \cup {"separator"}
  BY DEF EncoderInv, DefersBreaks
<1>. DEFINE b == Eol(indent)
<1>7. b \in TokenRecords /\ IsBreak(b) /\ TokenChange(b) = 0 /\ b.width = indent
      /\ b.kind \notin OpeningBrackets \cup ClosingBrackets \cup {"separator"}
  BY <1>4, SpacesAreTokens
<1>. HIDE DEF call, d, b
<1>8. Joins(out, b) /\ Joins(out, x)
  BY <1>3, <1>6, <1>7 DEF Joins
<1>9. Lines(o, d) /\ Joins(o, x)
  <2>1. CASE Prefix(call) = <<>>
    <3>1. o = out
      BY <1>1, <2>1, ConcatEmptySeq
    <3>. QED
      BY <1>4, <1>8, <3>1
  <2>2. CASE Prefix(call) # <<>>
    <3>1. Prefix(call) = <<b>> /\ pretty
      BY <1>5, <2>2 DEF b
    <3>2. o = out \o <<b>>
      BY <3>1
    <3>. HIDE DEF o
    <3>3. LinesTo(o, d + 0, b) /\ d + 0 = d
      BY <1>4, <1>7, <1>8, <3>1, <3>2, AppendedToken
    <3>. QED
      BY <1>3, <1>7, <3>3, JoinsToken DEF LinesTo
  <2>. QED
    BY <2>1, <2>2
<1>. HIDE DEF o
<1>10. LinesTo(o \o <<x>>, d, x)
  <2>1. LinesTo(o \o <<x>>, d + 0, x)
    BY <1>3, <1>4, <1>9, AppendedToken
  <2>. QED
    BY <1>4, <2>1
<1>. DEFINE s == o \o <<x>>
<1>11. out \o Prefix(call) \o Written(call) \o Suffix(call) = s \o Suffix(call)
  BY <1>3 DEF o
<1>. HIDE DEF s
<1>12. CASE pretty /\ call.write = "array_delimiter"
  <2>1. Joins(s, b) /\ Lines(s, d)
    BY <1>3, <1>7, <1>10, JoinsToken DEF LinesTo, s
  <2>2. LinesTo(s \o <<b>>, d + 0, b)
    BY <1>4, <1>7, <1>12, <2>1, AppendedToken
  <2>3. Suffix(call) = <<b>>
    BY <1>5, <1>12 DEF b
  <2>. QED
    BY <1>2, <1>7, <1>11, <1>12, <2>2, <2>3 DEF WritesRight, call, d
<1>13. CASE ~(pretty /\ call.write = "array_delimiter")
  <2>1. s \o Suffix(call) = s
    <3>1. Suffix(call) = <<>> /\ s \in Seq(TokenRecords)
      BY <1>5, <1>10, <1>13 DEF LinesTo, Lines, s
    <3>. QED
      BY <3>1, ConcatEmptySeq
  <2>2. d + Change(call) = d
    BY <1>2, <1>4
  <2>3. pretty => call.write = "object_delimiter"
    BY <1>13 DEF Delimiters, call
  <2>. QED
    BY <1>3, <1>10, <1>11, <2>1, <2>2, <2>3 DEF WritesRight, call, d, s
<1>. QED
  BY <1>12, <1>13

\* Two tokens, one after the other.
LEMMA PairIsConcat ==
  ASSUME NEW S, NEW e \in S, NEW f \in S
  PROVE  <<e, f>> = <<e>> \o <<f>>
<1>1. /\ <<e>> \in Seq(S) /\ <<f>> \in Seq(S) /\ <<e, f>> \in Seq(S)
      /\ Len(<<e>>) = 1 /\ Len(<<f>>) = 1 /\ Len(<<e, f>>) = 2
      /\ <<e>>[1] = e /\ <<f>>[1] = f /\ <<e, f>>[1] = e /\ <<e, f>>[2] = f
  OBVIOUS
<1>. DEFINE s == <<e>> \o <<f>>
<1>2. s \in Seq(S) /\ Len(s) = 2 /\ s[1] = e /\ s[2] = f
  BY <1>1, ConcatProperties
<1>. HIDE DEF s
<1>3. \A i \in 1 .. 2 : i = 1 \/ i = 2
  OBVIOUS
<1>4. \A i \in 1 .. Len(s) : s[i] = <<e, f>>[i]
  BY <1>1, <1>2, <1>3
<1>5. s = <<e, f>>
  BY <1>1, <1>2, <1>4, SeqEqual
<1>. QED
  BY <1>5 DEF s

\* Write, for the key of an object.
LEMMA KeyWritesRight ==
  ASSUME EncoderInv, todo # <<>>, stream = "good", todo[1].write = "object_key"
  PROVE  WritesRight(todo[1], Depth(out, Len(out)))
<1>. DEFINE call == todo[1]
            d == Depth(out, Len(out))
            o == out \o Prefix(call)
            x == Token("string", call.content)
            y == Token("object_key_delimiter", "")
<1>1. call \in CallRecords /\ out \in Seq(TokenRecords)
  BY RestOfCalls DEF EncoderInv, EncoderType
<1>2. ~Closes(call)
  BY DEF Closes
<1>3. /\ x \in TokenRecords /\ y \in TokenRecords /\ Written(call) = <<x, y>>
      /\ ~IsBreak(x) /\ TokenChange(x) = 0 /\ x.kind \notin OpeningBrackets \cup ClosingBrackets \cup {"separator"}
      /\ ~IsBreak(y) /\ TokenChange(y) = 0 /\ y.kind \notin OpeningBrackets \cup ClosingBrackets \cup {"separator"}
      /\ Change(call) = 0
  BY <1>1, WrittenKey
<1>4. d \in Nat /\ Lines(out, d) /\ indent \in Nat /\ (pretty => indent = base + IndentSize * d)
  BY DEF EncoderInv, EncoderType, KeepsDepth, Lines
<1>5. /\ Prefix(call) = IF pretty /\ defer THEN <<Eol(indent)>> ELSE <<>>
      /\ Suffix(call) = IF pretty THEN <<Space>> ELSE <<>>
  BY <1>2 DEF Suffix, Prefix
<1>6. out # <<>> /\ pretty /\ out[Len(out)].kind \in OpeningBrackets \cup {"separator"} => defer
  BY DEF EncoderInv, DefersBreaks
<1>. DEFINE b == Eol(indent)
<1>7. b \in TokenRecords /\ IsBreak(b) /\ TokenChange(b) = 0 /\ b.width = indent
      /\ b.kind \notin OpeningBrackets \cup ClosingBrackets \cup {"separator"}
  BY <1>4, SpacesAreTokens
<1>8. Space \in TokenRecords /\ ~IsBreak(Space) /\ TokenChange(Space) = 0
      /\ Space.kind \notin OpeningBrackets \cup ClosingBrackets \cup {"separator"}
  BY SpacesAreTokens
<1>. HIDE DEF call, d, b, x, y
<1>9. Lines(o, d) /\ Joins(o, x)
  <2>1. CASE ~(pretty /\ defer)
    <3>1. o = out
      BY <1>1, <1>5, <2>1, ConcatEmptySeq
    <3>2. Joins(out, x)
      BY <1>3, <1>6, <2>1 DEF Joins
    <3>. QED
      BY <1>4, <3>1, <3>2
  <2>2. CASE pretty /\ defer
    <3>1. Joins(out, b)
      BY <1>7 DEF Joins
    <3>2. o = out \o <<b>>
      BY <1>5, <2>2 DEF b
    <3>. HIDE DEF o
    <3>3. LinesTo(o, d + 0, b) /\ d + 0 = d
      BY <1>4, <1>7, <2>2, <3>1, <3>2, AppendedToken
    <3>. QED
      BY <1>3, <1>7, <3>3, JoinsToken DEF LinesTo
  <2>. QED
    BY <2>1, <2>2
<1>. HIDE DEF o
<1>. DEFINE s == o \o <<x>>
            t == s \o <<y>>
<1>10. LinesTo(s, d, x)
  <2>1. LinesTo(s, d + 0, x) /\ d + 0 = d
    BY <1>3, <1>4, <1>9, AppendedToken
  <2>. HIDE DEF s
  <2>. QED
    BY <2>1
<1>11. LinesTo(t, d, y)
  <2>. HIDE DEF s
  <2>1. Joins(s, y) /\ Lines(s, d)
    BY <1>3, <1>10, JoinsToken DEF LinesTo
  <2>2. LinesTo(t, d + 0, y) /\ d + 0 = d
    BY <1>3, <1>4, <2>1, AppendedToken
  <2>. HIDE DEF t
  <2>. QED
    BY <2>2
<1>12. out \o Prefix(call) \o Written(call) \o Suffix(call) = t \o Suffix(call)
  <2>1. <<x, y>> = <<x>> \o <<y>> /\ <<x>> \in Seq(TokenRecords) /\ <<y>> \in Seq(TokenRecords)
    <3>1. \A e, f \in TokenRecords : <<e, f>> = <<e>> \o <<f>>
      BY PairIsConcat
    <3>2. \A e \in TokenRecords : <<e>> \in Seq(TokenRecords)
      OBVIOUS
    <3>. QED
      BY <1>3, <3>1, <3>2
  <2>2. o \in Seq(TokenRecords)
    BY <1>9 DEF Lines
  <2>3. o \o (<<x>> \o <<y>>) = t
    BY <2>1, <2>2, ConcatAssociative
  <2>4. out \o Prefix(call) \o Written(call) \o Suffix(call) = (o \o Written(call)) \o Suffix(call)
    BY DEF o
  <2>5. o \o Written(call) = t
    BY <1>3, <2>1, <2>3
  <2>. HIDE DEF t
  <2>. QED
    BY <2>4, <2>5
<1>. HIDE DEF s, t
<1>13. d + Change(call) = d
  BY <1>3, <1>4
<1>14. CASE pretty
  <2>1. Joins(t, Space) /\ Lines(t, d)
    BY <1>3, <1>11, JoinsToken DEF LinesTo
  <2>2. LinesTo(t \o <<Space>>, d + 0, Space) /\ d + 0 = d
    BY <1>4, <1>8, <2>1, AppendedToken
  <2>3. Suffix(call) = <<Space>>
    BY <1>5, <1>14
  <2>. QED
    BY <1>8, <1>12, <1>13, <2>2, <2>3 DEF WritesRight, call, d
<1>15. CASE ~pretty
  <2>1. t \o Suffix(call) = t
    BY <1>5, <1>11, <1>15, ConcatEmptySeq DEF LinesTo, Lines
  <2>. QED
    BY <1>3, <1>11, <1>12, <1>13, <2>1 DEF WritesRight, call, d
<1>. QED
  BY <1>14, <1>15

\* Write, for every call.
LEMMA EveryWriteIsRight ==
  ASSUME EncoderInv, todo # <<>>
  PROVE  stream = "good" /\ WritesRight(todo[1], Depth(out, Len(out)))
<1>1. stream = "good" /\ todo[1] \in CallRecords
  BY RestOfCalls DEF EncoderInv, EncoderType
<1>2. todo[1].write \in Writes
  BY <1>1 DEF CallRecords
<1>. QED
  BY <1>1, <1>2, ScalarWritesRight, ClosingWritesRight, DelimiterWritesRight, KeyWritesRight DEF Writes

\* Lines stay right where neither the base nor the kind of encoder changes.
LEMMA RightStays ==
  ASSUME NEW s, Right(s), UNCHANGED <<base, pretty>>
  PROVE  \A i \in 1 .. Len(s) :
            /\ IsBreak(s[i]) =>
                  s[i].width = base' + IndentSize * (Depth(s, i) - (IF ClosesNext(s, i) THEN 1 ELSE 0))
            /\ pretty' /\ s[i].kind \in OpeningBrackets \cup {"separator"} /\ i < Len(s) =>
                  ClosesNext(s, i) \/ IsBreak(s[i + 1])
BY DEF Right, RightAt

\* There are levels for no calls.
LEMMA NoLevels == LevelsLead(<<>>, 0, 0)
<1>. DEFINE h == [i \in 0 .. 0 |-> 0]
<1>1. h \in [0 .. 0 -> Nat] /\ h[0] = 0 /\ Len(<<>>) = 0
  OBVIOUS
<1>2. IsLevels(h, <<>>, 0, 0)
  BY <1>1 DEF IsLevels
<1>. HIDE DEF h
<1>. QED
  BY <1>1, <1>2 DEF LevelsLead

\* The invariant holds of a new encoder.
LEMMA InitEncoderInv == EncoderInit => EncoderInv
<1>. SUFFICES ASSUME EncoderInit PROVE EncoderInv
  OBVIOUS
<1>1. /\ pretty \in BOOLEAN /\ defer = FALSE /\ indent = 0 /\ base = 0 /\ calls = 0
      /\ stream = "good" /\ todo = <<>> /\ out = <<>>
  BY DEF EncoderInit
<1>2. EncoderType
  <2>1. <<>> \in Seq(CallRecords)
    OBVIOUS
  <2>2. pretty \in BOOLEAN /\ defer \in BOOLEAN /\ ~defer
    BY <1>1, Zenon
  <2>3. /\ calls \in Nat /\ base \in Nat /\ indent \in Nat /\ indent >= base
        /\ stream \in {"good", "thrown"} /\ stream # "thrown"
    BY <1>1
  <2>. QED
    BY <1>1, <2>1, <2>2, <2>3 DEF EncoderType
<1>3. RestOfValue
  BY <1>1 DEF RestOfValue, Chained
<1>4. KeepsDepth
  <2>1. Depth(out, Len(out)) = 0
    BY <1>1, DepthOfNone
  <2>2. LevelsLead(<<>>, 0, 0)
    BY NoLevels
  <2>. QED
    BY <1>1, <2>1, <2>2, IndentsAdd DEF KeepsDepth
<1>5. DefersBreaks
  BY <1>1 DEF DefersBreaks
<1>6. out \in Seq(TokenRecords) /\ Right(out)
  BY <1>1 DEF Right
<1>. QED
  BY <1>2, <1>3, <1>4, <1>5, <1>6 DEF EncoderInv

\* Encode keeps the invariant: its calls are whole.
LEMMA EncodeKeepsInv == EncoderInv /\ Encode => EncoderInv'
<1>. SUFFICES ASSUME EncoderInv, Encode PROVE EncoderInv'
  OBVIOUS
<1>1. /\ source' \in Sources /\ todo' = CallsOf(source') /\ out' = <<>>
      /\ base' = indent /\ calls' = calls + 1 /\ stream' = "good"
      /\ pretty' = pretty /\ indent' = indent /\ defer' = defer
  BY DEF Encode
<1>2. todo' \in Seq(CallRecords) /\ Whole(todo')
  BY <1>1, CallsAreWhole DEF WholeCalls
<1>3. EncoderType'
  BY <1>1, <1>2 DEF EncoderInv, EncoderType
<1>4. RestOfValue'
  BY <1>2 DEF RestOfValue, Whole
<1>5. KeepsDepth'
  <2>1. Depth(out', Len(out')) = 0
    BY <1>1, DepthOfNone
  <2>2. LevelsLead(todo', 0, 0) /\ indent \in Nat
    BY <1>2 DEF Whole, EncoderInv, EncoderType
  <2>. QED
    BY <1>1, <2>1, <2>2, IndentsAdd DEF KeepsDepth
<1>6. DefersBreaks'
  BY <1>1, <1>2 DEF DefersBreaks, Whole
<1>7. (out \in Seq(TokenRecords) /\ Right(out))'
  BY <1>1 DEF Right
<1>. QED
  BY <1>3, <1>4, <1>5, <1>6, <1>7 DEF EncoderInv

\* Write keeps the invariant.
LEMMA WriteKeepsInv == EncoderInv /\ Write => EncoderInv'
<1>. SUFFICES ASSUME EncoderInv, Write PROVE EncoderInv'
  OBVIOUS
<1>. DEFINE call == todo[1]
            d == Depth(out, Len(out))
            e == d + Change(call)
<1>1. todo # <<>> /\ todo \in Seq(CallRecords) /\ Head(todo) = call /\ call \in CallRecords
      /\ Tail(todo) \in Seq(CallRecords)
  BY RestOfCalls DEF Write, EncoderInv, EncoderType
<1>2. /\ out' = out \o Prefix(call) \o Written(call) \o Suffix(call)
      /\ indent' = IndentAfter(call) /\ defer' = Defers(call) /\ todo' = Tail(todo)
      /\ pretty' = pretty /\ base' = base /\ calls' = calls /\ stream' = stream
  BY <1>1 DEF Write
<1>3. stream = "good" /\ WritesRight(call, d)
  BY <1>1, EveryWriteIsRight
<1>4. PICK x \in TokenRecords :
        /\ LinesTo(out', e, x)
        /\ IsBreak(x) => call.write = "array_delimiter"
        /\ pretty /\ x.kind \in OpeningBrackets => call.write \in OpeningBrackets
        /\ pretty /\ x.kind = "separator" => call.write = "object_delimiter"
  BY <1>2, <1>3 DEF WritesRight
<1>5. d \in Nat /\ e \in Nat /\ LevelsLead(todo', e, 0)
  BY <1>1, <1>2, <1>3, LevelsOfRest DEF EncoderInv, KeepsDepth
<1>6. /\ Chained(todo')
      /\ todo' # <<>> => MayFollow(call, todo'[1]) /\ todo'[Len(todo')] = todo[Len(todo)]
      /\ todo' = <<>> => call.write \notin OpeningBrackets \cup Delimiters \cup {"object_key"}
  BY <1>1, <1>2, ChainedRest DEF EncoderInv, RestOfValue
<1>7. /\ out' \in Seq(TokenRecords) /\ Right(out') /\ Depth(out', Len(out')) = e
      /\ out' # <<>> /\ out'[Len(out')] = x
  BY <1>4 DEF LinesTo, Lines
<1>8. /\ indent \in Nat /\ base \in Nat /\ pretty \in BOOLEAN /\ calls \in Nat
      /\ indent = base + (IF pretty THEN IndentSize * d ELSE 0)
  BY <1>3 DEF EncoderInv, EncoderType, KeepsDepth
<1>9. indent' = base + (IF pretty THEN IndentSize * e ELSE 0)
  <2>1. CASE pretty /\ call.write \in OpeningBrackets
    <3>1. indent' = indent + IndentSize /\ Change(call) = 1
      <4>1. Opens(call) /\ ~Closes(call) /\ Change(call) = 1
        BY <2>1 DEF Opens, Closes, OpeningBrackets, Change
      <4>2. IndentAfter(call) = indent + IndentSize
        BY <2>1, <4>1 DEF IndentAfter
      <4>. QED
        BY <1>2, <4>1, <4>2
    <3>2. IndentSize * (d + 1) = IndentSize * d + IndentSize /\ IndentSize * d \in Nat /\ IndentSize \in Nat
      BY <1>5, IndentsAdd, BoundsAssumption
    <3>. HIDE DEF call, d
    <3>. QED
      BY <1>8, <2>1, <3>1, <3>2
  <2>2. CASE pretty /\ call.write \in ClosingBrackets
    <3>1. indent' = indent - IndentSize /\ Change(call) = -1
      BY <1>2, <2>2 DEF IndentAfter, Opens, Closes, OpeningBrackets, ClosingBrackets, Change
    <3>2. d - 1 \in Nat /\ e = d - 1
      <4>. HIDE DEF call, d
      <4>. QED
        BY <1>5, <3>1
    <3>3. IndentSize * (d - 1) = IndentSize * d - IndentSize /\ IndentSize * d \in Nat /\ IndentSize \in Nat
      BY <1>5, <3>2, IndentsAdd, BoundsAssumption
    <3>. HIDE DEF call, d, e
    <3>. QED
      BY <1>8, <2>2, <3>1, <3>2, <3>3
  <2>3. CASE ~pretty \/ call.write \notin OpeningBrackets \cup ClosingBrackets
    <3>1. indent' = indent /\ (pretty => Change(call) = 0)
      BY <1>2, <2>3 DEF IndentAfter, Opens, Closes, OpeningBrackets, ClosingBrackets, Change
    <3>2. pretty => e = d
      <4>. HIDE DEF call, d
      <4>. QED
        BY <1>5, <3>1
    <3>. HIDE DEF call, d, e
    <3>. QED
      BY <1>8, <3>1, <3>2
  <2>. QED
    BY <2>1, <2>2, <2>3
<1>. HIDE DEF e, d
<1>10. indent' \in Nat /\ indent' >= base
  <2>1. IndentSize * e \in Nat
    BY <1>5, IndentsAdd
  <2>. QED
    BY <1>8, <1>9, <2>1
<1>11. defer' \in BOOLEAN /\ (defer' <=> pretty /\ (call.write \in OpeningBrackets \/ call.write = "object_delimiter"))
  BY <1>2 DEF Defers, Opens, OpeningBrackets
<1>12. EncoderType'
  BY <1>1, <1>2, <1>3, <1>8, <1>10, <1>11 DEF EncoderType
<1>13. RestOfValue'
  BY <1>1, <1>2, <1>6 DEF RestOfValue, EncoderInv
<1>14. KeepsDepth'
  BY <1>2, <1>5, <1>7, <1>9 DEF KeepsDepth
<1>. HIDE DEF call
<1>15. DefersBreaks'
  <2>1. todo' = <<>> => ~defer'
    BY <1>6, <1>11 DEF Delimiters
  <2>2. ASSUME todo' # <<>>
        PROVE  /\ IsBreak(x) => todo'[1].write \notin ClosingBrackets
               /\ pretty /\ x.kind \in OpeningBrackets => defer' /\ todo'[1].write \notin Delimiters
               /\ pretty /\ x.kind = "separator" => defer' /\ todo'[1].write \notin Delimiters \cup ClosingBrackets
    BY <1>4, <1>6, <1>11, <2>2 DEF MayFollow, Delimiters
  <2>. QED
    BY <1>2, <1>7, <2>1, <2>2 DEF DefersBreaks
<1>16. (out \in Seq(TokenRecords) /\ Right(out))'
  <2>1. Right(out)'
    BY <1>2, <1>7, RightStays DEF Right, RightAt
  <2>. QED
    BY <1>7, <2>1
<1>. QED
  BY <1>12, <1>13, <1>14, <1>15, <1>16 DEF EncoderInv

\* An exception of the stream keeps the invariant.
LEMMA ThrowKeepsInv == EncoderInv /\ StreamThrows => EncoderInv'
<1>. SUFFICES ASSUME EncoderInv, StreamThrows PROVE EncoderInv'
  OBVIOUS
<1>. DEFINE call == todo[1]
            d == Depth(out, Len(out))
<1>1. todo # <<>> /\ todo \in Seq(CallRecords) /\ Head(todo) = call /\ call \in CallRecords
  BY RestOfCalls DEF StreamThrows, EncoderInv, EncoderType
<1>2. /\ indent' = IF Closes(call) THEN IndentAfter(call) ELSE indent
      /\ defer' \in {FALSE, defer}
      /\ todo' = <<>> /\ stream' = "thrown"
      /\ pretty' = pretty /\ out' = out /\ base' = base /\ calls' = calls
  <2>1. /\ indent' = IF Closes(call) THEN IndentAfter(call) ELSE indent
        /\ defer' \in IF Closes(call) THEN {FALSE}
                      ELSE IF call.write = "object_delimiter" THEN {defer} ELSE {defer, FALSE}
        /\ todo' = <<>> /\ stream' = "thrown"
        /\ pretty' = pretty /\ out' = out /\ base' = base /\ calls' = calls
    BY <1>1 DEF StreamThrows
  <2>. HIDE DEF call
  <2>. QED
    BY <2>1
<1>3. /\ indent \in Nat /\ base \in Nat /\ pretty \in BOOLEAN /\ calls \in Nat /\ indent >= base
      /\ stream = "good" /\ defer \in BOOLEAN /\ (~pretty => ~defer)
  BY <1>1 DEF EncoderInv, EncoderType
<1>4. indent' \in Nat /\ indent' >= base
  <2>1. CASE pretty /\ Closes(call)
    <3>1. indent' = indent - IndentSize /\ Change(call) = -1
      BY <1>2, <2>1 DEF IndentAfter, Opens, Closes, OpeningBrackets, ClosingBrackets, Change
    <3>2. d \in Nat /\ d + Change(call) \in Nat /\ indent = base + IndentSize * d
      BY <1>1, <1>3, <2>1, LevelsOfRest DEF EncoderInv, KeepsDepth
    <3>. HIDE DEF call, d
    <3>3. d - 1 \in Nat
      BY <3>1, <3>2
    <3>4. /\ IndentSize * (d - 1) = IndentSize * d - IndentSize
          /\ IndentSize * (d - 1) \in Nat /\ IndentSize * d \in Nat /\ IndentSize \in Nat
      BY <3>2, <3>3, IndentsAdd, BoundsAssumption
    <3>. QED
      BY <1>3, <3>1, <3>2, <3>4
  <2>2. CASE ~(pretty /\ Closes(call))
    <3>1. indent' = indent
      BY <1>2, <2>2 DEF IndentAfter, Opens, Closes
    <3>. QED
      BY <1>3, <3>1
  <2>. QED
    BY <2>1, <2>2
<1>. HIDE DEF call, d
<1>5. EncoderType'
  <2>1. <<>> \in Seq(CallRecords)
    OBVIOUS
  <2>2. defer' \in BOOLEAN /\ (~pretty => ~defer')
    <3>1. defer' = FALSE \/ defer' = defer
      BY <1>2
    <3>2. defer \in BOOLEAN /\ (~pretty => ~defer)
      BY <1>3
    <3>3. CASE defer' = FALSE
      <4>1. ~defer'
        BY <3>3, Zenon
      <4>. QED
        BY <3>3, <4>1, Zenon
    <3>4. CASE defer' = defer
      <4>1. defer' \in BOOLEAN
        BY <3>2, <3>4, Zenon
      <4>2. ~pretty => ~defer'
        BY <3>2, <3>4, Zenon
      <4>. QED
        BY <4>1, <4>2
    <3>. QED
      BY <3>1, <3>3, <3>4
  <2>. QED
    BY <1>2, <1>3, <1>4, <2>1, <2>2 DEF EncoderType
<1>6. RestOfValue' /\ KeepsDepth' /\ DefersBreaks'
  BY <1>2 DEF RestOfValue, KeepsDepth, DefersBreaks, Chained
<1>7. (out \in Seq(TokenRecords) /\ Right(out))'
  <2>1. Right(out) /\ out \in Seq(TokenRecords)
    BY DEF EncoderInv
  <2>2. Right(out)'
    BY <1>2, <2>1, RightStays DEF Right, RightAt
  <2>. QED
    BY <1>2, <2>1, <2>2
<1>. QED
  BY <1>5, <1>6, <1>7 DEF EncoderInv

\* A step that changes nothing keeps the invariant.
LEMMA StutterKeepsEncoderInv == EncoderInv /\ UNCHANGED encoderVars => EncoderInv'
BY DEF EncoderInv, encoderVars, EncoderType, RestOfValue, KeepsDepth, DefersBreaks, Right, RightAt

\* The invariant implies that lines are indented by their depth.
LEMMA InvIndents == EncoderInv => IndentationIsDepth
<1>. SUFFICES ASSUME EncoderInv PROVE IndentationIsDepth
  OBVIOUS
<1>1. DOMAIN out = 1 .. Len(out) /\ Right(out)
  BY LenProperties DEF EncoderInv
<1>2. /\ \A i \in DOMAIN out : IsBreak(out[i]) =>
            out[i].width = base + IndentSize * (Depth(out, i) - (IF ClosesNext(out, i) THEN 1 ELSE 0))
      /\ pretty => \A i \in DOMAIN out :
            out[i].kind \in OpeningBrackets \cup {"separator"} /\ i < Len(out) =>
                ClosesNext(out, i) \/ IsBreak(out[i + 1])
  BY <1>1 DEF Right, RightAt
<1>3. base >= 0 /\ indent >= base
  BY DEF EncoderInv, EncoderType
<1>4. Returned => indent = base /\ ~defer
  <2>. SUFFICES ASSUME Returned PROVE indent = base /\ ~defer
    OBVIOUS
  <2>1. calls > 0 /\ todo = <<>> /\ stream = "good"
    BY DEF Returned
  <2>2. Depth(out, Len(out)) = 0
    BY <2>1, LevelsOfNone DEF EncoderInv, KeepsDepth
  <2>3. indent = base
    BY <2>1, <2>2, IndentsAdd DEF EncoderInv, EncoderType, KeepsDepth
  <2>. QED
    BY <2>1, <2>3 DEF EncoderInv, DefersBreaks
<1>. QED
  BY <1>2, <1>3, <1>4 DEF IndentationIsDepth

\* For every set of values, order of keys and indent: the lines of what the pretty encoder
\* writes are indented by their depth, an encode that returns leaves the indent as it was
\* and no line break due, and the indent never falls below 0, whenever the stream throws.
THEOREM LinesAreIndented == EncoderSpec => []IndentationIsDepth
<1>1. EncoderInit => EncoderInv
  BY InitEncoderInv
<1>2. EncoderInv /\ [EncoderNext]_encoderVars => EncoderInv'
  BY EncodeKeepsInv, WriteKeepsInv, ThrowKeepsInv, StutterKeepsEncoderInv DEF EncoderNext
<1>3. EncoderInv => IndentationIsDepth
  BY InvIndents
<1>. QED
  BY <1>1, <1>2, <1>3, PTL DEF EncoderSpec

-----------------------------------------------------------------------------
(* The reader on what calls write *)

\* The state of the reader behind the tokens of a call, from the state c before them.
TakesCall(c, call) ==
    IF call.write = "object_key"
    THEN Takes(StrictOptions, Takes(StrictOptions, c, Token("string", call.content)),
               Token("object_key_delimiter", ""))
    ELSE Takes(StrictOptions, c, Written(call)[1])

\* The calls q take the reader from state a to state b.
IsRun(h, q, a, b) ==
    /\ h[0] = a /\ h[Len(q)] = b
    /\ \A i \in 1 .. Len(q) : h[i] = TakesCall(h[i - 1], q[i])
Runs(q, a, b) == \E h : IsRun(h, q, a, b)

\* The reader goes over calls and those behind them.
LEMMA RunOfConcat ==
  ASSUME NEW q \in Seq(CallRecords), NEW r \in Seq(CallRecords), NEW a, NEW b, NEW c,
         Runs(q, a, b), Runs(r, b, c)
  PROVE  Runs(q \o r, a, c)
<1>1. PICK h : IsRun(h, q, a, b)
  BY DEF Runs
<1>2. PICK g : IsRun(g, r, b, c)
  BY DEF Runs
<1>. DEFINE m == Len(q)
            n == Len(r)
            s == q \o r
            f == [i \in 0 .. m + n |-> IF i <= m THEN h[i] ELSE g[i - m]]
<1>3. /\ m \in Nat /\ n \in Nat /\ Len(s) = m + n
      /\ \A i \in 1 .. m + n : s[i] = IF i <= m THEN q[i] ELSE r[i - m]
  BY LenProperties, ConcatProperties
<1>4. /\ h[0] = a /\ h[m] = b /\ \A i \in 1 .. m : h[i] = TakesCall(h[i - 1], q[i])
      /\ g[0] = b /\ g[n] = c /\ \A i \in 1 .. n : g[i] = TakesCall(g[i - 1], r[i])
  BY <1>1, <1>2 DEF IsRun
<1>. HIDE DEF m, n, s
<1>5. \A i \in 0 .. m : i \in 0 .. m + n /\ f[i] = h[i]
  BY <1>3
<1>6. \A i \in m .. m + n : f[i] = g[i - m]
  <2>. SUFFICES ASSUME NEW i \in m .. m + n PROVE f[i] = g[i - m]
    OBVIOUS
  <2>1. i \in 0 .. m + n
    BY <1>3
  <2>2. CASE i = m
    BY <1>3, <1>4, <2>1, <2>2
  <2>3. CASE i # m
    BY <1>3, <2>1, <2>3
  <2>. QED
    BY <2>2, <2>3
<1>. HIDE DEF f
<1>7. ASSUME NEW i \in 1 .. m + n PROVE f[i] = TakesCall(f[i - 1], s[i])
  <2>1. CASE i <= m
    <3>1. i \in 0 .. m /\ i - 1 \in 0 .. m /\ i \in 1 .. m
      BY <1>3, <2>1
    <3>. QED
      BY <1>3, <1>4, <1>5, <2>1, <3>1
  <2>2. CASE ~(i <= m)
    <3>1. i \in m .. m + n /\ i - 1 \in m .. m + n /\ i - m \in 1 .. n /\ (i - 1) - m = (i - m) - 1
      BY <1>3, <2>2
    <3>2. f[i] = g[i - m] /\ f[i - 1] = g[(i - m) - 1] /\ s[i] = r[i - m]
      BY <1>3, <1>6, <2>2, <3>1
    <3>. QED
      BY <1>4, <3>1, <3>2
  <2>. QED
    BY <2>1, <2>2
<1>8. f[0] = a /\ f[m + n] = c
  <2>1. 0 \in 0 .. m /\ m + n \in m .. m + n /\ (m + n) - m = n
    BY <1>3
  <2>. QED
    BY <1>4, <1>5, <1>6, <2>1
<1>9. IsRun(f, s, a, c)
  BY <1>3, <1>7, <1>8 DEF IsRun
<1>. QED
  BY <1>9 DEF Runs, s

\* The reader goes over a single call.
LEMMA RunOfOne ==
  ASSUME NEW call, NEW a
  PROVE  Runs(<<call>>, a, TakesCall(a, call))
<1>. DEFINE h == [i \in 0 .. 1 |-> IF i = 0 THEN a ELSE TakesCall(a, call)]
<1>1. Len(<<call>>) = 1 /\ <<call>>[1] = call
  OBVIOUS
<1>2. h[0] = a /\ h[1] = TakesCall(a, call)
  OBVIOUS
<1>. HIDE DEF h
<1>3. \A i \in 1 .. 1 : h[i] = TakesCall(h[i - 1], <<call>>[i])
  <2>1. \A i \in 1 .. 1 : i = 1 /\ i - 1 = 0
    OBVIOUS
  <2>. QED
    BY <1>1, <1>2, <2>1
<1>4. IsRun(h, <<call>>, a, TakesCall(a, call))
  BY <1>1, <1>2, <1>3 DEF IsRun
<1>. QED
  BY <1>4 DEF Runs

\* The reader stays where it is for no calls.
LEMMA RunOfNone == \A a, b : Runs(<<>>, a, b) <=> a = b
<1>. SUFFICES ASSUME NEW a, NEW b PROVE Runs(<<>>, a, b) <=> a = b
  OBVIOUS
<1>1. Len(<<>>) = 0 /\ 1 .. 0 = {}
  OBVIOUS
<1>2. Runs(<<>>, a, b) => a = b
  BY <1>1 DEF Runs, IsRun
<1>3. Runs(<<>>, a, a)
  <2>. DEFINE h == [i \in {0} |-> a]
  <2>1. h[0] = a
    OBVIOUS
  <2>. HIDE DEF h
  <2>2. IsRun(h, <<>>, a, a)
    BY <1>1, <2>1 DEF IsRun
  <2>. QED
    BY <2>2 DEF Runs
<1>. QED
  BY <1>2, <1>3

\* Behind the first call the reader has the rest to go.
LEMMA RunOfRest ==
  ASSUME NEW q \in Seq(CallRecords), q # <<>>, NEW a, NEW b, Runs(q, a, b)
  PROVE  Runs(Tail(q), TakesCall(a, q[1]), b)
<1>1. PICK h : IsRun(h, q, a, b)
  BY DEF Runs
<1>. DEFINE n == Len(q)
            t == Tail(q)
            g == [i \in 0 .. n - 1 |-> h[i + 1]]
<1>2. /\ n \in Nat \ {0} /\ Len(t) = n - 1 /\ \A i \in 1 .. n - 1 : t[i] = q[i + 1]
  BY RestOfCalls
<1>3. /\ h[0] = a /\ h[n] = b /\ \A i \in 1 .. n : h[i] = TakesCall(h[i - 1], q[i])
  BY <1>1 DEF IsRun
<1>. HIDE DEF n, t
<1>4. \A i \in 0 .. n - 1 : g[i] = h[i + 1]
  OBVIOUS
<1>. HIDE DEF g
<1>5. h[1] = TakesCall(a, q[1])
  <2>1. 1 \in 1 .. n /\ 1 - 1 = 0
    BY <1>2
  <2>. QED
    BY <1>3, <2>1
<1>6. g[0] = h[1] /\ g[n - 1] = b
  <2>1. 0 \in 0 .. n - 1 /\ n - 1 \in 0 .. n - 1 /\ (n - 1) + 1 = n /\ 0 + 1 = 1
    BY <1>2
  <2>. QED
    BY <1>3, <1>4, <2>1
<1>7. ASSUME NEW i \in 1 .. n - 1 PROVE g[i] = TakesCall(g[i - 1], t[i])
  <2>1. i \in 0 .. n - 1 /\ i - 1 \in 0 .. n - 1 /\ (i - 1) + 1 = i /\ i + 1 \in 1 .. n /\ (i + 1) - 1 = i
    BY <1>2
  <2>2. g[i] = h[i + 1] /\ g[i - 1] = h[i] /\ t[i] = q[i + 1]
    BY <1>2, <1>4, <2>1
  <2>. QED
    BY <1>3, <2>1, <2>2
<1>8. IsRun(g, t, TakesCall(a, q[1]), b)
  BY <1>2, <1>5, <1>6, <1>7 DEF IsRun
<1>. QED
  BY <1>8 DEF Runs, t

\* What Token makes.
LEMMA TokenHas ==
  \A kind, means : /\ Token(kind, means).kind = kind /\ Token(kind, means).means = means
                   /\ Token(kind, means).refused_by = {}
  BY DEF Token

\* Tokens of encode are not refused.
LEMMA TokensAreReadable ==
  \A kind \in ScalarKinds : \A means : Readable(Token(kind, means), StrictOptions)
  BY TokenHas DEF Readable

\* A value begins alike in an array and elsewhere.
LEMMA BeginsAlike ==
  ASSUME NEW o, NEW s, NEW site \in {"value", "item"}, NEW t, t.kind # "array_end"
  PROVE  Takes(o, Expects(site, s), t) = BeginsValue(o, s, t)
<1>1. Expects(site, s).at = site /\ Expects(site, s).stack = s
  BY ExpectsHas
<1>2. CASE site = "value"
  BY <1>1, <1>2 DEF Takes
<1>3. CASE site = "item"
  BY <1>1, <1>3 DEF Takes
<1>. QED
  BY <1>2, <1>3

\* The reader on the token of a scalar.
LEMMA TakesScalar ==
  ASSUME NEW kind \in ScalarKinds, NEW means, NEW s, NEW site \in {"value", "item"}
  PROVE  Takes(StrictOptions, Expects(site, s), Token(kind, means)) = Absorb(s, Leaf(Label(kind, means)))
<1>. DEFINE t == Token(kind, means)
<1>1. t.kind = kind /\ t.means = means /\ Readable(t, StrictOptions)
  BY TokenHas, TokensAreReadable
<1>. HIDE DEF t
<1>2. Takes(StrictOptions, Expects(site, s), t) = BeginsValue(StrictOptions, s, t)
  BY <1>1, BeginsAlike DEF ScalarKinds
<1>3. BeginsValue(StrictOptions, s, t) = Absorb(s, Leaf(Label(t.kind, t.means)))
  BY <1>1 DEF BeginsValue, ScalarKinds
<1>. QED
  BY <1>1, <1>2, <1>3 DEF t

\* What the text of a value can express is a tree with its nodes and containers.
LEMMA PrintedIsTree ==
  ASSUME NEW v \in Sources
  PROVE  /\ WellFormed(Printed(v)) /\ IsTree(Printed(v)) /\ DOMAIN Printed(v) = DOMAIN v
         /\ \A p \in DOMAIN v : Printed(v)[p] \in Labels /\ (IsContainer(v[p]) => Printed(v)[p] = v[p])
         /\ \A p \in DOMAIN v : Printed(v)[p].kind \in ContainerKinds => Printed(v)[p] = v[p]
<1>1. WellFormed(Printed(v)) /\ DOMAIN Printed(v) = DOMAIN v
  BY SourcesAssumption DEF Printed
<1>2. \A p \in DOMAIN v : IsContainer(v[p]) => Printed(v)[p] = v[p]
  BY DEF Printed, IsContainer, ContainerKinds
<1>3. \A p \in DOMAIN v : Printed(v)[p].kind \in ContainerKinds => Printed(v)[p] = v[p]
  BY DEF Printed, ContainerKinds, Label
<1>. DEFINE t == Printed(v)
<1>4. WellFormed(t) /\ DOMAIN t = DOMAIN v
  BY <1>1
<1>. HIDE DEF t
<1>5. IsTree(t)
  BY <1>4 DEF WellFormed
<1>6. \A p \in DOMAIN v : t[p] \in Labels
  BY <1>4, <1>5 DEF IsTree
<1>. QED
  BY <1>2, <1>3, <1>4, <1>5, <1>6 DEF t

\* The calls for values that are not containers.
LEMMA CallOfScalar ==
  ASSUME NEW v \in Sources, NEW p \in DOMAIN v, ~IsContainer(v[p]), NEW s, NEW site \in {"value", "item"}
  PROVE  TakesCall(Expects(site, s), Call(v[p].kind, v[p].content)) = Absorb(s, Leaf(Printed(v)[p]))
<1>. DEFINE call == Call(v[p].kind, v[p].content)
            x == Printed(v)[p]
<1>1. call.write = v[p].kind /\ call.content = v[p].content
  BY DEF Call
<1>2. v[p].kind \in Scalars
  BY SourceIsTree DEF Kinds, Scalars, IsContainer, ContainerKinds
<1>3. x = IF v[p].kind \notin {"integer", "decimal"} THEN v[p]
          ELSE IF v[p].content \in NonFinite THEN Label("null", "")
          ELSE Label("number", v[p].content)
  BY DEF Printed
<1>4. x \in Labels
  BY PrintedIsTree
<1>. HIDE DEF call, x
<1>5. \E kind \in ScalarKinds : \E means : Written(call) = <<Token(kind, means)>> /\ x = Label(kind, means)
  <2>1. CASE v[p].kind \in {"integer", "decimal"} /\ v[p].content \in NonFinite
    BY <1>1, <1>3, <2>1 DEF Written, ScalarKinds
  <2>2. CASE v[p].kind \in {"integer", "decimal"} /\ v[p].content \notin NonFinite
    BY <1>1, <1>3, <2>2 DEF Written, ScalarKinds
  <2>3. CASE v[p].kind \notin {"integer", "decimal"}
    <3>1. x = v[p] /\ v[p].kind \in ScalarKinds
      BY <1>2, <1>3, <2>3 DEF Scalars, ScalarKinds
    <3>2. x = Label(x.kind, x.content)
      BY <1>4 DEF Labels, Label
    <3>3. Written(call) = <<Token(call.write, call.content)>>
      BY <1>1, <1>2, <2>3 DEF Written, Scalars
    <3>. QED
      BY <1>1, <3>1, <3>2, <3>3
  <2>. QED
    BY <2>1, <2>2, <2>3
<1>6. PICK kind \in ScalarKinds : \E means : Written(call) = <<Token(kind, means)>> /\ x = Label(kind, means)
  BY <1>5
<1>7. PICK means : Written(call) = <<Token(kind, means)>> /\ x = Label(kind, means)
  BY <1>6
<1>8. Written(call)[1] = Token(kind, means) /\ call.write # "object_key"
  BY <1>1, <1>2, <1>7 DEF Scalars
<1>. QED
  BY <1>7, <1>8, TakesScalar DEF TakesCall, call, x

\* What the calls but those for scalars write.
LEMMA BracketToken ==
  ASSUME NEW b \in OpeningBrackets \cup ClosingBrackets
  PROVE  \E t : t.kind = b /\ \A c : TakesCall(c, Call(b, "")) = Takes(StrictOptions, c, t)
<1>. DEFINE call == Call(b, "")
            t == Token(call.write, call.content)
<1>1. call.write = b /\ b \notin {"array_delimiter", "object_delimiter", "integer", "decimal", "object_key"}
  BY DEF Call, OpeningBrackets, ClosingBrackets
<1>. HIDE DEF call
<1>2. Written(call) = <<t>>
  BY <1>1 DEF Written
<1>3. t.kind = b
  BY <1>1 DEF Token
<1>. HIDE DEF t
<1>4. \A c : TakesCall(c, call) = Takes(StrictOptions, c, t)
  <2>1. call.write # "object_key"
    BY <1>1
  <2>2. \A x : <<x>>[1] = x
    OBVIOUS
  <2>3. Written(call)[1] = t
    BY <1>2, <2>2
  <2>. QED
    BY <2>1, <2>3 DEF TakesCall
<1>. QED
  BY <1>3, <1>4 DEF call

\* What the call for a delimiter writes.
LEMMA DelimiterToken ==
  ASSUME NEW d \in Delimiters
  PROVE  \E t : t.kind = "separator" /\ \A c : TakesCall(c, Call(d, "")) = Takes(StrictOptions, c, t)
<1>. DEFINE call == Call(d, "")
            t == Token("separator", "")
<1>1. call.write \in {"array_delimiter", "object_delimiter"}
  BY DEF Call, Delimiters
<1>. HIDE DEF call
<1>2. Written(call) = <<t>>
  BY <1>1 DEF Written
<1>3. t.kind = "separator"
  BY DEF Token
<1>. HIDE DEF t
<1>4. \A c : TakesCall(c, call) = Takes(StrictOptions, c, t)
  <2>1. call.write # "object_key"
    BY <1>1
  <2>2. \A x : <<x>>[1] = x
    OBVIOUS
  <2>3. Written(call)[1] = t
    BY <1>2, <2>2
  <2>. QED
    BY <2>1, <2>3 DEF TakesCall
<1>. QED
  BY <1>3, <1>4 DEF call

\* What the call for a key writes.
LEMMA KeyTokens ==
  ASSUME NEW k
  PROVE  \E t, u : /\ t.kind = "string" /\ t.means = k /\ Readable(t, StrictOptions)
                   /\ u.kind = "object_key_delimiter"
                   /\ \A c : TakesCall(c, Call("object_key", k))
                               = Takes(StrictOptions, Takes(StrictOptions, c, t), u)
<1>. DEFINE call == Call("object_key", k)
            t == Token("string", call.content)
            u == Token("object_key_delimiter", "")
<1>1. call.write = "object_key" /\ call.content = k
  BY DEF Call
<1>. HIDE DEF call
<1>2. t.kind = "string" /\ t.means = k /\ t.refused_by = {} /\ u.kind = "object_key_delimiter"
  BY <1>1 DEF Token
<1>3. \A c : TakesCall(c, call) = Takes(StrictOptions, Takes(StrictOptions, c, t), u)
  BY <1>1 DEF TakesCall
<1>. HIDE DEF t, u
<1>4. Readable(t, StrictOptions)
  BY <1>2 DEF Readable, ScalarKinds
<1>. QED
  BY <1>2, <1>3, <1>4 DEF call

\* A container begins.
LEMMA CallOfOpening ==
  ASSUME NEW s, NEW site \in {"value", "item"}
  PROVE  /\ TakesCall(Expects(site, s), Call("array_begin", "")) = Expects("item", Append(s, ArrayLevel(<<>>)))
         /\ TakesCall(Expects(site, s), Call("object_begin", "")) = Expects("key", Append(s, ObjectLevel(<<>>)))
<1>1. PICK t : /\ t.kind = "array_begin"
               /\ \A c : TakesCall(c, Call("array_begin", "")) = Takes(StrictOptions, c, t)
  BY BracketToken DEF OpeningBrackets
<1>2. PICK u : /\ u.kind = "object_begin"
               /\ \A c : TakesCall(c, Call("object_begin", "")) = Takes(StrictOptions, c, u)
  BY BracketToken DEF OpeningBrackets
<1>3. BeginsValue(StrictOptions, s, t) = Expects("item", Append(s, ArrayLevel(<<>>)))
  BY <1>1, OpeningLevels DEF BeginsValue, ScalarKinds
<1>4. BeginsValue(StrictOptions, s, u) = Expects("key", Append(s, ObjectLevel(<<>>)))
  BY <1>2, OpeningLevels DEF BeginsValue, ScalarKinds
<1>. QED
  BY <1>1, <1>2, <1>3, <1>4, BeginsAlike

\* An array ends, or goes on.
LEMMA CallsInArray ==
  ASSUME NEW s \in Seq(Levels), NEW vs \in Seq(Rooted)
  PROVE  /\ \A site \in {"item", "item_end"} :
              TakesCall(Expects(site, Append(s, ArrayLevel(vs))), Call("array_end", "")) = Absorb(s, ArrayOf(vs))
         /\ TakesCall(Expects("item_end", Append(s, ArrayLevel(vs))), Call("array_delimiter", ""))
              = Expects("item", Append(s, Separated(ArrayLevel(vs))))
<1>. DEFINE f == ArrayLevel(vs)
<1>1. f \in Levels /\ f.out = ArrayOf(vs) /\ ~f.trailing
  BY ArrayLevels
<1>. HIDE DEF f
<1>2. PICK t : /\ t.kind = "array_end"
               /\ \A c : TakesCall(c, Call("array_end", "")) = Takes(StrictOptions, c, t)
  BY BracketToken DEF ClosingBrackets
<1>3. PICK u : /\ u.kind = "separator"
               /\ \A c : TakesCall(c, Call("array_delimiter", "")) = Takes(StrictOptions, c, u)
  BY DelimiterToken DEF Delimiters
<1>4. Takes(StrictOptions, Expects("item", Append(s, f)), t) = Absorb(s, f.out)
  BY <1>1, <1>2, TakesItem
<1>5. /\ Takes(StrictOptions, Expects("item_end", Append(s, f)), t) = Absorb(s, f.out)
      /\ Takes(StrictOptions, Expects("item_end", Append(s, f)), u) = Expects("item", Append(s, Separated(f)))
  BY <1>1, <1>2, <1>3, TakesItemEnd
<1>. QED
  BY <1>1, <1>2, <1>3, <1>4, <1>5 DEF f

\* An object ends, or goes on.
LEMMA CallsInObject ==
  ASSUME NEW s \in Seq(Levels), NEW ms \in Seq(Pairs), DistinctKeys(ms)
  PROVE  /\ \A site \in {"key", "member_end"} :
              TakesCall(Expects(site, Append(s, ObjectLevel(ms))), Call("object_end", "")) = Absorb(s, ObjectOf(ms))
         /\ TakesCall(Expects("member_end", Append(s, ObjectLevel(ms))), Call("object_delimiter", ""))
              = Expects("key", Append(s, Separated(ObjectLevel(ms))))
<1>. DEFINE f == ObjectLevel(ms)
<1>1. f \in Levels /\ f.out = ObjectOf(ms) /\ ~f.trailing
  BY ObjectLevels
<1>. HIDE DEF f
<1>2. PICK t : /\ t.kind = "object_end"
               /\ \A c : TakesCall(c, Call("object_end", "")) = Takes(StrictOptions, c, t)
  BY BracketToken DEF ClosingBrackets
<1>3. PICK u : /\ u.kind = "separator"
               /\ \A c : TakesCall(c, Call("object_delimiter", "")) = Takes(StrictOptions, c, u)
  BY DelimiterToken DEF Delimiters
<1>4. Takes(StrictOptions, Expects("key", Append(s, f)), t) = Absorb(s, f.out)
  BY <1>1, <1>2, TakesKey
<1>5. /\ Takes(StrictOptions, Expects("member_end", Append(s, f)), t) = Absorb(s, f.out)
      /\ Takes(StrictOptions, Expects("member_end", Append(s, f)), u) = Expects("key", Append(s, Separated(f)))
  BY <1>1, <1>2, <1>3, TakesMemberEnd
<1>. QED
  BY <1>1, <1>2, <1>3, <1>4, <1>5 DEF f

\* The calls q make the reader read the value t, wherever it expects one.
ReadsAs(q, t) ==
    \A s \in Seq(Levels), site \in {"value", "item"} : Runs(q, Expects(site, s), Absorb(s, t))

\* The reader on the calls for an element of an array.
LEMMA ElementReads ==
  ASSUME NEW s \in Seq(Levels), NEW vs \in Seq(Rooted), NEW f \in {ArrayLevel(vs), Separated(ArrayLevel(vs))},
         NEW t \in Rooted, NEW q, ReadsAs(q, t)
  PROVE  Runs(q, Expects("item", Append(s, f)), Expects("item_end", Append(s, ArrayLevel(Append(vs, t)))))
<1>. DEFINE a == ArrayLevel(vs)
<1>0. a \in Levels /\ a.fn = "array" /\ a.key = "" /\ a.out = ArrayOf(vs) /\ f \in {a, Separated(a)}
  BY ArrayLevels
<1>. HIDE DEF a
<1>1. f \in Levels /\ f.fn = "array" /\ f.key = "" /\ f.out = ArrayOf(vs)
  BY <1>0, ChangedLevels
<1>2. Append(s, f) \in Seq(Levels)
  BY <1>1, PushedLevel
<1>3. Absorb(Append(s, f), t) = Expects("item_end", Append(s, ArrayLevel(Append(vs, t))))
  BY <1>1, AbsorbsInto, GrownArrayLevels
<1>. QED
  BY <1>2, <1>3 DEF ReadsAs

\* The reader on the calls for a member of an object.
LEMMA MemberReads ==
  ASSUME NEW s \in Seq(Levels), NEW ms \in Seq(Pairs), DistinctKeys(ms),
         NEW f \in {ObjectLevel(ms), Separated(ObjectLevel(ms))},
         NEW k \in Text \cap Contents, \A i \in 1 .. Len(ms) : ms[i][1] # k,
         NEW t \in Rooted, NEW q \in Seq(CallRecords), ReadsAs(q, t)
  PROVE  Runs(<<Call("object_key", k)>> \o q, Expects("key", Append(s, f)),
              Expects("member_end", Append(s, ObjectLevel(Append(ms, <<k, t>>)))))
<1>. DEFINE g == Named(f, k)
            call == Call("object_key", k)
<1>1. f \in Levels /\ f.fn = "object" /\ f.out = ObjectOf(ms)
  BY ObjectLevels, ChangedLevels
<1>2. g \in Levels /\ g.fn = "object" /\ g.out = ObjectOf(ms) /\ ~g.trailing /\ g.key = k
  BY <1>1, ChangedLevels
<1>3. TakesCall(Expects("key", Append(s, f)), call) = Expects("value", Append(s, g))
  <2>1. PICK x, y : /\ x.kind = "string" /\ x.means = k /\ Readable(x, StrictOptions)
                    /\ y.kind = "object_key_delimiter"
                    /\ \A c : TakesCall(c, call) = Takes(StrictOptions, Takes(StrictOptions, c, x), y)
    BY KeyTokens
  <2>2. Takes(StrictOptions, Expects("key", Append(s, f)), x) = Expects("colon", Append(s, g))
    BY <1>1, <2>1, TakesKey
  <2>. HIDE DEF g
  <2>3. Takes(StrictOptions, Expects("colon", Append(s, g)), y) = Expects("value", Append(s, g))
    BY <1>2, <2>1, TakesColon
  <2>. QED
    BY <2>1, <2>2, <2>3
<1>. HIDE DEF g
<1>4. Absorb(Append(s, g), t) = Expects("member_end", Append(s, ObjectLevel(Append(ms, <<k, t>>))))
  <2>1. ~HasKey(g.out, g.key) /\ Grown(g, t) = ObjectLevel(Append(ms, <<k, t>>))
    BY <1>2, GrownObjectLevels
  <2>. QED
    BY <1>2, <2>1, AbsorbsInto
<1>5. Runs(q, Expects("value", Append(s, g)), Absorb(Append(s, g), t))
  <2>1. Append(s, g) \in Seq(Levels)
    BY <1>2, PushedLevel
  <2>. QED
    BY <2>1 DEF ReadsAs
<1>6. <<call>> \in Seq(CallRecords)
  BY SingleCall DEF Writes
<1>7. Runs(<<call>>, Expects("key", Append(s, f)), Expects("value", Append(s, g)))
  BY <1>3, RunOfOne
<1>. QED
  BY <1>4, <1>5, <1>6, <1>7, RunOfConcat

-----------------------------------------------------------------------------
(* The tree below a node *)

Under(t, p) == [r \in {r \in Seq(StepSet) : p \o r \in DOMAIN t} |-> t[p \o r]]

\* Below the root is the whole tree.
LEMMA AllIsUnderRoot ==
  ASSUME NEW t, WellFormed(t)
  PROVE  Under(t, <<>>) = t
<1>1. DOMAIN t \subseteq Seq(StepSet) /\ t \in [DOMAIN t -> Labels]
  BY DEF WellFormed, IsTree
<1>2. \A r \in Seq(StepSet) : <<>> \o r = r
  BY ConcatEmptySeq
<1>3. {r \in Seq(StepSet) : <<>> \o r \in DOMAIN t} = DOMAIN t
  BY <1>1, <1>2
<1>4. Under(t, <<>>) = [r \in DOMAIN t |-> t[<<>> \o r]]
  BY <1>3 DEF Under
<1>5. [r \in DOMAIN t |-> t[<<>> \o r]] = [r \in DOMAIN t |-> t[r]]
  BY <1>1, <1>2
<1>. QED
  BY <1>1, <1>4, <1>5

\* The tree below a node is a tree.
LEMMA UnderIsRooted ==
  ASSUME NEW t, WellFormed(t), NEW p \in DOMAIN t
  PROVE  Under(t, p) \in Rooted
<1>. DEFINE D == {r \in Seq(StepSet) : p \o r \in DOMAIN t}
            g == [q \in DOMAIN t |-> SubSeq(q, Len(p) + 1, Len(q))]
            u == Under(t, p)
<1>1. DOMAIN t \subseteq Seq(StepSet) /\ IsFiniteSet(DOMAIN t) /\ \A q \in DOMAIN t : t[q] \in Labels
  BY DEF WellFormed, IsTree
<1>2. IsFiniteSet(D)
  <2>1. ASSUME NEW r \in D PROVE r = g[p \o r]
    <3>. DEFINE q == p \o r
    <3>1. /\ Len(p) \in Nat /\ Len(r) \in Nat /\ q \in Seq(StepSet) /\ Len(q) = Len(p) + Len(r)
          /\ \A i \in 1 .. Len(p) + Len(r) : q[i] = IF i <= Len(p) THEN p[i] ELSE r[i - Len(p)]
          /\ q \in DOMAIN t
      BY <1>1, LenProperties, ConcatProperties
    <3>. HIDE DEF q
    <3>2. Len(p) \in 0 .. Len(q) /\ Len(q) - Len(p) = Len(r)
      BY <3>1
    <3>3. /\ g[q] \in Seq(StepSet) /\ Len(g[q]) = Len(r)
          /\ \A i \in 1 .. Len(r) : g[q][i] = q[Len(p) + i]
      BY <3>1, <3>2, EndOfSequence
    <3>4. \A i \in 1 .. Len(r) : q[Len(p) + i] = r[i]
      BY <3>1
    <3>5. r = g[q]
      <4>. HIDE DEF g
      <4>. QED
        BY <3>3, <3>4, SeqEqual
    <3>. QED
      BY <3>5 DEF q
  <2>2. D \subseteq {g[q] : q \in DOMAIN t}
    <3>. HIDE DEF g
    <3>. QED
      BY <2>1
  <2>3. IsFiniteSet({g[q] : q \in DOMAIN t})
    <3>1. DOMAIN g = DOMAIN t
      OBVIOUS
    <3>. HIDE DEF g
    <3>. QED
      BY <1>1, <3>1, ImageIsFinite
  <2>. HIDE DEF D, g
  <2>. QED
    BY <2>2, <2>3, FS_Subset
<1>3. u \in [D -> Labels] /\ DOMAIN u = D
  BY <1>1 DEF Under
<1>4. <<>> \in D
  <2>1. p \o <<>> = p /\ <<>> \in Seq(StepSet)
    BY <1>1, ConcatEmptySeq
  <2>. QED
    BY <2>1
<1>5. D \subseteq Seq(StepSet)
  OBVIOUS
<1>. HIDE DEF D, u
<1>6. u \in Rooted
  BY <1>2, <1>3, <1>4, <1>5, RootedTrees
<1>. QED
  BY <1>6 DEF u

ChildSteps(t, p) == {s \in StepSet : Append(p, s) \in DOMAIN t}
Children(t, p) == [s \in ChildSteps(t, p) |-> Under(t, Append(p, s))]

\* It is the trees below its elements, hung from a label.
LEMMA UnderNodes ==
  ASSUME NEW t, WellFormed(t), NEW p \in DOMAIN t
  PROVE  /\ ChildSteps(t, p) \in SUBSET StepSet
         /\ Children(t, p) \in [ChildSteps(t, p) -> Rooted]
         /\ Nodes(Under(t, p), t[p], ChildSteps(t, p), Children(t, p))
<1>. DEFINE F == ChildSteps(t, p)
            f == Children(t, p)
            u == Under(t, p)
<1>1. p \in Seq(StepSet) /\ DOMAIN t \subseteq Seq(StepSet)
  BY DEF WellFormed, IsTree
<1>2. F \in SUBSET StepSet /\ \A s \in StepSet : s \in F <=> Append(p, s) \in DOMAIN t
  BY DEF ChildSteps
<1>3. f \in [F -> Rooted] /\ \A s \in F : f[s] = Under(t, Append(p, s))
  <2>1. \A s \in F : Under(t, Append(p, s)) \in Rooted
    BY <1>2, UnderIsRooted
  <2>. QED
    BY <2>1 DEF Children
<1>4. \A q, r : r \in DOMAIN Under(t, q) <=> r \in Seq(StepSet) /\ q \o r \in DOMAIN t
  BY DEF Under
<1>5. \A q : \A r \in DOMAIN Under(t, q) : Under(t, q)[r] = t[q \o r]
  BY DEF Under
<1>. HIDE DEF F, f
<1>6. \A s \in StepSet, q \in Seq(StepSet) :
         /\ <<s>> \o q \in Seq(StepSet) /\ Append(p, s) \in Seq(StepSet)
         /\ p \o (<<s>> \o q) = Append(p, s) \o q
  <2>. SUFFICES ASSUME NEW s \in StepSet, NEW q \in Seq(StepSet)
                PROVE  /\ <<s>> \o q \in Seq(StepSet) /\ Append(p, s) \in Seq(StepSet)
                       /\ p \o (<<s>> \o q) = Append(p, s) \o q
    OBVIOUS
  <2>1. <<s>> \in Seq(StepSet) /\ Append(p, s) = p \o <<s>> /\ Append(p, s) \in Seq(StepSet)
    BY <1>1, AppendIsConcat
  <2>2. (p \o <<s>>) \o q = p \o (<<s>> \o q)
    BY <1>1, <2>1, ConcatAssociative
  <2>3. <<s>> \o q \in Seq(StepSet)
    BY PrependStep
  <2>. QED
    BY <2>1, <2>2, <2>3
<1>7. <<>> \in DOMAIN u /\ u[<<>>] = t[p]
  <2>1. p \o <<>> = p /\ <<>> \in Seq(StepSet)
    BY <1>1, ConcatEmptySeq
  <2>. QED
    BY <1>4, <1>5, <2>1
<1>8. ASSUME NEW s \in F, NEW q \in DOMAIN f[s]
      PROVE  <<s>> \o q \in DOMAIN u /\ u[<<s>> \o q] = f[s][q]
  <2>1. s \in StepSet /\ q \in DOMAIN Under(t, Append(p, s)) /\ f[s] = Under(t, Append(p, s))
    BY <1>2, <1>3
  <2>2. q \in Seq(StepSet) /\ Append(p, s) \o q \in DOMAIN t /\ f[s][q] = t[Append(p, s) \o q]
    BY <1>4, <1>5, <2>1
  <2>. DEFINE y == <<s>> \o q
  <2>3. y \in Seq(StepSet) /\ p \o y = Append(p, s) \o q
    BY <1>6, <2>1, <2>2
  <2>. HIDE DEF y
  <2>4. y \in DOMAIN u /\ u[y] = t[p \o y]
    BY <1>4, <1>5, <2>2, <2>3
  <2>5. y \in DOMAIN u /\ u[y] = f[s][q]
    BY <2>2, <2>3, <2>4
  <2>. QED
    BY <2>5 DEF y
<1>9. ASSUME NEW r \in DOMAIN u, r # <<>>
      PROVE  /\ Head(r) \in F /\ Tail(r) \in DOMAIN f[Head(r)]
             /\ r = <<Head(r)>> \o Tail(r) /\ r \in Seq(StepSet)
             /\ u[r] = f[Head(r)][Tail(r)]
  <2>. DEFINE s == Head(r)
              q == Tail(r)
  <2>1. r \in Seq(StepSet) /\ p \o r \in DOMAIN t /\ u[r] = t[p \o r]
    BY <1>4, <1>5
  <2>2. s \in StepSet /\ q \in Seq(StepSet) /\ r = <<s>> \o q
    BY <1>9, <2>1, HeadTailProperties
  <2>. HIDE DEF s, q
  <2>3. p \o r = Append(p, s) \o q /\ Append(p, s) \in Seq(StepSet)
    BY <1>6, <2>2
  <2>4. Append(p, s) \in DOMAIN t
    BY <2>1, <2>2, <2>3, NodeAbove
  <2>5. s \in F
    BY <1>2, <2>2, <2>4
  <2>6. q \in DOMAIN f[s] /\ f[s][q] = t[Append(p, s) \o q]
    BY <1>3, <1>4, <1>5, <2>1, <2>2, <2>3, <2>5
  <2>. QED
    BY <2>1, <2>2, <2>3, <2>5, <2>6 DEF s, q
<1>10. Nodes(u, t[p], F, f)
  <2>. HIDE DEF u
  <2>. QED
    BY <1>7, <1>8, <1>9 DEF Nodes
<1>. QED
  BY <1>2, <1>3, <1>10 DEF F, f, u

\* There is one tree with given nodes.
LEMMA NodesAreOne ==
  ASSUME NEW g \in Rooted, NEW h \in Rooted, NEW root, NEW F, NEW f, Nodes(g, root, F, f), Nodes(h, root, F, f)
  PROVE  g = h
<1>1. ASSUME NEW a, NEW b, Nodes(a, root, F, f), Nodes(b, root, F, f), NEW p \in DOMAIN a
      PROVE  p \in DOMAIN b /\ a[p] = b[p]
  <2>1. CASE p = <<>>
    BY <1>1, <2>1 DEF Nodes
  <2>2. CASE p # <<>>
    <3>. DEFINE s == Head(p)
                q == Tail(p)
    <3>1. s \in F /\ q \in DOMAIN f[s] /\ p = <<s>> \o q /\ a[p] = f[s][q]
      BY <1>1, <2>2 DEF Nodes
    <3>. HIDE DEF s, q
    <3>2. <<s>> \o q \in DOMAIN b /\ b[<<s>> \o q] = f[s][q]
      BY <1>1, <3>1, Zenon DEF Nodes
    <3>. QED
      BY <3>1, <3>2
  <2>. QED
    BY <2>1, <2>2
<1>2. DOMAIN g = DOMAIN h /\ \A p \in DOMAIN g : g[p] = h[p]
  BY <1>1
<1>3. g \in [DOMAIN g -> Labels] /\ h \in [DOMAIN h -> Labels]
  BY RootedTrees
<1>. QED
  BY <1>2, <1>3

\* Appending a step.
LEMMA ParentOfAppend ==
  ASSUME NEW p \in Seq(StepSet), NEW s \in StepSet
  PROVE  /\ Append(p, s) \in Seq(StepSet) /\ Append(p, s) # <<>>
         /\ Parent(Append(p, s)) = p /\ Append(p, s)[Len(Append(p, s))] = s
<1>. DEFINE q == Append(p, s)
            a == Parent(q)
            b == q[Len(q)]
<1>1. q \in Seq(StepSet) /\ q # <<>>
  BY AppendProperties
<1>2. a \in Seq(StepSet) /\ b \in StepSet /\ q = Append(a, b)
  BY <1>1, LastStep
<1>. HIDE DEF a, b
<1>3. Append(a, b) = Append(p, s)
  BY <1>2
<1>4. a = p /\ b = s
  BY <1>2, <1>3, AppendInjective, SMTT(20)
<1>. QED
  BY <1>1, <1>4 DEF a, b

\* What leads to an element is a container.
LEMMA ChildIsLed ==
  ASSUME NEW t, WellFormed(t), NEW p \in DOMAIN t, NEW s \in ChildSteps(t, p)
  PROVE  \/ t[p].kind = "object" /\ s[1] = "key"
         \/ /\ t[p].kind = "array" /\ s[1] = "index"
            /\ s[2] > 0 => Append(p, Index(s[2] - 1)) \in DOMAIN t
<1>. DEFINE q == Append(p, s)
<1>1. p \in Seq(StepSet) /\ s \in StepSet /\ q \in DOMAIN t
  BY DEF WellFormed, IsTree, ChildSteps
<1>2. q # <<>> /\ Parent(q) = p /\ q[Len(q)] = s
  BY <1>1, ParentOfAppend
<1>. HIDE DEF q
<1>. QED
  BY <1>1, <1>2 DEF WellFormed

\* Below a node that is not a container there is nothing.
LEMMA LeafUnder ==
  ASSUME NEW t, WellFormed(t), NEW p \in DOMAIN t, t[p].kind \notin ContainerKinds
  PROVE  Under(t, p) = Leaf(t[p])
<1>1. ChildSteps(t, p) = {}
  BY ChildIsLed DEF ContainerKinds
<1>2. Nodes(Under(t, p), t[p], {}, Children(t, p)) /\ Under(t, p) \in Rooted
  BY <1>1, UnderNodes, UnderIsRooted
<1>3. t[p] \in Labels
  BY DEF WellFormed, IsTree
<1>4. Nodes(Leaf(t[p]), t[p], {}, Children(t, p)) /\ Leaf(t[p]) \in Rooted
  <2>1. DOMAIN Leaf(t[p]) = {<<>>} /\ Leaf(t[p])[<<>>] = t[p]
    BY DEF Leaf
  <2>. QED
    BY <1>3, <2>1, LeafIsRooted DEF Nodes
<1>. QED
  BY <1>2, <1>4, NodesAreOne

\* The elements of an array have the indices below their number.
LEMMA ArrayChildren ==
  ASSUME NEW v \in Sources, NEW p \in DOMAIN v, v[p].kind = "array"
  PROVE  /\ Len(StepsFrom(v, p)) \in Nat
         /\ \A i \in 1 .. Len(StepsFrom(v, p)) : StepsFrom(v, p)[i] = Index(i - 1)
         /\ ChildSteps(Printed(v), p) = {Index(i - 1) : i \in 1 .. Len(StepsFrom(v, p))}
<1>. DEFINE C == {q \in DOMAIN v \ {<<>>} : Parent(q) = p}
            I == {i \in Nat : Append(p, Index(i)) \in DOMAIN v}
            f == [i \in I |-> Append(p, Index(i))]
            t == Printed(v)
            n == Cardinality(C)
<1>1. /\ WellFormed(t) /\ DOMAIN t = DOMAIN v /\ IsFiniteSet(DOMAIN v) /\ DOMAIN v \subseteq Seq(StepSet)
      /\ t[p].kind = "array" /\ p \in Seq(StepSet)
  BY PrintedIsTree DEF IsTree, IsContainer, ContainerKinds
<1>. HIDE DEF t
<1>2. \A i \in Nat : Index(i) \in StepSet
  BY StepTypes
<1>3. \A i, j \in Nat : Append(p, Index(i)) = Append(p, Index(j)) => i = j
  <2>. SUFFICES ASSUME NEW i \in Nat, NEW j \in Nat, Append(p, Index(i)) = Append(p, Index(j)) PROVE i = j
    OBVIOUS
  <2>1. Index(i) = Index(j)
    BY <1>1, <1>2, AppendInjective, SMTT(20)
  <2>. QED
    BY <2>1 DEF Index
<1>4. \A s : s \in ChildSteps(t, p) <=> \E i \in I : s = Index(i)
  <2>1. ASSUME NEW s \in ChildSteps(t, p) PROVE \E i \in I : s = Index(i)
    <3>1. s \in StepSet /\ Append(p, s) \in DOMAIN v /\ s[1] = "index"
      BY <1>1, ChildIsLed DEF ChildSteps
    <3>2. PICK i \in Nat : s = Index(i)
      BY <3>1 DEF StepSet, Index
    <3>. QED
      BY <3>1, <3>2
  <2>2. ASSUME NEW i \in I PROVE Index(i) \in ChildSteps(t, p)
    BY <1>1, <1>2 DEF ChildSteps
  <2>. QED
    BY <2>1, <2>2
<1>5. ASSUME NEW i \in I, i > 0 PROVE i - 1 \in I
  <2>1. Index(i) \in ChildSteps(t, p) /\ Index(i)[1] = "index" /\ Index(i)[2] = i
    BY <1>4 DEF Index
  <2>2. Append(p, Index(i - 1)) \in DOMAIN t
    BY <1>1, <1>5, <2>1, ChildIsLed
  <2>3. i - 1 \in Nat
    BY <1>5
  <2>. QED
    BY <1>1, <2>2, <2>3
<1>6. IsFiniteSet(C)
  BY <1>1, FS_Subset
<1>7. \A q : q \in C <=> \E i \in I : q = Append(p, Index(i))
  <2>1. ASSUME NEW q \in C PROVE \E i \in I : q = Append(p, Index(i))
    <3>. DEFINE s == q[Len(q)]
    <3>1. q \in DOMAIN v /\ q \in Seq(StepSet) /\ q # <<>> /\ Parent(q) = p
      BY <1>1
    <3>2. s \in StepSet /\ q = Append(p, s)
      BY <3>1, LastStep
    <3>. HIDE DEF s
    <3>3. s \in ChildSteps(t, p)
      BY <1>1, <3>1, <3>2 DEF ChildSteps
    <3>. QED
      BY <1>4, <3>2, <3>3
  <2>2. ASSUME NEW i \in I PROVE Append(p, Index(i)) \in C
    <3>1. Append(p, Index(i)) # <<>> /\ Parent(Append(p, Index(i))) = p
      BY <1>1, <1>2, ParentOfAppend
    <3>. QED
      BY <3>1
  <2>. HIDE DEF C, I
  <2>. QED
    BY <2>1, <2>2
<1>8. IsFiniteSet(I) /\ Cardinality(I) = n
  <2>1. f \in [I -> C]
    <3>. HIDE DEF C, I
    <3>. QED
      BY <1>7
  <2>2. f \in Injection(I, C)
    <3>1. \A i \in I : i \in Nat
      OBVIOUS
    <3>. HIDE DEF C, I
    <3>. QED
      BY <1>3, <2>1, <3>1 DEF Injection, IsInjective
  <2>3. IsFiniteSet(I)
    BY <1>6, <2>2, FS_Injection
  <2>4. f \in Surjection(I, C)
    <3>. HIDE DEF C, I
    <3>. QED
      BY <1>7, <2>1 DEF Surjection
  <2>5. Cardinality(C) = Cardinality(I)
    <3>. HIDE DEF C, I, f
    <3>. QED
      BY <2>2, <2>3, <2>4, FS_Surjection
  <2>. QED
    BY <2>3, <2>5
<1>9. n \in Nat /\ I = 0 .. n - 1
  <2>1. I \in SUBSET Nat
    OBVIOUS
  <2>. HIDE DEF I, n
  <2>. QED
    BY <1>5, <1>8, <2>1, FiniteInitialSegment
<1>10. StepsFrom(v, p) = [i \in 1 .. n |-> Index(i - 1)]
  BY DEF StepsFrom
<1>. HIDE DEF n, I, C
<1>11. Len(StepsFrom(v, p)) = n /\ \A i \in 1 .. n : StepsFrom(v, p)[i] = Index(i - 1)
  <2>. DEFINE s == [i \in 1 .. n |-> Index(i - 1)]
  <2>1. Len(s) = n /\ \A i \in 1 .. n : s[i] = Index(i - 1)
    BY <1>9
  <2>. QED
    BY <1>10, <2>1
<1>12. ChildSteps(t, p) = {Index(i - 1) : i \in 1 .. n}
  <2>1. ASSUME NEW s \in ChildSteps(t, p) PROVE \E i \in 1 .. n : s = Index(i - 1)
    <3>1. PICK i \in 0 .. n - 1 : s = Index(i)
      BY <1>4, <1>9
    <3>2. i + 1 \in 1 .. n /\ (i + 1) - 1 = i
      BY <1>9
    <3>. QED
      BY <3>1, <3>2
  <2>2. ASSUME NEW i \in 1 .. n PROVE Index(i - 1) \in ChildSteps(t, p)
    <3>1. i - 1 \in 0 .. n - 1
      BY <1>9
    <3>. QED
      BY <1>4, <1>9, <3>1
  <2>. QED
    BY <2>1, <2>2
<1>. QED
  BY <1>9, <1>11, <1>12 DEF t

\* An array is the array of the trees below it.
LEMMA ArrayUnder ==
  ASSUME NEW v \in Sources, NEW p \in DOMAIN v, v[p].kind = "array",
         NEW vs \in Seq(Rooted), Len(vs) = Len(StepsFrom(v, p)),
         \A i \in 1 .. Len(vs) : vs[i] = Under(Printed(v), Append(p, StepsFrom(v, p)[i]))
  PROVE  ArrayOf(vs) = Under(Printed(v), p)
<1>. DEFINE t == Printed(v)
            F == ChildSteps(t, p)
            f == Children(t, p)
            n == Len(vs)
<1>1. /\ WellFormed(t) /\ DOMAIN t = DOMAIN v /\ p \in DOMAIN t /\ t[p].kind = "array" /\ t[p] \in Labels
  BY PrintedIsTree DEF IsContainer, ContainerKinds
<1>. HIDE DEF t
<1>2. t[p] = EmptyArray[<<>>]
  BY <1>1 DEF Labels, EmptyArray, Leaf, Label, ScalarKinds
<1>3. n \in Nat /\ \A i \in 1 .. n : StepsFrom(v, p)[i] = Index(i - 1) /\ vs[i] = Under(t, Append(p, Index(i - 1)))
  BY ArrayChildren DEF t
<1>4. F = {Index(i - 1) : i \in 1 .. n}
  BY ArrayChildren DEF t
<1>5. Indices(vs) = F
  BY <1>4 DEF Indices
<1>6. ByIndex(vs) = f
  <2>1. DOMAIN ByIndex(vs) = F /\ DOMAIN f = F
    BY <1>5 DEF ByIndex, Children
  <2>2. ASSUME NEW s \in F PROVE ByIndex(vs)[s] = f[s]
    <3>1. PICK i \in 1 .. n : s = Index(i - 1)
      BY <1>4
    <3>2. ByIndex(vs)[s] = vs[i]
      BY <3>1, ArrayIsHung
    <3>3. f[s] = Under(t, Append(p, s))
      BY DEF Children
    <3>. QED
      BY <1>3, <3>1, <3>2, <3>3
  <2>3. f \in [F -> Rooted] /\ ByIndex(vs) \in [F -> Rooted]
    BY <1>1, <1>5, UnderNodes, ArrayIsHung
  <2>. HIDE DEF F, f
  <2>. QED
    BY <2>2, <2>3
<1>7. Nodes(ArrayOf(vs), t[p], F, f) /\ ArrayOf(vs) \in Rooted
  <2>1. F \in SUBSET StepSet /\ f \in [F -> Rooted] /\ ArrayOf(vs) = Hung(t[p], f)
    BY <1>1, <1>2, <1>6, UnderNodes, ArrayIsHung
  <2>. HIDE DEF F, f
  <2>. QED
    BY <2>1, HungNodes, ArrayOfIsRooted
<1>8. Nodes(Under(t, p), t[p], F, f) /\ Under(t, p) \in Rooted
  BY <1>1, UnderNodes, UnderIsRooted
<1>9. ArrayOf(vs) = Under(t, p)
  <2>. HIDE DEF F, f
  <2>. QED
    BY <1>7, <1>8, NodesAreOne
<1>. QED
  BY <1>9 DEF t

\* The pairs ms are members of the object at p, each once.
MembersAt(t, p, ms) ==
    /\ ms \in Seq(Pairs) /\ DistinctKeys(ms)
    /\ \A i \in 1 .. Len(ms) :
         Key(ms[i][1]) \in ChildSteps(t, p) /\ ms[i][2] = Under(t, Append(p, Key(ms[i][1])))

\* An object is the object of all its members.
LEMMA ObjectUnder ==
  ASSUME NEW v \in Sources, NEW p \in DOMAIN v, v[p].kind = "object",
         NEW ms, MembersAt(Printed(v), p, ms),
         \A s \in ChildSteps(Printed(v), p) : \E i \in 1 .. Len(ms) : s = Key(ms[i][1])
  PROVE  ObjectOf(ms) = Under(Printed(v), p)
<1>. DEFINE t == Printed(v)
            F == ChildSteps(t, p)
            f == Children(t, p)
<1>1. /\ WellFormed(t) /\ DOMAIN t = DOMAIN v /\ p \in DOMAIN t /\ t[p].kind = "object" /\ t[p] \in Labels
  BY PrintedIsTree DEF IsContainer, ContainerKinds
<1>0. MembersAt(t, p, ms) /\ \A s \in F : \E i \in 1 .. Len(ms) : s = Key(ms[i][1])
  OBVIOUS
<1>. HIDE DEF t
<1>2. t[p] = EmptyObject[<<>>]
  BY <1>1 DEF Labels, EmptyObject, Leaf, Label, ScalarKinds
<1>3. ms \in Seq(Pairs) /\ DistinctKeys(ms)
  BY <1>0 DEF MembersAt
<1>4. KeySteps(ms) = F
  <2>1. \A s : s \in KeySteps(ms) <=> \E i \in 1 .. Len(ms) : s = Key(ms[i][1])
    BY <1>3, ObjectIsHung
  <2>2. \A i \in 1 .. Len(ms) : Key(ms[i][1]) \in F
    BY <1>0 DEF MembersAt
  <2>. HIDE DEF F
  <2>. QED
    BY <1>0, <2>1, <2>2
<1>5. ByKey(ms) = f
  <2>1. ASSUME NEW s \in F PROVE ByKey(ms)[s] = f[s]
    <3>1. PICK i \in 1 .. Len(ms) : s = Key(ms[i][1])
      BY <1>0
    <3>2. ByKey(ms)[s] = ms[i][2]
      BY <1>3, <3>1, ObjectIsHung
    <3>3. f[s] = Under(t, Append(p, s))
      BY DEF Children
    <3>. QED
      BY <1>0, <3>1, <3>2, <3>3 DEF MembersAt
  <2>2. f \in [F -> Rooted] /\ ByKey(ms) \in [F -> Rooted]
    BY <1>1, <1>3, <1>4, UnderNodes, ObjectIsHung
  <2>. HIDE DEF F, f
  <2>. QED
    BY <2>1, <2>2
<1>6. Nodes(ObjectOf(ms), t[p], F, f) /\ ObjectOf(ms) \in Rooted
  <2>1. F \in SUBSET StepSet /\ f \in [F -> Rooted] /\ ObjectOf(ms) = Hung(t[p], f)
    BY <1>1, <1>2, <1>3, <1>5, UnderNodes, ObjectIsHung
  <2>. HIDE DEF F, f
  <2>. QED
    BY <1>3, <2>1, HungNodes, ObjectOfIsRooted
<1>7. Nodes(Under(t, p), t[p], F, f) /\ Under(t, p) \in Rooted
  BY <1>1, UnderNodes, UnderIsRooted
<1>8. ObjectOf(ms) = Under(t, p)
  <2>. HIDE DEF F, f
  <2>. QED
    BY <1>6, <1>7, NodesAreOne
<1>. QED
  BY <1>8 DEF t

-----------------------------------------------------------------------------
(* Containers *)

\* The calls for the elements of the container at p make the reader read them.
ReadsBelow(at, v, p) ==
    \A step \in StepSet : Append(p, step) \in DOMAIN v =>
        ReadsAs(at[Append(p, step)], Under(Printed(v), Append(p, step)))

\* One more element of an array.
LEMMA ArrayEntryReads ==
  ASSUME NEW v \in Sources, NEW p \in DOMAIN v, v[p].kind = "array",
         NEW at, RightBelow(at, v, p), ReadsBelow(at, v, p),
         NEW step \in StepSet, Append(p, step) \in DOMAIN v,
         NEW s \in Seq(Levels), NEW vs \in Seq(Rooted), NEW before \in Entries,
         before = <<>> <=> vs = <<>>, NEW c,
         Runs(before, c, Expects(IF vs = <<>> THEN "item" ELSE "item_end", Append(s, ArrayLevel(vs))))
  PROVE  /\ AndEntry(before, v, p, step, at) # <<>>
         /\ Runs(AndEntry(before, v, p, step, at), c,
                 Expects("item_end", Append(s, ArrayLevel(Append(vs, Under(Printed(v), Append(p, step)))))))
<1>. DEFINE q == Append(p, step)
            t == Under(Printed(v), q)
            d == Call("array_delimiter", "")
            end == Expects("item_end", Append(s, ArrayLevel(Append(vs, t))))
<1>1. at[q] \in WholeCalls /\ ReadsAs(at[q], t) /\ t \in Rooted
  <2>1. Printed(v)[q] \in Labels /\ WellFormed(Printed(v)) /\ DOMAIN Printed(v) = DOMAIN v
    BY PrintedIsTree
  <2>2. t \in Rooted
    BY <2>1, UnderIsRooted
  <2>. QED
    BY <2>2 DEF RightBelow, ReadsBelow
<1>2. AndEntry(before, v, p, step, at)
        = (before \o (IF before = <<>> THEN <<>> ELSE <<d>>)) \o (<<>> \o at[q])
  <2>1. AndEntry(before, v, p, step, at)
          = (before \o (IF before = <<>> THEN <<>> ELSE <<Call(Delimiter[v[p].kind], "")>>))
            \o ((IF v[p].kind = "object" THEN <<Call("object_key", step[2])>> ELSE <<>>) \o at[q])
    BY DEF AndEntry
  <2>2. Delimiter[v[p].kind] = "array_delimiter" /\ v[p].kind # "object"
    BY DEF Delimiter
  <2>. QED
    BY <2>1, <2>2, Zenon
<1>. HIDE DEF q, t
<1>3. at[q] \in Seq(CallRecords) /\ at[q] # <<>> /\ <<>> \o at[q] = at[q]
  BY <1>1, ConcatEmptySeq DEF WholeCalls, Whole
<1>4. CASE before = <<>>
  <2>1. AndEntry(before, v, p, step, at) = at[q]
    BY <1>2, <1>3, <1>4
  <2>2. vs = <<>> /\ c = Expects("item", Append(s, ArrayLevel(vs)))
    BY <1>4, RunOfNone
  <2>3. Runs(at[q], c, end)
    BY <1>1, <2>2, ElementReads
  <2>. QED
    BY <1>3, <2>1, <2>3 DEF t, q
<1>5. CASE before # <<>>
  <2>1. before \in Seq(CallRecords) /\ vs # <<>>
    BY <1>5 DEF Entries, WholeCalls
  <2>2. <<d>> \in Seq(CallRecords)
    BY SingleCall DEF Writes, Delimiters, Contents
  <2>3. Runs(<<d>>, Expects("item_end", Append(s, ArrayLevel(vs))),
             Expects("item", Append(s, Separated(ArrayLevel(vs)))))
    <3>1. TakesCall(Expects("item_end", Append(s, ArrayLevel(vs))), d)
            = Expects("item", Append(s, Separated(ArrayLevel(vs))))
      BY CallsInArray
    <3>. HIDE DEF d
    <3>. QED
      BY <3>1, RunOfOne
  <2>. HIDE DEF d
  <2>4. Runs(at[q], Expects("item", Append(s, Separated(ArrayLevel(vs)))), end)
    BY <1>1, ElementReads
  <2>5. AndEntry(before, v, p, step, at) = (before \o <<d>>) \o at[q]
    BY <1>2, <1>3, <1>5
  <2>6. Runs(before, c, Expects("item_end", Append(s, ArrayLevel(vs))))
    BY <2>1
  <2>. HIDE DEF end
  <2>7. before \o <<d>> \in Seq(CallRecords)
        /\ Runs(before \o <<d>>, c, Expects("item", Append(s, Separated(ArrayLevel(vs)))))
    BY <2>1, <2>2, <2>3, <2>6, RunOfConcat, ConcatProperties
  <2>8. Runs((before \o <<d>>) \o at[q], c, end)
    BY <1>3, <2>4, <2>7, RunOfConcat
  <2>9. (before \o <<d>>) \o at[q] # <<>>
    BY <1>3, <2>7, EndsOfConcat
  <2>. QED
    BY <2>5, <2>8, <2>9 DEF t, q, end
<1>. QED
  BY <1>4, <1>5

\* One more member of an object.
LEMMA ObjectEntryReads ==
  ASSUME NEW v \in Sources, NEW p \in DOMAIN v, v[p].kind = "object",
         NEW at, RightBelow(at, v, p), ReadsBelow(at, v, p),
         NEW k \in Text \cap Contents, Append(p, Key(k)) \in DOMAIN v,
         NEW s \in Seq(Levels), NEW ms \in Seq(Pairs), DistinctKeys(ms),
         \A i \in 1 .. Len(ms) : ms[i][1] # k,
         NEW before \in Entries, before = <<>> <=> ms = <<>>, NEW c,
         Runs(before, c, Expects(IF ms = <<>> THEN "key" ELSE "member_end", Append(s, ObjectLevel(ms))))
  PROVE  /\ AndEntry(before, v, p, Key(k), at) # <<>>
         /\ Runs(AndEntry(before, v, p, Key(k), at), c,
                 Expects("member_end",
                         Append(s, ObjectLevel(Append(ms, <<k, Under(Printed(v), Append(p, Key(k)))>>)))))
<1>. DEFINE q == Append(p, Key(k))
            t == Under(Printed(v), q)
            d == Call("object_delimiter", "")
            entry == <<Call("object_key", k)>> \o at[q]
            end == Expects("member_end", Append(s, ObjectLevel(Append(ms, <<k, t>>))))
<1>1. at[q] \in WholeCalls /\ ReadsAs(at[q], t) /\ t \in Rooted
  <2>1. Printed(v)[q] \in Labels /\ WellFormed(Printed(v)) /\ DOMAIN Printed(v) = DOMAIN v
    BY PrintedIsTree
  <2>2. t \in Rooted
    BY <2>1, UnderIsRooted
  <2>3. Key(k) \in StepSet
    BY StepTypes
  <2>. QED
    BY <2>2, <2>3 DEF RightBelow, ReadsBelow
<1>2. AndEntry(before, v, p, Key(k), at)
        = (before \o (IF before = <<>> THEN <<>> ELSE <<d>>)) \o entry
  <2>1. AndEntry(before, v, p, Key(k), at)
          = (before \o (IF before = <<>> THEN <<>> ELSE <<Call(Delimiter[v[p].kind], "")>>))
            \o ((IF v[p].kind = "object" THEN <<Call("object_key", Key(k)[2])>> ELSE <<>>) \o at[q])
    BY DEF AndEntry
  <2>2. Delimiter[v[p].kind] = "object_delimiter" /\ Key(k)[2] = k
    BY DEF Delimiter, Key
  <2>. QED
    BY <2>1, <2>2, Zenon
<1>. HIDE DEF q, t
<1>3. entry \in WholeCalls /\ at[q] \in Seq(CallRecords)
  BY <1>1, KeyedIsWhole DEF WholeCalls
<1>4. \A f \in {ObjectLevel(ms), Separated(ObjectLevel(ms))} :
         Runs(entry, Expects("key", Append(s, f)), end)
  BY <1>1, <1>3, MemberReads
<1>. HIDE DEF entry
<1>5. entry \in Seq(CallRecords) /\ entry # <<>> /\ <<>> \o <<>> = <<>> /\ <<>> \o entry = entry
  BY <1>3, ConcatEmptySeq DEF WholeCalls, Whole
<1>6. CASE before = <<>>
  <2>1. AndEntry(before, v, p, Key(k), at) = entry
    BY <1>2, <1>5, <1>6
  <2>2. ms = <<>> /\ c = Expects("key", Append(s, ObjectLevel(ms)))
    BY <1>6, RunOfNone
  <2>. HIDE DEF end
  <2>3. Runs(entry, c, end)
    BY <1>4, <2>2
  <2>. QED
    BY <1>5, <2>1, <2>3 DEF t, q, end
<1>7. CASE before # <<>>
  <2>1. before \in Seq(CallRecords) /\ ms # <<>>
    BY <1>7 DEF Entries, WholeCalls
  <2>2. <<d>> \in Seq(CallRecords)
    BY SingleCall DEF Writes, Delimiters, Contents
  <2>3. Runs(<<d>>, Expects("member_end", Append(s, ObjectLevel(ms))),
             Expects("key", Append(s, Separated(ObjectLevel(ms)))))
    <3>1. TakesCall(Expects("member_end", Append(s, ObjectLevel(ms))), d)
            = Expects("key", Append(s, Separated(ObjectLevel(ms))))
      BY CallsInObject
    <3>. HIDE DEF d
    <3>. QED
      BY <3>1, RunOfOne
  <2>. HIDE DEF d, end
  <2>4. Runs(entry, Expects("key", Append(s, Separated(ObjectLevel(ms)))), end)
    BY <1>4
  <2>5. AndEntry(before, v, p, Key(k), at) = (before \o <<d>>) \o entry
    BY <1>2, <1>7
  <2>6. Runs(before, c, Expects("member_end", Append(s, ObjectLevel(ms))))
    BY <2>1
  <2>7. before \o <<d>> \in Seq(CallRecords)
        /\ Runs(before \o <<d>>, c, Expects("key", Append(s, Separated(ObjectLevel(ms)))))
    BY <2>1, <2>2, <2>3, <2>6, RunOfConcat, ConcatProperties
  <2>8. Runs((before \o <<d>>) \o entry, c, end)
    BY <1>5, <2>4, <2>7, RunOfConcat
  <2>9. (before \o <<d>>) \o entry # <<>>
    BY <1>5, <2>7, EndsOfConcat
  <2>. QED
    BY <2>5, <2>8, <2>9 DEF t, q, end
<1>. QED
  BY <1>6, <1>7

\* The brackets around the entries of a container.
LEMMA BracketedReads ==
  ASSUME NEW e \in Entries, NEW x \in CallRecords, NEW y \in CallRecords, NEW a, NEW b, NEW c, NEW d,
         TakesCall(a, x) = b, Runs(e, b, c), TakesCall(c, y) = d
  PROVE  Runs((<<x>> \o e) \o <<y>>, a, d)
<1>1. <<x>> \in Seq(CallRecords) /\ <<y>> \in Seq(CallRecords) /\ e \in Seq(CallRecords)
  <2>1. <<>> \in Seq(CallRecords) /\ <<x>> \in Seq(CallRecords) /\ <<y>> \in Seq(CallRecords)
    OBVIOUS
  <2>2. e \in WholeCalls \/ e = <<>>
    BY DEF Entries
  <2>3. e \in WholeCalls => e \in Seq(CallRecords)
    BY DEF WholeCalls
  <2>. QED
    BY <2>1, <2>2, <2>3, Zenon
<1>2. Runs(<<x>>, a, b) /\ Runs(<<y>>, c, d)
  BY RunOfOne
<1>3. Runs(<<x>> \o e, a, c) /\ <<x>> \o e \in Seq(CallRecords)
  BY <1>1, <1>2, RunOfConcat, ConcatProperties
<1>. QED
  BY <1>1, <1>2, <1>3, RunOfConcat

\* What has been read behind the calls q for the first n elements of the array at p.
ArrayRead(v, p, s, q, n, vs) ==
    /\ vs \in Seq(Rooted) /\ Len(vs) = n
    /\ \A i \in 1 .. n : vs[i] = Under(Printed(v), Append(p, StepsFrom(v, p)[i]))
    /\ q = <<>> <=> vs = <<>>
    /\ Runs(q, Expects("item", Append(s, ArrayLevel(<<>>))),
            Expects(IF vs = <<>> THEN "item" ELSE "item_end", Append(s, ArrayLevel(vs))))

\* The reader on the calls for the elements of an array, by induction over them.
LEMMA ArrayEntriesRead ==
  ASSUME NEW v \in Sources, NEW p \in DOMAIN v, v[p].kind = "array",
         NEW at, RightBelow(at, v, p), ReadsBelow(at, v, p), NEW s \in Seq(Levels),
         NEW e \in [0 .. Len(StepsFrom(v, p)) -> Entries], Builds(e, v, p, at)
  PROVE  \E vs : ArrayRead(v, p, s, e[Len(StepsFrom(v, p))], Len(StepsFrom(v, p)), vs)
<1>. DEFINE N == Len(StepsFrom(v, p))
            S == {n \in 0 .. N : \E vs : ArrayRead(v, p, s, e[n], n, vs)}
<1>1. N \in Nat /\ \A n \in 1 .. N : StepsFrom(v, p)[n] \in StepSet /\ Append(p, StepsFrom(v, p)[n]) \in DOMAIN v
  <2>1. IsContainer(v[p])
    BY DEF IsContainer, ContainerKinds
  <2>2. \A n \in 1 .. N : StepsFrom(v, p)[n] \in ChildSteps(Printed(v), p)
    BY ArrayChildren
  <2>3. DOMAIN Printed(v) = DOMAIN v
    BY PrintedIsTree
  <2>. QED
    BY <2>1, <2>2, <2>3, StepsAreSteps DEF ChildSteps
<1>2. e[0] = <<>> /\ \A n \in 1 .. N : e[n] = AndEntry(e[n - 1], v, p, StepsFrom(v, p)[n], at)
  BY DEF Builds
<1>. HIDE DEF N
<1>3. 0 \in S
  <2>1. <<>> \in Seq(Rooted) /\ Len(<<>>) = 0
    OBVIOUS
  <2>2. Runs(e[0], Expects("item", Append(s, ArrayLevel(<<>>))), Expects("item", Append(s, ArrayLevel(<<>>))))
    BY <1>2, RunOfNone
  <2>3. ArrayRead(v, p, s, e[0], 0, <<>>)
    BY <1>2, <2>1, <2>2 DEF ArrayRead
  <2>. QED
    BY <1>1, <2>3
<1>4. ASSUME NEW n \in 1 .. N, n - 1 \in S PROVE n \in S
  <2>. DEFINE step == StepsFrom(v, p)[n]
              t == Under(Printed(v), Append(p, step))
              m == n - 1
  <2>1. PICK vs : ArrayRead(v, p, s, e[m], m, vs)
    BY <1>4
  <2>2. step \in StepSet /\ Append(p, step) \in DOMAIN v /\ m \in 0 .. N /\ m \in Nat /\ m + 1 = n /\ n \in 0 .. N
    BY <1>1
  <2>3. e[n] = AndEntry(e[m], v, p, step, at)
    BY <1>2
  <2>4. /\ vs \in Seq(Rooted) /\ Len(vs) = m
        /\ \A i \in 1 .. m : vs[i] = Under(Printed(v), Append(p, StepsFrom(v, p)[i]))
        /\ e[m] = <<>> <=> vs = <<>>
        /\ Runs(e[m], Expects("item", Append(s, ArrayLevel(<<>>))),
                Expects(IF vs = <<>> THEN "item" ELSE "item_end", Append(s, ArrayLevel(vs))))
    BY <2>1 DEF ArrayRead
  <2>5. e[m] \in Entries
    BY <2>2 DEF N
  <2>. HIDE DEF m
  <2>6. /\ e[n] # <<>>
        /\ Runs(e[n], Expects("item", Append(s, ArrayLevel(<<>>))),
                Expects("item_end", Append(s, ArrayLevel(Append(vs, t)))))
    <3>. HIDE DEF step
    <3>. QED
      BY <2>2, <2>3, <2>4, <2>5, ArrayEntryReads
  <2>7. t \in Rooted
    BY <2>2, PrintedIsTree, UnderIsRooted
  <2>. HIDE DEF t
  <2>. DEFINE ws == Append(vs, t)
  <2>8. /\ ws \in Seq(Rooted) /\ Len(ws) = n /\ ws # <<>> /\ ws[n] = t
        /\ \A i \in 1 .. m : ws[i] = vs[i]
    BY <2>2, <2>4, <2>7, AppendProperties
  <2>9. \A i \in 1 .. n : ws[i] = Under(Printed(v), Append(p, StepsFrom(v, p)[i]))
    <3>. SUFFICES ASSUME NEW i \in 1 .. n PROVE ws[i] = Under(Printed(v), Append(p, StepsFrom(v, p)[i]))
      OBVIOUS
    <3>1. CASE i = n
      BY <2>8, <3>1 DEF t
    <3>2. CASE i # n
      <4>1. i \in 1 .. m
        BY <2>2, <3>2
      <4>. QED
        BY <2>4, <2>8, <4>1
    <3>. QED
      BY <3>1, <3>2
  <2>10. ArrayRead(v, p, s, e[n], n, ws)
    <3>. HIDE DEF step
    <3>1. Runs(e[n], Expects("item", Append(s, ArrayLevel(<<>>))), Expects("item_end", Append(s, ArrayLevel(ws))))
      BY <2>6
    <3>. HIDE DEF ws
    <3>. QED
      BY <2>6, <2>8, <2>9, <3>1 DEF ArrayRead
  <2>. QED
    BY <2>2, <2>10
<1>. HIDE DEF S
<1>5. 0 .. N \subseteq S
  BY <1>1, <1>3, <1>4, InductionUpto
<1>6. N \in S
  BY <1>1, <1>5
<1>. QED
  BY <1>6 DEF S, N

\* The reader on the calls for an array.
LEMMA ArrayReads ==
  ASSUME NEW v \in Sources, NEW p \in DOMAIN v, v[p].kind = "array",
         NEW at, RightBelow(at, v, p), ReadsBelow(at, v, p)
  PROVE  ReadsAs(CallsOfContainer(v, p, at), Under(Printed(v), p))
<1>. DEFINE N == Len(StepsFrom(v, p))
            x == Call("array_begin", "")
            y == Call("array_end", "")
<1>1. PICK e \in [0 .. N -> Entries] :
        /\ Builds(e, v, p, at)
        /\ CallsOfContainer(v, p, at) = (<<x>> \o e[N]) \o <<y>>
  <2>1. IsContainer(v[p]) /\ Begin[v[p].kind] = "array_begin" /\ End[v[p].kind] = "array_end"
    BY DEF IsContainer, ContainerKinds, Begin, End
  <2>2. PICK e \in [0 .. N -> Entries] :
          /\ Builds(e, v, p, at)
          /\ CallsOfContainer(v, p, at) = (<<Call(Begin[v[p].kind], "")>> \o e[N]) \o <<Call(End[v[p].kind], "")>>
    BY <2>1, EntriesAreBuilt
  <2>3. CallsOfContainer(v, p, at) = (<<x>> \o e[N]) \o <<y>>
    BY <2>1, <2>2, Zenon
  <2>. QED
    BY <2>2, <2>3
<1>2. N \in Nat
  BY ArrayChildren
<1>3. x \in CallRecords /\ y \in CallRecords
  BY SingleCall DEF Writes, OpeningBrackets, ClosingBrackets, Contents
<1>. SUFFICES ASSUME NEW s \in Seq(Levels), NEW site \in {"value", "item"}
              PROVE  Runs(CallsOfContainer(v, p, at), Expects(site, s), Absorb(s, Under(Printed(v), p)))
  BY DEF ReadsAs
<1>4. PICK vs : ArrayRead(v, p, s, e[N], N, vs)
  BY <1>1, ArrayEntriesRead
<1>5. /\ vs \in Seq(Rooted) /\ Len(vs) = N
      /\ \A i \in 1 .. N : vs[i] = Under(Printed(v), Append(p, StepsFrom(v, p)[i]))
      /\ Runs(e[N], Expects("item", Append(s, ArrayLevel(<<>>))),
              Expects(IF vs = <<>> THEN "item" ELSE "item_end", Append(s, ArrayLevel(vs))))
  BY <1>4 DEF ArrayRead
<1>6. ArrayOf(vs) = Under(Printed(v), p)
  BY <1>5, ArrayUnder
<1>7. TakesCall(Expects(site, s), x) = Expects("item", Append(s, ArrayLevel(<<>>)))
  BY CallOfOpening
<1>8. TakesCall(Expects(IF vs = <<>> THEN "item" ELSE "item_end", Append(s, ArrayLevel(vs))), y)
        = Absorb(s, ArrayOf(vs))
  BY <1>5, CallsInArray
<1>9. e[N] \in Entries
  BY <1>2
<1>. HIDE DEF x, y, N
<1>. QED
  BY <1>1, <1>3, <1>5, <1>6, <1>7, <1>8, <1>9, BracketedReads

\* What has been read behind the calls q for those members of the object at p that have one
\* of the first n keys.
ObjectRead(v, p, s, q, n, ms) ==
    /\ MembersAt(Printed(v), p, ms)
    /\ \A i \in 1 .. Len(ms) : \E j \in 1 .. n : ms[i][1] = KeyOrder[j]
    /\ \A j \in 1 .. n : Key(KeyOrder[j]) \in ChildSteps(Printed(v), p) =>
         \E i \in 1 .. Len(ms) : ms[i][1] = KeyOrder[j]
    /\ q = <<>> <=> ms = <<>>
    /\ Runs(q, Expects("key", Append(s, ObjectLevel(<<>>))),
            Expects(IF ms = <<>> THEN "key" ELSE "member_end", Append(s, ObjectLevel(ms))))

\* The order of the keys has each key once.
LEMMA KeysInOrder ==
  /\ Len(KeyOrder) \in Nat
  /\ \A j \in 1 .. Len(KeyOrder) : KeyOrder[j] \in Text \cap Contents /\ Key(KeyOrder[j]) \in StepSet
  /\ \A i, j \in 1 .. Len(KeyOrder) : KeyOrder[i] = KeyOrder[j] => i = j
<1>1. KeyOrder \in Seq(Text) /\ DOMAIN KeyOrder = 1 .. Len(KeyOrder) /\ Len(KeyOrder) \in Nat
  BY KeysAssumption
<1>2. \A j \in 1 .. Len(KeyOrder) : KeyOrder[j] \in Text /\ KeyOrder[j] \in Range(KeyOrder)
  BY <1>1 DEF Range
<1>3. \A i, j \in 1 .. Len(KeyOrder) : KeyOrder[i] = KeyOrder[j] => i = j
  BY <1>1, KeysAssumption DEF IsInjective
<1>. QED
  BY <1>1, <1>2, <1>3, StepTypes DEF Contents

\* A member with a new key.
LEMMA OneMoreMember ==
  ASSUME NEW t, NEW p, NEW ms, MembersAt(t, p, ms), NEW k \in Text, Key(k) \in ChildSteps(t, p),
         \A i \in 1 .. Len(ms) : ms[i][1] # k, Under(t, Append(p, Key(k))) \in Rooted
  PROVE  MembersAt(t, p, Append(ms, <<k, Under(t, Append(p, Key(k)))>>))
<1>. DEFINE x == <<k, Under(t, Append(p, Key(k)))>>
            ns == Append(ms, x)
            m == Len(ms)
<1>1. /\ ms \in Seq(Pairs) /\ DistinctKeys(ms) /\ m \in Nat
      /\ \A i \in 1 .. m : Key(ms[i][1]) \in ChildSteps(t, p) /\ ms[i][2] = Under(t, Append(p, Key(ms[i][1])))
  BY DEF MembersAt
<1>2. x \in Pairs /\ x[1] = k /\ x[2] = Under(t, Append(p, Key(k)))
  BY DEF Pairs
<1>. HIDE DEF x, m
<1>3. /\ ns \in Seq(Pairs) /\ Len(ns) = m + 1 /\ ns[m + 1] = x
      /\ \A i \in 1 .. m : ns[i] = ms[i]
  BY <1>1, <1>2, AppendProperties DEF m
<1>4. DOMAIN ms = 1 .. m /\ DOMAIN ns = 1 .. m + 1
  BY <1>1, <1>3 DEF m
<1>. HIDE DEF ns
<1>5. \A i \in 1 .. m + 1 : i \in 1 .. m \/ i = m + 1
  BY <1>1
<1>6. DistinctKeys(ns)
  <2>1. ASSUME NEW i \in 1 .. m + 1, NEW j \in 1 .. m + 1, ns[i][1] = ns[j][1] PROVE i = j
    <3>1. CASE i \in 1 .. m /\ j \in 1 .. m
      BY <1>1, <1>3, <1>4, <2>1, <3>1 DEF DistinctKeys
    <3>2. CASE i \in 1 .. m /\ j = m + 1
      BY <1>2, <1>3, <2>1, <3>2 DEF m
    <3>3. CASE i = m + 1 /\ j \in 1 .. m
      BY <1>2, <1>3, <2>1, <3>3 DEF m
    <3>. QED
      BY <1>5, <3>1, <3>2, <3>3
  <2>. QED
    BY <1>4, <2>1 DEF DistinctKeys
<1>7. ASSUME NEW i \in 1 .. m + 1
      PROVE  Key(ns[i][1]) \in ChildSteps(t, p) /\ ns[i][2] = Under(t, Append(p, Key(ns[i][1])))
  <2>1. CASE i \in 1 .. m
    BY <1>1, <1>3, <2>1
  <2>2. CASE i = m + 1
    BY <1>2, <1>3, <2>2
  <2>. QED
    BY <1>5, <2>1, <2>2
<1>8. MembersAt(t, p, ns)
  BY <1>3, <1>6, <1>7 DEF MembersAt
<1>. QED
  BY <1>8 DEF ns, x

\* The reader on the calls for the members of an object, by induction over the keys.
LEMMA ObjectEntriesRead ==
  ASSUME NEW v \in Sources, NEW p \in DOMAIN v, v[p].kind = "object",
         NEW at, RightBelow(at, v, p), ReadsBelow(at, v, p), NEW s \in Seq(Levels),
         NEW e \in [0 .. Len(KeyOrder) -> Entries], Builds(e, v, p, at)
  PROVE  \E ms : ObjectRead(v, p, s, e[Len(KeyOrder)], Len(KeyOrder), ms)
<1>. DEFINE N == Len(KeyOrder)
            S == {n \in 0 .. N : \E ms : ObjectRead(v, p, s, e[n], n, ms)}
            a == Expects("key", Append(s, ObjectLevel(<<>>)))
            tree == Printed(v)
<1>1. /\ N \in Nat
      /\ \A j \in 1 .. N : KeyOrder[j] \in Text \cap Contents /\ Key(KeyOrder[j]) \in StepSet
      /\ \A i, j \in 1 .. N : KeyOrder[i] = KeyOrder[j] => i = j
  BY KeysInOrder
<1>2. e[0] = <<>> /\ \A n \in 1 .. N : e[n] = AndEntry(e[n - 1], v, p, Key(KeyOrder[n]), at)
  <2>1. StepsFrom(v, p) = [i \in 1 .. N |-> Key(KeyOrder[i])]
    BY KeysAssumption DEF StepsFrom
  <2>2. Len(StepsFrom(v, p)) = N /\ \A i \in 1 .. N : StepsFrom(v, p)[i] = Key(KeyOrder[i])
    <3>. DEFINE f == [i \in 1 .. N |-> Key(KeyOrder[i])]
    <3>. HIDE DEF N
    <3>1. Len(f) = N /\ \A i \in 1 .. N : f[i] = Key(KeyOrder[i])
      BY <1>1
    <3>. QED
      BY <2>1, <3>1
  <2>. HIDE DEF N
  <2>. QED
    BY <2>2 DEF Builds
<1>3. WellFormed(tree) /\ DOMAIN tree = DOMAIN v
  BY PrintedIsTree
<1>4. \A n \in 0 .. N : e[n] \in Entries
  OBVIOUS
<1>. HIDE DEF N, a, tree
<1>5. 0 \in S
  <2>1. <<>> \in Seq(Pairs) /\ Len(<<>>) = 0
    OBVIOUS
  <2>2. MembersAt(tree, p, <<>>)
    BY <2>1 DEF MembersAt, DistinctKeys
  <2>3. Runs(e[0], a, a)
    BY <1>2, RunOfNone
  <2>4. ObjectRead(v, p, s, e[0], 0, <<>>)
    BY <1>2, <2>1, <2>2, <2>3 DEF ObjectRead, a, tree
  <2>. QED
    BY <1>1, <2>4
<1>6. ASSUME NEW n \in 1 .. N, n - 1 \in S PROVE n \in S
  <2>. DEFINE k == KeyOrder[n]
              m == n - 1
  <2>1. PICK ms : ObjectRead(v, p, s, e[m], m, ms)
    BY <1>6
  <2>2. /\ k \in Text \cap Contents /\ Key(k) \in StepSet
        /\ m \in 0 .. N /\ m \in Nat /\ m + 1 = n /\ n \in 0 .. N /\ \A j \in 1 .. n : j \in 1 .. m \/ j = n
        /\ \A j \in 1 .. m : j \in 1 .. N /\ j \in 1 .. n /\ j # n
    BY <1>1
  <2>3. e[n] = AndEntry(e[m], v, p, Key(k), at)
    BY <1>2
  <2>4. /\ MembersAt(tree, p, ms)
        /\ \A i \in 1 .. Len(ms) : \E j \in 1 .. m : ms[i][1] = KeyOrder[j]
        /\ \A j \in 1 .. m : Key(KeyOrder[j]) \in ChildSteps(tree, p) =>
              \E i \in 1 .. Len(ms) : ms[i][1] = KeyOrder[j]
        /\ e[m] = <<>> <=> ms = <<>>
        /\ Runs(e[m], a, Expects(IF ms = <<>> THEN "key" ELSE "member_end", Append(s, ObjectLevel(ms))))
    BY <2>1 DEF ObjectRead, a, tree
  <2>5. e[m] \in Entries
    BY <1>4, <2>2
  <2>6. \A j \in 1 .. m : KeyOrder[j] # k
    BY <1>1, <2>2
  <2>. HIDE DEF m
  <2>7. \A i \in 1 .. Len(ms) : ms[i][1] # k
    BY <2>4, <2>6
  <2>8. CASE Append(p, Key(k)) \notin DOMAIN v
    <3>1. e[n] = e[m]
      BY <2>3, <2>8 DEF AndEntry
    <3>2. Key(k) \notin ChildSteps(tree, p)
      BY <1>3, <2>8 DEF ChildSteps
    <3>3. \A i \in 1 .. Len(ms) : \E j \in 1 .. n : ms[i][1] = KeyOrder[j]
      BY <2>2, <2>4
    <3>4. \A j \in 1 .. n : Key(KeyOrder[j]) \in ChildSteps(tree, p) =>
             \E i \in 1 .. Len(ms) : ms[i][1] = KeyOrder[j]
      BY <2>2, <2>4, <3>2
    <3>5. ObjectRead(v, p, s, e[n], n, ms)
      BY <2>4, <3>1, <3>3, <3>4 DEF ObjectRead, a, tree
    <3>. QED
      BY <2>2, <3>5
  <2>9. CASE Append(p, Key(k)) \in DOMAIN v
    <3>. DEFINE t == Under(tree, Append(p, Key(k)))
                x == <<k, t>>
                ns == Append(ms, x)
    <3>1. t \in Rooted /\ Key(k) \in ChildSteps(tree, p)
      BY <1>3, <2>2, <2>9, UnderIsRooted DEF ChildSteps
    <3>2. ms \in Seq(Pairs) /\ DistinctKeys(ms)
      BY <2>4 DEF MembersAt
    <3>3. e[n] # <<>> /\ Runs(e[n], a, Expects("member_end", Append(s, ObjectLevel(ns))))
      <4>. HIDE DEF k
      <4>. QED
        BY <2>2, <2>3, <2>4, <2>5, <2>7, <2>9, <3>2, ObjectEntryReads DEF tree
    <3>4. MembersAt(tree, p, ns)
      <4>. HIDE DEF k
      <4>. QED
        BY <2>2, <2>4, <2>7, <3>1, OneMoreMember
    <3>5. x \in Pairs /\ x[1] = k
      BY <2>2, <3>1 DEF Pairs
    <3>. HIDE DEF x
    <3>6. /\ Len(ns) = Len(ms) + 1 /\ Len(ms) \in Nat /\ ns[Len(ms) + 1] = x /\ ns # <<>>
          /\ \A i \in 1 .. Len(ms) : ns[i] = ms[i]
      BY <3>2, <3>5, AppendProperties
    <3>. HIDE DEF ns, k
    <3>7. ASSUME NEW i \in 1 .. Len(ns) PROVE \E j \in 1 .. n : ns[i][1] = KeyOrder[j]
      <4>1. CASE i \in 1 .. Len(ms)
        <5>1. ns[i] = ms[i]
          BY <3>6, <4>1
        <5>2. PICK j \in 1 .. m : ms[i][1] = KeyOrder[j]
          BY <2>4, <4>1
        <5>. QED
          BY <2>2, <5>1, <5>2
      <4>2. CASE i = Len(ms) + 1
        <5>1. ns[i][1] = KeyOrder[n] /\ n \in 1 .. n
          BY <2>2, <3>5, <3>6, <4>2 DEF k
        <5>. QED
          BY <5>1
      <4>. QED
        BY <3>6, <4>1, <4>2
    <3>8. ASSUME NEW j \in 1 .. n, Key(KeyOrder[j]) \in ChildSteps(tree, p)
          PROVE  \E i \in 1 .. Len(ns) : ns[i][1] = KeyOrder[j]
      <4>1. CASE j \in 1 .. m
        <5>1. PICK i \in 1 .. Len(ms) : ms[i][1] = KeyOrder[j]
          BY <2>4, <3>8, <4>1
        <5>2. i \in 1 .. Len(ns) /\ ns[i][1] = KeyOrder[j]
          BY <3>6, <5>1
        <5>. QED
          BY <5>2
      <4>2. CASE j = n
        <5>1. Len(ms) + 1 \in 1 .. Len(ns) /\ ns[Len(ms) + 1][1] = KeyOrder[j]
          BY <3>5, <3>6, <4>2 DEF k
        <5>. QED
          BY <5>1
      <4>. QED
        BY <2>2, <4>1, <4>2
    <3>9. ObjectRead(v, p, s, e[n], n, ns)
      BY <3>3, <3>4, <3>6, <3>7, <3>8 DEF ObjectRead, a, tree
    <3>. QED
      BY <2>2, <3>9
  <2>. QED
    BY <2>8, <2>9
<1>. HIDE DEF S
<1>7. 0 .. N \subseteq S
  BY <1>1, <1>5, <1>6, InductionUpto
<1>8. N \in S
  BY <1>1, <1>7
<1>. QED
  BY <1>8 DEF S, N

\* The reader on the calls for an object.
LEMMA ObjectReads ==
  ASSUME NEW v \in Sources, NEW p \in DOMAIN v, v[p].kind = "object",
         NEW at, RightBelow(at, v, p), ReadsBelow(at, v, p)
  PROVE  ReadsAs(CallsOfContainer(v, p, at), Under(Printed(v), p))
<1>. DEFINE N == Len(StepsFrom(v, p))
            x == Call("object_begin", "")
            y == Call("object_end", "")
<1>1. PICK e \in [0 .. N -> Entries] :
        /\ Builds(e, v, p, at)
        /\ CallsOfContainer(v, p, at) = (<<x>> \o e[N]) \o <<y>>
  <2>1. IsContainer(v[p]) /\ Begin[v[p].kind] = "object_begin" /\ End[v[p].kind] = "object_end"
    BY DEF IsContainer, ContainerKinds, Begin, End
  <2>2. PICK e \in [0 .. N -> Entries] :
          /\ Builds(e, v, p, at)
          /\ CallsOfContainer(v, p, at) = (<<Call(Begin[v[p].kind], "")>> \o e[N]) \o <<Call(End[v[p].kind], "")>>
    BY <2>1, EntriesAreBuilt
  <2>3. CallsOfContainer(v, p, at) = (<<x>> \o e[N]) \o <<y>>
    BY <2>1, <2>2, Zenon
  <2>. QED
    BY <2>2, <2>3
<1>2. N = Len(KeyOrder) /\ N \in Nat
  <2>. DEFINE f == [i \in 1 .. Len(KeyOrder) |-> Key(KeyOrder[i])]
  <2>1. StepsFrom(v, p) = f
    BY KeysAssumption DEF StepsFrom
  <2>2. Len(f) = Len(KeyOrder)
    BY KeysInOrder
  <2>. QED
    BY <2>1, <2>2, KeysInOrder
<1>3. x \in CallRecords /\ y \in CallRecords
  BY SingleCall DEF Writes, OpeningBrackets, ClosingBrackets, Contents
<1>. HIDE DEF N
<1>. SUFFICES ASSUME NEW s \in Seq(Levels), NEW site \in {"value", "item"}
              PROVE  Runs(CallsOfContainer(v, p, at), Expects(site, s), Absorb(s, Under(Printed(v), p)))
  BY DEF ReadsAs
<1>4. PICK ms : ObjectRead(v, p, s, e[N], N, ms)
  BY <1>1, <1>2, ObjectEntriesRead
<1>5. /\ MembersAt(Printed(v), p, ms)
      /\ \A j \in 1 .. N : Key(KeyOrder[j]) \in ChildSteps(Printed(v), p) =>
           \E i \in 1 .. Len(ms) : ms[i][1] = KeyOrder[j]
      /\ Runs(e[N], Expects("key", Append(s, ObjectLevel(<<>>))),
              Expects(IF ms = <<>> THEN "key" ELSE "member_end", Append(s, ObjectLevel(ms))))
  BY <1>4 DEF ObjectRead
<1>6. ASSUME NEW q \in ChildSteps(Printed(v), p) PROVE \E i \in 1 .. Len(ms) : q = Key(ms[i][1])
  <2>. DEFINE r == Append(p, q)
  <2>1. WellFormed(Printed(v)) /\ DOMAIN Printed(v) = DOMAIN v /\ p \in Seq(StepSet)
    BY PrintedIsTree, SourceIsTree
  <2>2. q \in StepSet /\ r \in DOMAIN v
    BY <2>1 DEF ChildSteps
  <2>3. Printed(v)[p].kind = "object"
    BY PrintedIsTree DEF IsContainer, ContainerKinds
  <2>4. q[1] = "key"
    BY <2>1, <2>3, ChildIsLed
  <2>5. PICK k \in Text : q = Key(k)
    BY <2>2, <2>4 DEF StepSet, Key
  <2>6. r[Len(r)] = q /\ Len(r) \in DOMAIN r
    BY <2>1, <2>2, AppendProperties
  <2>. HIDE DEF r
  <2>7. k \in ToSet(KeyOrder)
    <3>1. r[Len(r)][1] = "key" /\ r[Len(r)][2] = k
      BY <2>5, <2>6 DEF Key
    <3>. QED
      BY <2>2, <2>6, <3>1, SourcesAssumption
  <2>8. PICK j \in 1 .. N : KeyOrder[j] = k
    BY <1>2, <2>7, KeysAssumption DEF ToSet
  <2>9. PICK i \in 1 .. Len(ms) : ms[i][1] = k
    BY <1>5, <2>5, <2>8
  <2>. QED
    BY <2>5, <2>9
<1>7. ObjectOf(ms) = Under(Printed(v), p)
  BY <1>5, <1>6, ObjectUnder
<1>8. TakesCall(Expects(site, s), x) = Expects("key", Append(s, ObjectLevel(<<>>)))
  BY CallOfOpening
<1>9. TakesCall(Expects(IF ms = <<>> THEN "key" ELSE "member_end", Append(s, ObjectLevel(ms))), y)
        = Absorb(s, ObjectOf(ms))
  BY <1>5, CallsInObject DEF MembersAt
<1>10. e[N] \in Entries
  BY <1>2
<1>. DEFINE b == Expects("key", Append(s, ObjectLevel(<<>>)))
            c == Expects(IF ms = <<>> THEN "key" ELSE "member_end", Append(s, ObjectLevel(ms)))
            d == Absorb(s, Under(Printed(v), p))
<1>11. TakesCall(Expects(site, s), x) = b /\ Runs(e[N], b, c) /\ TakesCall(c, y) = d
  BY <1>5, <1>7, <1>8, <1>9
<1>. HIDE DEF x, y, b, c, d
<1>12. Runs((<<x>> \o e[N]) \o <<y>>, Expects(site, s), d)
  BY <1>3, <1>10, <1>11, BracketedReads
<1>. QED
  BY <1>1, <1>12 DEF d

\* A value that is not a container.
LEMMA ScalarReads ==
  ASSUME NEW v \in Sources, NEW p \in DOMAIN v, ~IsContainer(v[p])
  PROVE  ReadsAs(<<Call(v[p].kind, v[p].content)>>, Under(Printed(v), p))
<1>. DEFINE call == Call(v[p].kind, v[p].content)
            t == Under(Printed(v), p)
<1>1. t = Leaf(Printed(v)[p])
  <2>1. WellFormed(Printed(v)) /\ p \in DOMAIN Printed(v)
    BY PrintedIsTree
  <2>2. Printed(v)[p].kind \notin ContainerKinds
    BY PrintedIsTree DEF IsContainer
  <2>. QED
    BY <2>1, <2>2, LeafUnder
<1>2. ASSUME NEW s \in Seq(Levels), NEW site \in {"value", "item"}
      PROVE  Runs(<<call>>, Expects(site, s), Absorb(s, t))
  <2>1. TakesCall(Expects(site, s), call) = Absorb(s, t)
    BY <1>1, CallOfScalar
  <2>. HIDE DEF call, t
  <2>. QED
    BY <2>1, RunOfOne
<1>. HIDE DEF call, t
<1>3. ReadsAs(<<call>>, t)
  BY <1>2 DEF ReadsAs
<1>. QED
  BY <1>3 DEF call, t

\* The calls for a value make the reader read what its text can express.
LEMMA CallsRead ==
  ASSUME NEW v \in Sources
  PROVE  ReadsAs(CallsOf(v), Printed(v))
<1>. DEFINE D == DOMAIN v
            rank == [p \in D |-> Cardinality(Deeper(v, p))]
<1>1. PICK at \in [D -> WholeCalls] : CallsOf(v) = at[<<>>] /\ \A p \in D : at[p] = CallsAt(v, p, at)
  BY CallsAreBuilt
<1>2. /\ \A p \in D : rank[p] \in Nat
      /\ \A p \in D, step \in StepSet : Append(p, step) \in D => rank[Append(p, step)] < rank[p]
  <2>1. \A p \in D : Cardinality(Deeper(v, p)) \in Nat
    BY ChildrenAreDeeper
  <2>2. \A p \in D, step \in StepSet : Append(p, step) \in D =>
           Cardinality(Deeper(v, Append(p, step))) < Cardinality(Deeper(v, p))
    BY ChildrenAreDeeper
  <2>3. \A p \in D : rank[p] = Cardinality(Deeper(v, p))
    OBVIOUS
  <2>. HIDE DEF rank, D
  <2>. QED
    BY <2>1, <2>2, <2>3
<1>. DEFINE S == {k \in Nat : \A p \in D : rank[p] = k => ReadsAs(at[p], Under(Printed(v), p))}
<1>3. ASSUME NEW k \in Nat, \A m \in Nat : m < k => m \in S PROVE k \in S
  <2>1. ASSUME NEW p \in D, rank[p] = k PROVE ReadsAs(at[p], Under(Printed(v), p))
    <3>1. ReadsBelow(at, v, p)
      <4>1. ASSUME NEW step \in StepSet, Append(p, step) \in D
            PROVE  ReadsAs(at[Append(p, step)], Under(Printed(v), Append(p, step)))
        <5>1. rank[Append(p, step)] \in Nat /\ rank[Append(p, step)] < k
          BY <1>2, <2>1, <4>1
        <5>. HIDE DEF rank, D
        <5>. QED
          BY <1>3, <4>1, <5>1
      <4>. QED
        BY <4>1 DEF ReadsBelow
    <3>2. RightBelow(at, v, p)
      BY <1>1 DEF RightBelow
    <3>3. at[p] = CallsAt(v, p, at)
      BY <1>1
    <3>4. CASE ~IsContainer(v[p])
      <4>1. at[p] = <<Call(v[p].kind, v[p].content)>>
        BY <3>3, <3>4 DEF CallsAt
      <4>. QED
        BY <3>4, <4>1, ScalarReads
    <3>5. CASE IsContainer(v[p])
      <4>1. at[p] = CallsOfContainer(v, p, at)
        BY <3>3, <3>5 DEF CallsAt
      <4>2. v[p].kind = "array" \/ v[p].kind = "object"
        BY <3>5 DEF IsContainer, ContainerKinds
      <4>. QED
        BY <3>1, <3>2, <4>1, <4>2, ArrayReads, ObjectReads
    <3>. QED
      BY <3>4, <3>5
  <2>. HIDE DEF rank, D
  <2>. QED
    BY <2>1
<1>4. \A k \in Nat : k \in S
  <2>1. Nat \in SUBSET Nat
    OBVIOUS
  <2>. HIDE DEF S
  <2>2. Nat \subseteq S
    BY <1>3, <2>1, InductionBelow
  <2>. QED
    BY <2>2
<1>5. <<>> \in D /\ rank[<<>>] \in Nat
  BY <1>2, SourceIsTree
<1>6. ReadsAs(at[<<>>], Under(Printed(v), <<>>))
  <2>. HIDE DEF rank, D
  <2>. QED
    BY <1>4, <1>5
<1>7. Under(Printed(v), <<>>) = Printed(v)
  BY PrintedIsTree, AllIsUnderRoot
<1>. QED
  BY <1>1, <1>6, <1>7

-----------------------------------------------------------------------------
(* What the reader has read of the output *)

MeaningfulTokens == {t \in TokenRecords : t.means \in Text /\ t.kind \notin Skipped}

\* The reader is in state c behind the tokens o.
Shown(o, c) ==
    /\ o \in Seq(TokenRecords)
    /\ Significant(o) \in Seq(MeaningfulTokens)
    /\ Significant(Significant(o)) = Significant(o)
    /\ Read(Significant(o), StrictOptions) = c

\* What is written is text.
LEMMA ContentsAreTexts == Contents \subseteq Text
<1>1. \A v \in Sources : \A p \in DOMAIN v : v[p].content \in Text
  BY SourcesAssumption
<1>2. Range(KeyOrder) \subseteq Text
  <2>1. \A j \in DOMAIN KeyOrder : KeyOrder[j] \in Text
    BY KeysAssumption
  <2>. QED
    BY <2>1 DEF Range
<1>3. "" \in Text
  BY DEF Text
<1>4. ASSUME NEW c \in Contents PROVE c \in Text
  <2>1. CASE c \in {""} \cup Range(KeyOrder)
    BY <1>2, <1>3, <2>1
  <2>2. CASE c \in UNION {{v[p].content : p \in DOMAIN v} : v \in Sources}
    BY <1>1, <2>2
  <2>. QED
    BY <2>1, <2>2 DEF Contents
<1>. QED
  BY <1>4

\* In front of the output the reader expects a value.
LEMMA NothingShown == Shown(<<>>, Expects("value", <<>>))
<1>1. \A T : <<>> \in Seq(T)
  OBVIOUS
<1>. QED
  BY <1>1, NothingSignificant, NothingRead DEF Shown

\* The reader does not see white space.
LEMMA BlankShows ==
  ASSUME NEW o, NEW c, Shown(o, c), NEW x \in TokenRecords, x.kind = "whitespace"
  PROVE  Shown(o \o <<x>>, c)
<1>. DEFINE a == Append(o, x)
<1>1. o \in Seq(TokenRecords)
  BY DEF Shown
<1>2. a = o \o <<x>> /\ a \in Seq(TokenRecords)
  BY <1>1, AppendIsConcat, AppendProperties
<1>3. Significant(a) = Significant(o)
  BY <1>1, SignificantGrows DEF Skipped
<1>. HIDE DEF a
<1>4. Shown(a, c)
  BY <1>2, <1>3 DEF Shown
<1>. QED
  BY <1>2, <1>4

\* The reader takes a token that is not white space.
LEMMA TokenShows ==
  ASSUME NEW o, NEW c, Shown(o, c), NEW x \in TokenRecords, x.kind # "whitespace", x.means \in Contents
  PROVE  Shown(o \o <<x>>, Takes(StrictOptions, c, x))
<1>. DEFINE a == Append(o, x)
            w == Significant(o)
<1>1. /\ o \in Seq(TokenRecords) /\ w \in Seq(MeaningfulTokens) /\ Significant(w) = w
      /\ Read(w, StrictOptions) = c
  BY DEF Shown
<1>2. a = o \o <<x>> /\ a \in Seq(TokenRecords)
  BY <1>1, AppendIsConcat, AppendProperties
<1>3. x \in MeaningfulTokens
  <2>1. x.kind \in TokenKinds
    BY DEF TokenRecords
  <2>2. x.kind \notin Skipped
    BY <2>1 DEF Skipped, TokenKinds, OpeningBrackets, ClosingBrackets
  <2>. QED
    BY <2>2, ContentsAreTexts DEF MeaningfulTokens
<1>4. x.kind \notin Skipped /\ \A t \in MeaningfulTokens : t.means \in Text
  BY <1>3 DEF MeaningfulTokens
<1>5. Significant(a) = Append(w, x)
  BY <1>1, <1>4, SignificantGrows
<1>. HIDE DEF a, w
<1>6. Append(w, x) \in Seq(MeaningfulTokens)
  BY <1>1, <1>3, AppendProperties
<1>7. Significant(Append(w, x)) = Append(w, x)
  BY <1>1, <1>3, <1>4, SignificantGrows
<1>8. Read(Append(w, x), StrictOptions) = Takes(StrictOptions, c, x)
  BY <1>1, <1>3, <1>4, ReadGrows
<1>9. Shown(a, Takes(StrictOptions, c, x))
  BY <1>2, <1>5, <1>6, <1>7, <1>8 DEF Shown
<1>. QED
  BY <1>2, <1>9

\* The white space around the tokens of a call.
LEMMA BlanksShow ==
  ASSUME NEW o, NEW c, Shown(o, c), NEW e, e = <<>> \/ \E x \in TokenRecords : x.kind = "whitespace" /\ e = <<x>>
  PROVE  Shown(o \o e, c)
<1>1. CASE e = <<>>
  <2>1. o \o e = o
    BY <1>1, ConcatEmptySeq DEF Shown
  <2>. QED
    BY <2>1
<1>2. CASE e # <<>>
  BY <1>2, BlankShows
<1>. QED
  BY <1>1, <1>2

\* What is written around the tokens of a call is white space, or nothing.
LEMMA BlanksOfCall ==
  ASSUME NEW call, indent \in Int
  PROVE  \A e \in {Prefix(call), Suffix(call)} :
            e = <<>> \/ \E x \in TokenRecords : x.kind = "whitespace" /\ e = <<x>>
<1>1. \A n \in Int : Eol(n) \in TokenRecords /\ Eol(n).kind = "whitespace"
  BY BreaksAreRecords
<1>2. Space \in TokenRecords /\ Space.kind = "whitespace"
  BY SpacesAreTokens, TokenHas DEF Space
<1>3. indent - IndentSize \in Int
  BY BoundsAssumption
<1>4. Prefix(call) \in {<<>>, <<Eol(indent)>>, <<Eol(indent - IndentSize)>>}
  BY DEF Prefix
<1>5. Suffix(call) \in {<<>>, <<Eol(indent)>>, <<Space>>}
  BY DEF Suffix
<1>. QED
  BY <1>1, <1>2, <1>3, <1>4, <1>5

\* The tokens of a call.
LEMMA WrittenShows ==
  ASSUME NEW o, NEW c, Shown(o, c), NEW call \in CallRecords
  PROVE  Shown(o \o Written(call), TakesCall(c, call))
<1>1. CASE call.write = "object_key"
  <2>. DEFINE x == Token("string", call.content)
              y == Token("object_key_delimiter", "")
  <2>1. x \in TokenRecords /\ y \in TokenRecords /\ Written(call) = <<x, y>>
    BY <1>1, WrittenKey
  <2>2. x.kind = "string" /\ y.kind = "object_key_delimiter" /\ x.means = call.content /\ y.means = ""
    BY TokenHas
  <2>3. call.content \in Contents /\ "" \in Contents
    BY DEF CallRecords, Contents
  <2>4. TakesCall(c, call) = Takes(StrictOptions, Takes(StrictOptions, c, x), y)
    BY <1>1 DEF TakesCall
  <2>. HIDE DEF x, y
  <2>5. x.kind # "whitespace" /\ y.kind # "whitespace" /\ x.means \in Contents /\ y.means \in Contents
    BY <2>2, <2>3
  <2>. DEFINE b == Takes(StrictOptions, c, x)
  <2>6. Shown(o \o <<x>>, b)
    BY <2>1, <2>5, TokenShows
  <2>. HIDE DEF b
  <2>7. Shown((o \o <<x>>) \o <<y>>, Takes(StrictOptions, b, y))
    BY <2>1, <2>5, <2>6, TokenShows
  <2>8. (o \o <<x>>) \o <<y>> = o \o Written(call)
    <3>1. \A e, f \in TokenRecords : <<e, f>> = <<e>> \o <<f>>
      BY PairIsConcat
    <3>2. \A e \in TokenRecords : <<e>> \in Seq(TokenRecords)
      OBVIOUS
    <3>3. o \in Seq(TokenRecords) /\ <<x>> \in Seq(TokenRecords) /\ <<y>> \in Seq(TokenRecords)
      BY <2>1, <3>2 DEF Shown
    <3>4. o \o (<<x>> \o <<y>>) = (o \o <<x>>) \o <<y>>
      BY <3>3, ConcatAssociative
    <3>5. Written(call) = <<x>> \o <<y>>
      BY <2>1, <3>1
    <3>. QED
      BY <3>4, <3>5
  <2>. QED
    BY <2>4, <2>7, <2>8 DEF b
<1>2. CASE call.write # "object_key"
  <2>1. PICK x \in TokenRecords : Written(call) = <<x>> /\ x.kind # "whitespace" /\ x.means \in Contents
    BY <1>2, WrittenToken
  <2>2. TakesCall(c, call) = Takes(StrictOptions, c, x)
    <3>1. \A y : <<y>>[1] = y
      OBVIOUS
    <3>2. Written(call)[1] = x
      BY <2>1, <3>1
    <3>. QED
      BY <1>2, <3>2 DEF TakesCall
  <2>3. Shown(o \o <<x>>, Takes(StrictOptions, c, x))
    BY <2>1, TokenShows
  <2>. QED
    BY <2>1, <2>2, <2>3
<1>. QED
  BY <1>1, <1>2

\* The reader takes what a call writes as TakesCall says.
LEMMA CallShows ==
  ASSUME NEW o, NEW c, Shown(o, c), NEW call \in CallRecords, indent \in Int
  PROVE  Shown(o \o Prefix(call) \o Written(call) \o Suffix(call), TakesCall(c, call))
<1>1. Shown(o \o Prefix(call), c)
  BY BlanksOfCall, BlanksShow
<1>2. Shown((o \o Prefix(call)) \o Written(call), TakesCall(c, call))
  BY <1>1, WrittenShows
<1>3. Shown(((o \o Prefix(call)) \o Written(call)) \o Suffix(call), TakesCall(c, call))
  BY <1>2, BlanksOfCall, BlanksShow
<1>. QED
  BY <1>3

\* The reader will have read the value behind the calls that are yet to be made.
WillBeRead ==
    calls > 0 /\ stream = "good" => \E c : Shown(out, c) /\ Runs(todo, c, Ended(Printed(source)))

OutputInv == EncoderInv /\ WillBeRead

\* The invariant holds of a new encoder.
LEMMA InitOutputInv == EncoderInit => OutputInv
  BY InitEncoderInv DEF EncoderInit, OutputInv, WillBeRead

\* Encode keeps it: its calls make the reader read the value.
LEMMA EncodeKeepsOutput == OutputInv /\ Encode => OutputInv'
<1>. SUFFICES ASSUME EncoderInv, Encode PROVE OutputInv'
  BY DEF OutputInv
<1>1. source' \in Sources /\ todo' = CallsOf(source') /\ out' = <<>>
  BY DEF Encode
<1>2. Runs(todo', Expects("value", <<>>), Absorb(<<>>, Printed(source')))
  <2>1. <<>> \in Seq(Levels)
    OBVIOUS
  <2>. QED
    BY <1>1, <2>1, CallsRead DEF ReadsAs
<1>3. Absorb(<<>>, Printed(source')) = Ended(Printed(source'))
  BY DEF Absorb
<1>4. Printed(source)' = Printed(source')
  BY DEF Printed
<1>5. WillBeRead'
  BY <1>1, <1>2, <1>3, <1>4, NothingShown DEF WillBeRead
<1>. QED
  BY <1>5, EncodeKeepsInv DEF OutputInv

\* Write keeps it: the reader goes over the call.
LEMMA WriteKeepsOutput == OutputInv /\ Write => OutputInv'
<1>. SUFFICES ASSUME EncoderInv, WillBeRead, Write PROVE OutputInv'
  BY DEF OutputInv
<1>. DEFINE call == todo[1]
<1>1. /\ todo # <<>> /\ todo \in Seq(CallRecords) /\ Head(todo) = call /\ call \in CallRecords
      /\ indent \in Int
  BY RestOfCalls DEF Write, EncoderInv, EncoderType
<1>2. /\ out' = out \o Prefix(call) \o Written(call) \o Suffix(call)
      /\ todo' = Tail(todo) /\ calls' = calls /\ stream' = stream /\ source' = source
  BY <1>1 DEF Write
<1>3. ASSUME calls > 0, stream = "good"
      PROVE  \E c : Shown(out', c) /\ Runs(todo', c, Ended(Printed(source)))
  <2>1. PICK c : Shown(out, c) /\ Runs(todo, c, Ended(Printed(source)))
    BY <1>3 DEF WillBeRead
  <2>2. Runs(Tail(todo), TakesCall(c, call), Ended(Printed(source)))
    BY <1>1, <2>1, RunOfRest
  <2>. HIDE DEF call
  <2>3. Shown(out', TakesCall(c, call))
    BY <1>1, <1>2, <2>1, CallShows
  <2>. QED
    BY <1>2, <2>2, <2>3
<1>4. WillBeRead'
  BY <1>2, <1>3 DEF WillBeRead, Printed
<1>. QED
  BY <1>4, WriteKeepsInv DEF OutputInv

\* An exception of the stream keeps it: encode does not return.
LEMMA ThrowKeepsOutput == OutputInv /\ StreamThrows => OutputInv'
  BY ThrowKeepsInv DEF OutputInv, WillBeRead, StreamThrows

\* A step that changes nothing keeps it.
LEMMA StutterKeepsOutput == OutputInv /\ UNCHANGED encoderVars => OutputInv'
  BY StutterKeepsEncoderInv DEF OutputInv, WillBeRead, encoderVars, Shown, Runs, IsRun, Printed

\* When encode returns, the reader has read the value, and so does the grammar.
LEMMA OutputIsRead == OutputInv => OutputIsTheValue
<1>. SUFFICES ASSUME EncoderInv, WillBeRead, Returned
              PROVE  Documents(out, StrictOptions) = {Printed(source)}
  BY DEF OutputInv, OutputIsTheValue
<1>. DEFINE w == Significant(out)
            t == Printed(source)
<1>1. PICK c : Shown(out, c) /\ Runs(todo, c, Ended(t))
  BY DEF WillBeRead, Returned
<1>2. c = Ended(t)
  BY <1>1, RunOfNone DEF Returned
<1>3. out \in Seq(TokenRecords) /\ w \in Seq(MeaningfulTokens) /\ Significant(w) = w /\ Read(w, StrictOptions) = Ended(t)
  BY <1>1, <1>2 DEF Shown
<1>. HIDE DEF t, w
<1>4. /\ StrictOptions.complete_parse /\ ~StrictOptions.require_document
      /\ ~(StrictOptions.max_structure_depth > 0)
  <2>1. StrictOptions.complete_parse
    BY Zenon DEF StrictOptions
  <2>2. ~StrictOptions.require_document
    BY Zenon DEF StrictOptions
  <2>3. StrictOptions.max_structure_depth = 0
    BY DEF StrictOptions
  <2>. QED
    BY <2>1, <2>2, <2>3
<1>5. ~HasRefusedComment(out, StrictOptions)
  <2>1. \A i \in DOMAIN out : out[i].kind \in TokenKinds
    <3>1. \A i \in DOMAIN out : out[i] \in TokenRecords
      BY <1>3
    <3>. QED
      BY <3>1 DEF TokenRecords
  <2>2. "comment" \notin TokenKinds
    BY DEF TokenKinds, OpeningBrackets, ClosingBrackets
  <2>. QED
    BY <2>1, <2>2 DEF HasRefusedComment
<1>6. \A v : Admissible(v, StrictOptions)
  BY <1>4 DEF Admissible
<1>7. Documents(out, StrictOptions) = Candidates(out, StrictOptions)
  BY <1>5, <1>6, DocumentsAre
<1>8. Candidates(out, StrictOptions) = Candidates(w, StrictOptions)
  BY <1>3, <1>4 DEF Candidates, w
<1>9. \A v : v \in Candidates(w, StrictOptions) <=> v = t
  <2>. SUFFICES ASSUME NEW v PROVE v \in Candidates(w, StrictOptions) <=> v = t
    OBVIOUS
  <2>1. \A x \in MeaningfulTokens : x.means \in Text
    BY DEF MeaningfulTokens
  <2>2. v \in Candidates(w, StrictOptions) <=> Read(Significant(w), StrictOptions) = Ended(v)
    BY <1>3, <1>4, <2>1, ReaderReadsCandidates
  <2>3. Ended(t) = Ended(v) <=> v = t
    BY DEF Ended
  <2>. QED
    BY <1>3, <2>2, <2>3
<1>. QED
  BY <1>7, <1>8, <1>9 DEF t

\* For every set of values, order of keys and indent: what encode has written when it
\* returns, pretty or not, and whatever the calls before it and exceptions of the stream have
\* left, is one document under the strictest options, and denotes the value.
THEOREM OutputDenotesTheValue == EncoderSpec => []OutputIsTheValue
<1>1. EncoderInit => OutputInv
  BY InitOutputInv
<1>2. OutputInv /\ [EncoderNext]_encoderVars => OutputInv'
  BY EncodeKeepsOutput, WriteKeepsOutput, ThrowKeepsOutput, StutterKeepsOutput DEF EncoderNext
<1>3. OutputInv => OutputIsTheValue
  BY OutputIsRead
<1>. QED
  BY <1>1, <1>2, <1>3, PTL DEF EncoderSpec
=============================================================================
