-------------------------- MODULE DetectionProofs --------------------------
(***************************************************************************)
(* Proofs about Detection, for any pods, agents, jobs, builds and nodes,   *)
(* whatever is read of them, is down or is dismissed: what a report says,  *)
(* what a deep one says more, and that a measure gone worse is said.       *)
(*                                                                         *)
(* The state is small and the report a long function of it, so the         *)
(* invariant only says that what is read is on its scale (AlwaysOnScale)   *)
(* and the rest is about the operators, from the inside out.  Groups       *)
(* partitions a sequence; a step of the report that merges groups or picks *)
(* findings has one lemma, which says for each finding that goes in which  *)
(* one speaks for it when it comes out (Covers, Alike, Correlates) and     *)
(* that no two that come out are of one key or resource.  Each check has a *)
(* lemma on the shape of its findings (Raw), which is all the steps of the *)
(* report need to know of it.                                              *)
(*                                                                         *)
(* The two that compare reports need more of the checks: that the findings *)
(* of one reading outdo those of the other (Outdoes), which the report     *)
(* keeps (ReportLouder).  Of a worse measure each check has that lemma too *)
(* (Louder), and Better is a notch back on a scale that only rises or only *)
(* falls.                                                                  *)
(***************************************************************************)
EXTENDS Detection, SequenceFacts, FiniteSetTheorems, TLAPS

-----------------------------------------------------------------------------
(* Groups.                                                                 *)

LEMMA HavingProperties ==
    ASSUME NEW fs, IsSeq(fs), NEW keys, NEW key
    PROVE  LET I == {i \in 1..Len(fs) : keys[i] = key}
               H == Having(fs, keys, key)
           IN  Chosen(H, fs, I)
<1> DEFINE n == Len(fs)
           I == {i \in 1..n : keys[i] = key}
           ss == [i \in DOMAIN fs |-> When(keys[i] = key, fs[i])]
<1>1. n \in Nat /\ DOMAIN fs = 1..n
  BY IsSeqProperties
<1>2. \A i \in 1..n : ss[i] = IF i \in I THEN <<fs[i]>> ELSE <<>>
  BY <1>1 DEF When
<1>3. IsSeq(ss) /\ Len(ss) = n
  <2>1. ss = [i \in 1..n |-> ss[i]]
    BY <1>1
  <2> HIDE DEF ss, n
  <2> QED
    BY <1>1, <2>1, FunctionIsSeq
<1>4. Having(fs, keys, key) = FlattenSeq(ss)
  BY DEF Having
<1> HIDE DEF ss, n
<1>5. I \in SUBSET (1..n)
  OBVIOUS
<1> HIDE DEF I
<1>6. Chosen(FlattenSeq(ss), fs, I)
  BY <1>1, <1>2, <1>3, <1>5, FlattenChosen
<1> QED
  BY <1>4, <1>6 DEF I, n

LEMMA SharedKeysProperties ==
    ASSUME NEW fs, IsSeq(fs), NEW keys
    PROVE  LET S == SharedKeys(fs, keys)
           IN  /\ IsSeq(S)
               /\ ToSet(S) = {keys[i] : i \in 1..Len(fs)} \ {{}}
               /\ \A a, b \in 1..Len(S) : a < b => S[a] # S[b]
<1> DEFINE n == Len(fs)
           First(i) == keys[i] # {} /\ \A k \in 1..(i - 1) : keys[k] # keys[i]
           I == {i \in 1..n : First(i)}
           ss == [i \in DOMAIN fs |-> When(First(i), keys[i])]
           K == {keys[i] : i \in 1..n}
           R == {p \in K \X K : p[1] # p[2]}
           S == FlattenSeq(ss)
<1>1. n \in Nat /\ DOMAIN fs = 1..n
  BY IsSeqProperties
<1>2. \A i \in 1..n : ss[i] = IF i \in I THEN <<keys[i]>> ELSE <<>>
  BY <1>1 DEF When
<1>3. IsSeq(ss) /\ Len(ss) = n
  <2>1. ss = [i \in 1..n |-> ss[i]]
    BY <1>1
  <2> HIDE DEF ss, n
  <2> QED
    BY <1>1, <2>1, FunctionIsSeq
<1>4. SharedKeys(fs, keys) = S
  BY DEF SharedKeys
<1>5. ASSUME NEW i \in I, NEW k \in I, i < k
      PROVE  <<keys[i], keys[k]>> \in R
  <2>1. i \in 1..(k - 1) /\ i \in 1..n /\ k \in 1..n
    BY <1>1, <1>5
  <2>2. keys[i] # keys[k]
    BY <2>1
  <2> QED
    BY <2>1, <2>2
<1>6. {keys[i] : i \in I} = K \ {{}}
  <2>1. ASSUME NEW i \in I PROVE keys[i] \in K \ {{}}
    OBVIOUS
  <2>2. ASSUME NEW x \in K \ {{}} PROVE \E i \in I : x = keys[i]
    <3> DEFINE W == {i \in 1..n : keys[i] = x}
    <3>1. W \in SUBSET Nat /\ W # {}
      BY <1>1
    <3>2. PICK i \in W : \A m \in W : i <= m
      BY <3>1, LeastNatural
    <3>3. ASSUME NEW k \in 1..(i - 1) PROVE keys[k] # keys[i]
      <4>1. k \in 1..n /\ ~(i <= k)
        BY <1>1, <3>2
      <4> QED
        BY <3>2, <4>1
    <3> QED
      BY <3>2, <3>3
  <2> QED
    BY <2>1, <2>2
<1> HIDE DEF ss, n
<1>7. I \in SUBSET (1..n)
  OBVIOUS
<1> HIDE DEF I, K
<1>8. Chosen(S, keys, I)
  BY <1>1, <1>2, <1>3, <1>7, FlattenChosen
<1>9. IsSeq(S) /\ ToSet(S) = {keys[i] : i \in I} /\ Apart(S, R)
  BY <1>5, <1>8 DEF Chosen
<1> HIDE DEF S
<1>10. \A a, b \in 1..Len(S) : a < b => S[a] # S[b]
  BY <1>9 DEF Apart
<1> QED
  BY <1>4, <1>6, <1>9, <1>10 DEF K, n

\* The groups of G hold the elements of fs, none empty, each of one key, and of
\* no key only one by one.  What keeps the elements of fs apart keeps those of a
\* group and of two groups apart.
GroupsOf(G, fs, keys) ==
    LET n == Len(fs) IN
    /\ IsSeq(G)
    /\ \A g \in 1..Len(G) :
         /\ IsSeq(G[g]) /\ Len(G[g]) >= 1
         /\ \E key : /\ \A x \in ToSet(G[g]) : \E i \in 1..n : x = fs[i] /\ keys[i] = key
                     /\ key = {} => Len(G[g]) = 1
    /\ \A x \in ToSet(fs) : \E g \in 1..Len(G) : x \in ToSet(G[g])
    /\ \A R : (\A i, k \in 1..n : i # k /\ keys[i] = keys[k] /\ keys[i] # {}
                                  => <<fs[i], fs[k]>> \in R)
              => \A g \in 1..Len(G) : Apart(G[g], R)
    /\ \A R : (\A i, k \in 1..n : i # k /\ (keys[i] # keys[k] \/ keys[i] = {})
                                  => <<fs[i], fs[k]>> \in R)
              => \A g, h \in 1..Len(G) : g < h =>
                   \A x \in ToSet(G[g]), y \in ToSet(G[h]) : <<x, y>> \in R

LEMMA GroupsProperties ==
    ASSUME NEW fs, IsSeq(fs), NEW keys
    PROVE  GroupsOf(Groups(fs, keys), fs, keys)
<1> DEFINE n == Len(fs)
           alone == Having(fs, keys, {})
           shared == SharedKeys(fs, keys)
           H(key) == Having(fs, keys, key)
           I(key) == {i \in 1..n : keys[i] = key}
           A == [i \in DOMAIN alone |-> <<alone[i]>>]
           B == [j \in DOMAIN shared |-> H(shared[j])]
           G == A \o B
<1>1. G = Groups(fs, keys)
  BY DEF Groups
<1>2. \A key : Chosen(H(key), fs, I(key))
  BY HavingProperties
<1>3. /\ IsSeq(shared)
      /\ ToSet(shared) = {keys[i] : i \in 1..n} \ {{}}
      /\ \A a, b \in 1..Len(shared) : a < b => shared[a] # shared[b]
  BY SharedKeysProperties
<1>4. Chosen(alone, fs, I({}))
  BY <1>2
<1> HIDE DEF alone, shared, H
<1>5. IsSeq(alone) /\ Len(alone) \in Nat /\ DOMAIN alone = 1..Len(alone)
  BY <1>4, IsSeqProperties DEF Chosen
<1>6. Len(shared) \in Nat /\ DOMAIN shared = 1..Len(shared)
  BY <1>3, IsSeqProperties
<1>7. /\ IsSeq(A) /\ Len(A) = Len(alone)
      /\ \A a \in 1..Len(alone) : A[a] = <<alone[a]>>
  <2>1. A = [i \in 1..Len(alone) |-> A[i]]
    BY <1>5
  <2>2. \A a \in 1..Len(alone) : A[a] = <<alone[a]>>
    BY <1>5
  <2> HIDE DEF A
  <2> QED
    BY <1>5, <2>1, <2>2, FunctionIsSeq
<1>8. /\ IsSeq(B) /\ Len(B) = Len(shared)
      /\ \A b \in 1..Len(shared) : B[b] = H(shared[b])
  <2>1. B = [i \in 1..Len(shared) |-> B[i]]
    BY <1>6
  <2>2. \A b \in 1..Len(shared) : B[b] = H(shared[b])
    BY <1>6
  <2> HIDE DEF B
  <2> QED
    BY <1>6, <2>1, <2>2, FunctionIsSeq
<1> HIDE DEF A, B
<1>9. /\ IsSeq(G) /\ Len(G) = Len(alone) + Len(shared)
      /\ \A a \in 1..Len(alone) : G[a] = <<alone[a]>>
      /\ \A b \in 1..Len(shared) : G[Len(alone) + b] = H(shared[b])
  BY <1>7, <1>8, ConcatIsSeq
<1> HIDE DEF G
<1>10. ASSUME NEW g \in 1..Len(G)
       PROVE  \/ g \in 1..Len(alone)
              \/ \E b \in 1..Len(shared) : g = Len(alone) + b /\ G[g] = H(shared[b])
  <2>1. CASE g <= Len(alone)
    BY <1>5, <1>9, <2>1
  <2>2. CASE ~(g <= Len(alone))
    <3>1. g - Len(alone) \in 1..Len(shared) /\ g = Len(alone) + (g - Len(alone))
      BY <1>5, <1>6, <1>9, <2>2
    <3> QED
      BY <1>9, <3>1
  <2> QED
    BY <2>1, <2>2
<1>11. \A a \in 1..Len(alone) :
         /\ IsSeq(G[a]) /\ Len(G[a]) = 1 /\ ToSet(G[a]) = {alone[a]}
         /\ \A R : Apart(G[a], R)
         /\ \E i \in 1..n : keys[i] = {} /\ alone[a] = fs[i]
  <2> SUFFICES ASSUME NEW a \in 1..Len(alone)
               PROVE  /\ IsSeq(G[a]) /\ Len(G[a]) = 1 /\ ToSet(G[a]) = {alone[a]}
                      /\ \A R : Apart(G[a], R)
                      /\ \E i \in 1..n : keys[i] = {} /\ alone[a] = fs[i]
    OBVIOUS
  <2>0. LET s == <<alone[a]>>
        IN  IsSeq(s) /\ Len(s) = 1 /\ ToSet(s) = {alone[a]} /\ \A R : Apart(s, R)
    BY OneIsSeq
  <2>1. alone[a] \in ToSet(alone)
    BY <1>5, IsSeqProperties
  <2> QED
    BY <1>4, <1>9, <2>0, <2>1 DEF Chosen
<1>12. \A b \in 1..Len(shared) :
         /\ shared[b] # {} /\ IsSeq(H(shared[b])) /\ Len(H(shared[b])) >= 1
         /\ ToSet(H(shared[b])) = {fs[i] : i \in I(shared[b])}
  <2> SUFFICES ASSUME NEW b \in 1..Len(shared)
               PROVE  /\ shared[b] # {} /\ IsSeq(H(shared[b])) /\ Len(H(shared[b])) >= 1
                      /\ ToSet(H(shared[b])) = {fs[i] : i \in I(shared[b])}
    OBVIOUS
  <2>1. shared[b] \in ToSet(shared)
    BY <1>3, IsSeqProperties
  <2>2. PICK i \in 1..n : shared[b] = keys[i]
    BY <1>3, <2>1
  <2>3. IsSeq(H(shared[b])) /\ ToSet(H(shared[b])) = {fs[j] : j \in I(shared[b])}
    BY <1>2 DEF Chosen
  <2>4. fs[i] \in ToSet(H(shared[b]))
    BY <2>2, <2>3
  <2>5. Len(H(shared[b])) >= 1
    <3>1. Len(H(shared[b])) \in Nat
      BY <2>3, IsSeqProperties
    <3>2. PICK j \in 1..Len(H(shared[b])) : H(shared[b])[j] = fs[i]
      BY <2>3, <2>4, IsSeqProperties
    <3> QED
      BY <3>1, <3>2
  <2> QED
    BY <1>3, <2>1, <2>3, <2>5
<1>13. ASSUME NEW g \in 1..Len(G)
       PROVE  /\ IsSeq(G[g]) /\ Len(G[g]) >= 1
              /\ \E key : /\ \A x \in ToSet(G[g]) : \E i \in 1..n : x = fs[i] /\ keys[i] = key
                          /\ key = {} => Len(G[g]) = 1
  <2>1. CASE g \in 1..Len(alone)
    <3>1. IsSeq(G[g]) /\ Len(G[g]) = 1 /\ ToSet(G[g]) = {alone[g]}
      BY <1>11, <2>1
    <3>2. \E i \in 1..n : keys[i] = {} /\ alone[g] = fs[i]
      BY <1>11, <2>1
    <3> QED
      BY <3>1, <3>2
  <2>2. ASSUME NEW b \in 1..Len(shared), G[g] = H(shared[b])
        PROVE  /\ IsSeq(G[g]) /\ Len(G[g]) >= 1
               /\ \E key : /\ \A x \in ToSet(G[g]) : \E i \in 1..n : x = fs[i] /\ keys[i] = key
                           /\ key = {} => Len(G[g]) = 1
    <3>1. \A x \in ToSet(G[g]) : \E i \in 1..n : x = fs[i] /\ keys[i] = shared[b]
      BY <1>12, <2>2
    <3> QED
      BY <1>12, <2>2, <3>1
  <2> QED
    BY <1>10, <2>1, <2>2
<1>14. ASSUME NEW x \in ToSet(fs)
       PROVE  \E g \in 1..Len(G) : x \in ToSet(G[g])
  <2>1. PICK i \in 1..n : fs[i] = x
    BY IsSeqProperties
  <2>2. CASE keys[i] = {}
    <3>1. x \in ToSet(alone)
      BY <1>4, <2>1, <2>2 DEF Chosen
    <3>2. PICK a \in 1..Len(alone) : alone[a] = x
      BY <1>5, <3>1, IsSeqProperties
    <3>3. a \in 1..Len(G) /\ x \in ToSet(G[a])
      <4>1. a \in 1..Len(G)
        BY <1>5, <1>6, <1>9
      <4> QED
        BY <1>11, <3>2, <4>1
    <3> QED
      BY <3>3
  <2>3. CASE keys[i] # {}
    <3>1. keys[i] \in ToSet(shared)
      BY <1>3, <2>3
    <3>2. PICK b \in 1..Len(shared) : shared[b] = keys[i]
      BY <1>3, <3>1, IsSeqProperties
    <3>3. x \in ToSet(H(shared[b]))
      BY <1>12, <2>1, <3>2
    <3>4. Len(alone) + b \in 1..Len(G)
      BY <1>5, <1>6, <1>9
    <3> QED
      BY <1>9, <3>3, <3>4
  <2> QED
    BY <2>2, <2>3
<1>15. ASSUME NEW R,
              \A i, k \in 1..n : i # k /\ keys[i] = keys[k] /\ keys[i] # {}
                                 => <<fs[i], fs[k]>> \in R,
              NEW g \in 1..Len(G)
       PROVE  Apart(G[g], R)
  <2>1. ASSUME NEW b \in 1..Len(shared)
        PROVE  Apart(H(shared[b]), R)
    <3>1. \A i, k \in I(shared[b]) : i < k => <<fs[i], fs[k]>> \in R
      BY <1>12, <1>15
    <3> QED
      BY <1>2, <3>1 DEF Chosen
  <2>2. CASE g \in 1..Len(alone)
    BY <1>11, <2>2
  <2> QED
    BY <1>10, <2>1, <2>2
<1>16. ASSUME NEW R,
              \A i, k \in 1..n : i # k /\ (keys[i] # keys[k] \/ keys[i] = {})
                                 => <<fs[i], fs[k]>> \in R,
              NEW g \in 1..Len(G), NEW h \in 1..Len(G), g < h,
              NEW x \in ToSet(G[g]), NEW y \in ToSet(G[h])
       PROVE  <<x, y>> \in R
  <2>1. CASE h \in 1..Len(alone)
    <3>1. g \in 1..Len(alone)
      BY <1>5, <1>9, <1>16, <2>1
    <3>2. x = alone[g] /\ y = alone[h]
      <4>1. ToSet(G[g]) = {alone[g]}
        BY <1>11, <3>1
      <4>2. ToSet(G[h]) = {alone[h]}
        BY <1>11, <2>1
      <4> QED
        BY <4>1, <4>2
    <3>3. \A i, k \in I({}) : i < k => <<fs[i], fs[k]>> \in R
      BY <1>16
    <3>4. Apart(alone, R)
      BY <1>4, <3>3 DEF Chosen
    <3> QED
      BY <1>16, <2>1, <3>1, <3>2, <3>4 DEF Apart
  <2>2. ASSUME NEW b \in 1..Len(shared), h = Len(alone) + b, G[h] = H(shared[b])
        PROVE  <<x, y>> \in R
    <3>1. PICK k \in 1..n : keys[k] = shared[b] /\ y = fs[k]
      BY <1>12, <2>2
    <3>2. shared[b] # {}
      BY <1>12
    <3>3. PICK i \in 1..n : keys[i] # shared[b] /\ x = fs[i]
      <4>1. CASE g \in 1..Len(alone)
        <5>1. x = alone[g] /\ \E i \in 1..n : keys[i] = {} /\ alone[g] = fs[i]
          BY <1>11, <4>1, ZenonT(40)
        <5> QED
          BY <3>2, <5>1
      <4>2. ASSUME NEW a \in 1..Len(shared), g = Len(alone) + a, G[g] = H(shared[a])
            PROVE  \E i \in 1..n : keys[i] # shared[b] /\ x = fs[i]
        <5>1. a < b
          BY <1>5, <1>16, <2>2, <4>2
        <5>2. shared[a] # shared[b]
          BY <1>3, <5>1
        <5>3. x \in {fs[i] : i \in I(shared[a])}
          BY <1>12, <4>2
        <5> QED
          BY <5>2, <5>3
      <4> QED
        BY <1>10, <4>1, <4>2
    <3> QED
      BY <1>16, <3>1, <3>3
  <2> QED
    BY <1>10, <2>1, <2>2
<1> HIDE DEF n
<1>17. GroupsOf(G, fs, keys)
  BY <1>9, <1>13, <1>14, <1>15, <1>16 DEF GroupsOf, n
<1> QED
  BY <1>1, <1>17

-----------------------------------------------------------------------------
(* Findings.                                                               *)

Fields == {"sev", "cat", "res", "sym", "kw", "sig", "host", "on", "about", "grouped"}

\* What holds of every finding, grouped or not: it names its resource, a
\* keyword comes with a critical pod, a failed build is critical, and only an
\* event knows its host.
Good(f) ==
    /\ DOMAIN f = Fields
    /\ f.res \in f.about
    /\ f.kw # "" => f.sev = "critical" /\ Len(f.res) = 2
    /\ f.cat = "jenkins_failed_build" => f.sev = "critical"
    /\ f.host # "" => f.cat = "k8s_event"

Goods(fs) == IsSeq(fs) /\ \A f \in ToSet(fs) : Good(f)

\* g is f, but for the resources it names beside f's.
Alike(g, f) ==
    /\ g.sev = f.sev /\ g.cat = f.cat /\ g.res = f.res /\ g.sym = f.sym
    /\ f.about \subseteq g.about

Weighs(g, f) == SeverityWeight(g.sev) >= SeverityWeight(f.sev)
Covers(g, f) == Weighs(g, f) /\ f.about \subseteq g.about

\* m is a finding of a pool, of the severity of f, which is one of its agents.
Pooled(m, f) ==
    /\ AgentKey(f) # {}
    /\ m.sev = f.sev /\ m.res = <<f.res[1], Pool(f.res)>>

LEMMA WeightType == \A sev : SeverityWeight(sev) \in {5, 20, 50}
  BY DEF SeverityWeight

LEMMA KeyedSame ==
    ASSUME NEW f, NEW g, AgentKey(f) = AgentKey(g), AgentKey(f) # {}
    PROVE  /\ f.cat = "jenkins_agent" /\ g.cat = "jenkins_agent"
           /\ ~f.grouped /\ ~g.grouped
           /\ Pool(f.res) = Pool(g.res) /\ f.sym[1] = g.sym[1] /\ f.sev = g.sev
<1>1. AgentKey(f) = {<<Pool(f.res), f.sym[1], f.sev>>} /\ f.cat = "jenkins_agent" /\ ~f.grouped
  BY DEF AgentKey
<1>2. AgentKey(g) = {<<Pool(g.res), g.sym[1], g.sev>>} /\ g.cat = "jenkins_agent" /\ ~g.grouped
  BY DEF AgentKey
<1>3. <<Pool(f.res), f.sym[1], f.sev>> = <<Pool(g.res), g.sym[1], g.sev>>
  BY <1>1, <1>2
<1> QED
  BY <1>1, <1>2, <1>3

\* The finding made of a group that shares a key.
LEMMA MergeGroupProperties ==
    ASSUME NEW group, IsSeq(group), Len(group) >= 1, \A f \in ToSet(group) : Good(f),
           NEW key, key # {}, \A f \in ToSet(group) : AgentKey(f) = key
    PROVE  /\ Good(MergeGroup(group)) /\ AgentKey(MergeGroup(group)) = {}
           /\ Pooled(MergeGroup(group), group[1]) /\ group[1] \in ToSet(group)
           /\ \A f \in ToSet(group) : Covers(MergeGroup(group), f)
<1> DEFINE p == group[1]
           m == MergeGroup(group)
           r == <<p.res[1], Pool(p.res)>>
<1>1. p \in ToSet(group) /\ DOMAIN group = 1..Len(group)
  BY IsSeqProperties
<1>2. Good(p) /\ AgentKey(p) = key
  BY <1>1
<1>3. DOMAIN p = Fields
  BY <1>2 DEF Good
<1> DEFINE sym == <<"N agents">> \o p.sym
           kw == IF p.sym[1] = p.kw THEN p.kw ELSE ""
           about == About(group) \cup {r}
<1>a. m = [p EXCEPT !.res = r, !.sym = sym, !.grouped = TRUE, !.kw = kw, !.about = about]
  BY DEF MergeGroup
<1>b. kw \in {p.kw, ""}
  OBVIOUS
<1> HIDE DEF m, kw, sym, about, r
<1>4. /\ DOMAIN m = Fields
      /\ m.sev = p.sev /\ m.cat = p.cat /\ m.host = p.host /\ m.res = r
      /\ m.about = about /\ m.grouped = TRUE /\ m.kw = kw
  BY <1>3, <1>a DEF Fields
<1>5. Len(r) = 2
  BY DEF r
<1>6. Good(m)
  BY <1>2, <1>4, <1>5, <1>b DEF Good, about
<1>7. AgentKey(m) = {}
  BY <1>4 DEF AgentKey
<1>8. ASSUME NEW f \in ToSet(group) PROVE Covers(m, f)
  <2>1. f.sev = p.sev
    BY <1>1, <1>2, KeyedSame
  <2>2. PICK i \in DOMAIN group : group[i] = f
    BY <1>1, IsSeqProperties
  <2>3. f.about \subseteq About(group)
    BY <2>2 DEF About
  <2>4. SeverityWeight(f.sev) \in {5, 20, 50}
    BY WeightType
  <2> QED
    BY <1>4, <2>1, <2>3, <2>4 DEF Covers, Weighs, about
<1>9. Pooled(m, p)
  BY <1>2, <1>4 DEF Pooled, r
<1> QED
  BY <1>1, <1>6, <1>7, <1>8, <1>9 DEF m

-----------------------------------------------------------------------------
(* The grouping of the agents' findings.                                   *)

\* A sequence of one element keeps apart whatever one likes.
LEMMA SingleApart ==
    ASSUME NEW s, IsSeq(s), Len(s) = 1
    PROVE  ToSet(s) = {s[1]} /\ \A R : Apart(s, R)
<1>1. ToSet(s) = {s[1]}
  <2>1. \A x \in ToSet(s) : \E i \in 1..1 : s[i] = x
    BY IsSeqProperties
  <2>2. 1 \in 1..Len(s)
    OBVIOUS
  <2>3. s[1] \in ToSet(s)
    BY <2>2, IsSeqProperties
  <2> QED
    BY <2>1, <2>3
<1> QED
  BY <1>1 DEF Apart

\* No two agents' findings that are not grouped share a key.
Unshared(x, y) == AgentKey(x) = {} \/ AgentKey(x) # AgentKey(y)
KeysApart(fs) == \A i, k \in 1..Len(fs) : i < k => Unshared(fs[i], fs[k])

AgentGroups(fs) == Groups(fs, [i \in DOMAIN fs |-> AgentKey(fs[i])])

LEMMA AgentGroupsProperties ==
    ASSUME NEW fs, IsSeq(fs)
    PROVE  LET G == AgentGroups(fs) IN
           /\ IsSeq(G)
           /\ \A g \in 1..Len(G) :
                /\ IsSeq(G[g]) /\ Len(G[g]) >= 1 /\ ToSet(G[g]) \subseteq ToSet(fs)
                /\ \E key : /\ \A x \in ToSet(G[g]) : AgentKey(x) = key
                            /\ key = {} => Len(G[g]) = 1
           /\ \A x \in ToSet(fs) : \E g \in 1..Len(G) : x \in ToSet(G[g])
           /\ \A g, h \in 1..Len(G) : g < h =>
                \A x \in ToSet(G[g]), y \in ToSet(G[h]) : Unshared(x, y)
           /\ KeysApart(fs) => \A g \in 1..Len(G) : Len(G[g]) = 1
           /\ \A R : (\A i, k \in 1..Len(fs) : i # k => <<fs[i], fs[k]>> \in R)
                     => \A g, h \in 1..Len(G) : g < h =>
                          \A x \in ToSet(G[g]), y \in ToSet(G[h]) : <<x, y>> \in R
<1> DEFINE n == Len(fs)
           keys == [i \in DOMAIN fs |-> AgentKey(fs[i])]
           G == AgentGroups(fs)
           R0 == {q \in ToSet(fs) \X ToSet(fs) : Unshared(q[1], q[2])}
<1>1. /\ n \in Nat /\ DOMAIN fs = 1..n
      /\ \A i \in 1..n : fs[i] \in ToSet(fs) /\ keys[i] = AgentKey(fs[i])
  BY IsSeqProperties
<1>2. GroupsOf(G, fs, keys)
  BY GroupsProperties DEF AgentGroups
<1> HIDE DEF G, keys, n
<1>3. /\ IsSeq(G)
      /\ \A g \in 1..Len(G) :
           /\ IsSeq(G[g]) /\ Len(G[g]) >= 1
           /\ \E key : /\ \A x \in ToSet(G[g]) : \E i \in 1..n : x = fs[i] /\ keys[i] = key
                       /\ key = {} => Len(G[g]) = 1
      /\ \A x \in ToSet(fs) : \E g \in 1..Len(G) : x \in ToSet(G[g])
      /\ \A R : (\A i, k \in 1..n : i # k /\ keys[i] = keys[k] /\ keys[i] # {}
                                    => <<fs[i], fs[k]>> \in R)
                => \A g \in 1..Len(G) : Apart(G[g], R)
      /\ \A R : (\A i, k \in 1..n : i # k /\ (keys[i] # keys[k] \/ keys[i] = {})
                                    => <<fs[i], fs[k]>> \in R)
                => \A g, h \in 1..Len(G) : g < h =>
                     \A x \in ToSet(G[g]), y \in ToSet(G[h]) : <<x, y>> \in R
  BY <1>2 DEF GroupsOf, n
<1>4. ASSUME NEW g \in 1..Len(G)
      PROVE  /\ IsSeq(G[g]) /\ Len(G[g]) >= 1 /\ ToSet(G[g]) \subseteq ToSet(fs)
             /\ \E key : /\ \A x \in ToSet(G[g]) : AgentKey(x) = key
                         /\ key = {} => Len(G[g]) = 1
  <2>1. IsSeq(G[g]) /\ Len(G[g]) >= 1
    BY <1>3
  <2>2. PICK key : /\ \A x \in ToSet(G[g]) : \E i \in 1..n : x = fs[i] /\ keys[i] = key
                   /\ key = {} => Len(G[g]) = 1
    BY <1>3
  <2>3. \A x \in ToSet(G[g]) : x \in ToSet(fs) /\ AgentKey(x) = key
    BY <1>1, <2>2
  <2> QED
    BY <2>1, <2>2, <2>3
<1>5. ASSUME NEW g \in 1..Len(G), NEW h \in 1..Len(G), g < h,
             NEW x \in ToSet(G[g]), NEW y \in ToSet(G[h])
      PROVE  Unshared(x, y)
  <2>1. ASSUME NEW i \in 1..n, NEW k \in 1..n, i # k, keys[i] # keys[k] \/ keys[i] = {}
        PROVE  <<fs[i], fs[k]>> \in R0
    <3>1. /\ fs[i] \in ToSet(fs) /\ fs[k] \in ToSet(fs)
          /\ keys[i] = AgentKey(fs[i]) /\ keys[k] = AgentKey(fs[k])
      BY <1>1
    <3> QED
      BY <2>1, <3>1 DEF Unshared
  <2>2. <<x, y>> \in R0
    BY <1>3, <1>5, <2>1
  <2> QED
    BY <2>2
<1>6. ASSUME KeysApart(fs), NEW g \in 1..Len(G) PROVE Len(G[g]) = 1
  <2>1. ASSUME NEW i \in 1..n, NEW k \in 1..n, i # k, keys[i] = keys[k], keys[i] # {}
        PROVE  FALSE
    <3>1. AgentKey(fs[i]) = AgentKey(fs[k]) /\ AgentKey(fs[i]) # {}
      BY <1>1, <2>1
    <3>2. i < k \/ k < i
      BY <1>1, <2>1
    <3> QED
      BY <1>6, <3>1, <3>2 DEF KeysApart, Unshared, n
  <2>2. Apart(G[g], {})
    BY <1>3, <2>1
  <2>3. Len(G[g]) \in Nat /\ Len(G[g]) >= 1
    BY <1>3, IsSeqProperties
  <2>4. ~(Len(G[g]) > 1)
    <3> SUFFICES ASSUME Len(G[g]) > 1 PROVE FALSE
      OBVIOUS
    <3>1. 1 \in 1..Len(G[g]) /\ 2 \in 1..Len(G[g])
      BY <2>3
    <3> QED
      BY <2>2, <3>1 DEF Apart
  <2> DEFINE l == Len(G[g])
  <2> HIDE DEF l
  <2>5. l \in Nat /\ l >= 1 /\ ~(l > 1)
    BY <2>3, <2>4 DEF l
  <2>6. l = 1
    BY <2>5
  <2> QED
    BY <2>6 DEF l
<1> QED
  BY <1>3, <1>4, <1>5, <1>6 DEF G, n

\* What one group gives: its only member, or the finding made of it.
LEMMA GroupAgentFindingsProperties ==
    ASSUME NEW fs, Goods(fs)
    PROVE  LET out == GroupAgentFindings(fs) IN
           /\ Goods(out) /\ KeysApart(out)
           /\ \A f \in ToSet(fs) : \E m \in ToSet(out) :
                \/ m = f
                \/ Covers(m, f) /\ \E p \in ToSet(fs) : AgentKey(p) = AgentKey(f) /\ Pooled(m, p)
           /\ \A m \in ToSet(out) : \E f \in ToSet(fs) : m = f \/ Pooled(m, f)
<1> DEFINE out == GroupAgentFindings(fs)
           G == AgentGroups(fs)
           ss == [g \in DOMAIN G |-> IF Len(G[g]) = 1 THEN G[g] ELSE <<MergeGroup(G[g])>>]
           From(m, g) == \/ ToSet(G[g]) = {m}
                         \/ /\ AgentKey(m) = {}
                            /\ \E p \in ToSet(G[g]) :
                                 /\ Pooled(m, p)
                                 /\ \A f \in ToSet(G[g]) :
                                      Covers(m, f) /\ AgentKey(p) = AgentKey(f)
<1>1. out = FlattenSeq(ss)
  BY DEF GroupAgentFindings, Each, AgentGroups
<1>2. IsSeq(fs)
  BY DEF Goods
<1>3. /\ IsSeq(G)
      /\ \A g \in 1..Len(G) :
           /\ IsSeq(G[g]) /\ Len(G[g]) >= 1 /\ ToSet(G[g]) \subseteq ToSet(fs)
           /\ \E key : /\ \A x \in ToSet(G[g]) : AgentKey(x) = key
                       /\ key = {} => Len(G[g]) = 1
      /\ \A x \in ToSet(fs) : \E g \in 1..Len(G) : x \in ToSet(G[g])
      /\ \A g, h \in 1..Len(G) : g < h =>
           \A x \in ToSet(G[g]), y \in ToSet(G[h]) : Unshared(x, y)
  BY <1>2, AgentGroupsProperties
<1> HIDE DEF G
<1>4. IsSeq(ss) /\ Len(ss) = Len(G) /\ DOMAIN G = 1..Len(G) /\ Len(G) \in Nat
  <2>1. DOMAIN G = 1..Len(G) /\ Len(G) \in Nat
    BY <1>3, IsSeqProperties
  <2>2. ss = [g \in 1..Len(G) |-> ss[g]]
    BY <2>1
  <2> HIDE DEF ss
  <2> QED
    BY <2>1, <2>2, FunctionIsSeq
<1>5. ASSUME NEW g \in 1..Len(G)
      PROVE  /\ IsSeq(ss[g]) /\ \A R : Apart(ss[g], R)
             /\ \E m : ToSet(ss[g]) = {m} /\ Good(m) /\ From(m, g)
  <2>1. CASE Len(G[g]) = 1
    <3>1. ss[g] = G[g]
      BY <1>4, <2>1
    <3>2. ToSet(G[g]) = {G[g][1]} /\ \A R : Apart(G[g], R)
      BY <1>3, <2>1, SingleApart
    <3>3. Good(G[g][1])
      BY <1>3, <3>2 DEF Goods
    <3> QED
      BY <1>3, <3>1, <3>2, <3>3
  <2>2. CASE Len(G[g]) # 1
    <3> DEFINE m == MergeGroup(G[g])
    <3>1. ss[g] = <<m>>
      BY <1>4, <2>2
    <3>2. PICK key : \A x \in ToSet(G[g]) : AgentKey(x) = key
      BY <1>3
    <3>3. key # {}
      <4>1. G[g][1] \in ToSet(G[g])
        BY <1>3, IsSeqProperties
      <4> QED
        BY <1>3, <2>2, <3>2, <4>1
    <3>4. \A f \in ToSet(G[g]) : Good(f)
      BY <1>3 DEF Goods
    <3>5. /\ Good(m) /\ AgentKey(m) = {}
          /\ Pooled(m, G[g][1]) /\ G[g][1] \in ToSet(G[g])
          /\ \A f \in ToSet(G[g]) : Covers(m, f)
      BY <1>3, <3>2, <3>3, <3>4, MergeGroupProperties
    <3> HIDE DEF m
    <3>6. IsSeq(<<m>>) /\ ToSet(<<m>>) = {m} /\ \A R : Apart(<<m>>, R)
      BY OneIsSeq
    <3> QED
      BY <3>1, <3>2, <3>5, <3>6
  <2> QED
    BY <2>1, <2>2
<1> HIDE DEF ss, From
<1>6. /\ IsSeq(out)
      /\ ToSet(out) = UNION {ToSet(ss[g]) : g \in 1..Len(G)}
      /\ \A R : (\A g, h \in 1..Len(G) : g < h =>
                   \A x \in ToSet(ss[g]), y \in ToSet(ss[h]) : <<x, y>> \in R)
                => Apart(out, R)
  BY <1>1, <1>4, <1>5, FlattenProperties
<1>7. \A m \in ToSet(out) : \E g \in 1..Len(G) : Good(m) /\ From(m, g)
  <2> SUFFICES ASSUME NEW g \in 1..Len(G), NEW m \in ToSet(ss[g])
               PROVE  Good(m) /\ From(m, g)
    BY <1>6
  <2> QED
    BY <1>5
<1>8. Goods(out)
  BY <1>6, <1>7 DEF Goods
<1>9. KeysApart(out)
  <2> DEFINE R == {q \in ToSet(out) \X ToSet(out) : Unshared(q[1], q[2])}
  <2>1. ASSUME NEW g \in 1..Len(G), NEW h \in 1..Len(G), g < h,
               NEW x \in ToSet(ss[g]), NEW y \in ToSet(ss[h])
        PROVE  <<x, y>> \in R
    <3>1. x \in ToSet(out) /\ y \in ToSet(out)
      BY <1>6
    <3>2. From(x, g) /\ From(y, h)
      BY <1>5
    <3>3. Unshared(x, y)
      BY <1>3, <2>1, <3>2 DEF From, Unshared
    <3> QED
      BY <3>1, <3>3
  <2>2. Apart(out, R)
    BY <1>6, <2>1
  <2> QED
    BY <2>2 DEF Apart, KeysApart
<1>10. ASSUME NEW f \in ToSet(fs)
       PROVE  \E m \in ToSet(out) :
                \/ m = f
                \/ Covers(m, f) /\ \E p \in ToSet(fs) : AgentKey(p) = AgentKey(f) /\ Pooled(m, p)
  <2>1. PICK g \in 1..Len(G) : f \in ToSet(G[g])
    BY <1>3
  <2>2. PICK m : m \in ToSet(ss[g]) /\ From(m, g)
    BY <1>5
  <2>3. m \in ToSet(out)
    BY <1>6, <2>2
  <2>4. ToSet(G[g]) \subseteq ToSet(fs)
    BY <1>3
  <2> QED
    BY <2>1, <2>2, <2>3, <2>4 DEF From
<1>11. ASSUME NEW m \in ToSet(out)
       PROVE  \E f \in ToSet(fs) : m = f \/ Pooled(m, f)
  <2>1. PICK g \in 1..Len(G) : From(m, g)
    BY <1>7
  <2>2. ToSet(G[g]) \subseteq ToSet(fs)
    BY <1>3
  <2> QED
    BY <2>1, <2>2 DEF From
<1> HIDE DEF out
<1> QED
  BY <1>8, <1>9, <1>10, <1>11 DEF out

\* Findings whose keys are apart come out as they went in.
LEMMA RegroupProperties ==
    ASSUME NEW fs, IsSeq(fs), KeysApart(fs)
    PROVE  LET out == GroupAgentFindings(fs) IN
           /\ IsSeq(out) /\ ToSet(out) = ToSet(fs)
           /\ \A R : (\A i, k \in 1..Len(fs) : i # k => <<fs[i], fs[k]>> \in R)
                     => Apart(out, R)
<1> DEFINE out == GroupAgentFindings(fs)
           G == AgentGroups(fs)
           ss == [g \in DOMAIN G |-> IF Len(G[g]) = 1 THEN G[g] ELSE <<MergeGroup(G[g])>>]
<1>1. out = FlattenSeq(ss)
  BY DEF GroupAgentFindings, Each, AgentGroups
<1>2. /\ IsSeq(G)
      /\ \A g \in 1..Len(G) :
           IsSeq(G[g]) /\ ToSet(G[g]) \subseteq ToSet(fs) /\ Len(G[g]) = 1
      /\ \A x \in ToSet(fs) : \E g \in 1..Len(G) : x \in ToSet(G[g])
      /\ \A R : (\A i, k \in 1..Len(fs) : i # k => <<fs[i], fs[k]>> \in R)
                => \A g, h \in 1..Len(G) : g < h =>
                     \A x \in ToSet(G[g]), y \in ToSet(G[h]) : <<x, y>> \in R
  BY AgentGroupsProperties
<1> HIDE DEF G
<1>3. DOMAIN G = 1..Len(G) /\ G = [g \in 1..Len(G) |-> G[g]]
  BY <1>2, IsSeqProperties
<1>4. ss = G
  BY <1>2, <1>3
<1> HIDE DEF ss, out
<1>a. out = FlattenSeq(G)
  BY <1>1, <1>4
<1>5. \A g \in 1..Len(G) : \A R : Apart(G[g], R)
  BY <1>2, SingleApart
<1>6. /\ IsSeq(out)
      /\ ToSet(out) = UNION {ToSet(G[g]) : g \in 1..Len(G)}
      /\ \A R : (\A g, h \in 1..Len(G) : g < h =>
                   \A x \in ToSet(G[g]), y \in ToSet(G[h]) : <<x, y>> \in R)
                => Apart(out, R)
  BY <1>2, <1>5, <1>a, FlattenProperties
<1>7. ToSet(out) = ToSet(fs)
  BY <1>2, <1>6
<1> QED
  BY <1>2, <1>6, <1>7 DEF out
-----------------------------------------------------------------------------
(* Dedupe.                                                                 *)

ResourcesApart(fs) == \A i, k \in 1..Len(fs) : i # k => fs[i].res # fs[k].res

LEMMA ResourcesApartSet ==
    ASSUME NEW fs, IsSeq(fs), ResourcesApart(fs),
           NEW f \in ToSet(fs), NEW g \in ToSet(fs), f.res = g.res
    PROVE  f = g
<1>1. PICK i \in 1..Len(fs) : fs[i] = f
  BY IsSeqProperties
<1>2. PICK k \in 1..Len(fs) : fs[k] = g
  BY IsSeqProperties
<1> QED
  BY <1>1, <1>2 DEF ResourcesApart

\* Kept apart by a set of pairs of different resources.
LEMMA ApartResources ==
    ASSUME NEW fs, NEW S, IsSeq(fs), ToSet(fs) \subseteq S,
           Apart(fs, {q \in S \X S : q[1].res # q[2].res})
    PROVE  ResourcesApart(fs)
<1> DEFINE R == {q \in S \X S : q[1].res # q[2].res}
<1>1. Len(fs) \in Nat
  BY IsSeqProperties
<1>2. \A i, k \in 1..Len(fs) : i < k => fs[i].res # fs[k].res
  <2> SUFFICES ASSUME NEW i \in 1..Len(fs), NEW k \in 1..Len(fs), i < k
               PROVE  fs[i].res # fs[k].res
    OBVIOUS
  <2>1. <<fs[i], fs[k]>> \in R
    BY DEF Apart
  <2> QED
    BY <2>1
<1>3. ASSUME NEW i \in 1..Len(fs), NEW k \in 1..Len(fs), i # k
      PROVE  i < k \/ k < i
  BY <1>1, <1>3
<1> QED
  BY <1>2, <1>3 DEF ResourcesApart

\* One finding is left of each resource, and none there was heavier.
LEMMA PerResourceProperties ==
    ASSUME NEW fs, IsSeq(fs)
    PROVE  LET kept == PerResource(fs) IN
           /\ IsSeq(kept) /\ ToSet(kept) \subseteq ToSet(fs)
           /\ ResourcesApart(kept)
           /\ \A f \in ToSet(fs) : \E g \in ToSet(kept) : g.res = f.res /\ Weighs(g, f)
<1> DEFINE n == Len(fs)
           w == [k \in 1..n |-> SeverityWeight(fs[k].sev)]
           On(i) == {k \in DOMAIN fs : fs[k].res = fs[i].res}
           Worst(I) == {i \in I : \A k \in I :
                           SeverityWeight(fs[k].sev) <= SeverityWeight(fs[i].sev)}
           e == [i \in 1..n |-> fs[Min(Worst(On(i)))]]
           I == {i \in 1..n : i = Min(On(i))}
           kept == PerResource(fs)
           ss == [i \in DOMAIN fs |-> When(i = Min(On(i)), fs[Min(Worst(On(i)))])]
<1>1. n \in Nat /\ DOMAIN fs = 1..n /\ \A i \in 1..n : fs[i] \in ToSet(fs)
  BY IsSeqProperties
<1>2. kept = FlattenSeq(ss)
  BY DEF PerResource
<1>3. \A i \in 1..n : ss[i] = IF i \in I THEN <<e[i]>> ELSE <<>>
  BY <1>1 DEF When
<1>4. ss = [i \in 1..n |-> ss[i]]
  BY <1>1
<1>5. \A i \in 1..n : On(i) \in SUBSET Nat /\ On(i) \subseteq 1..n /\ i \in On(i)
  BY <1>1
<1>6. ASSUME NEW i \in 1..n
      PROVE  /\ e[i] \in ToSet(fs) /\ e[i].res = fs[i].res
             /\ \A k \in On(i) : Weighs(e[i], fs[k])
  <2>1. \A k \in On(i) : w[k] \in 0..50
    BY <1>5, WeightType
  <2>2. PICK j \in On(i) : \A k \in On(i) : w[k] <= w[j]
    <3> HIDE DEF On, w
    <3> QED
      BY <1>5, <2>1, HeaviestExists
  <2>3. \A k \in On(i) : w[k] = SeverityWeight(fs[k].sev)
    BY <1>5
  <2>4. j \in Worst(On(i)) /\ Worst(On(i)) \subseteq On(i)
    <3> HIDE DEF On, w
    <3> QED
      BY <2>2, <2>3
  <2>5. Min(Worst(On(i))) \in Worst(On(i))
    <3>1. Worst(On(i)) \in SUBSET Nat /\ Worst(On(i)) # {}
      <4> HIDE DEF On, Worst
      <4> QED
        BY <1>5, <2>4
    <3> HIDE DEF On, Worst
    <3> QED
      BY <3>1, MinProperties
  <2> DEFINE m == Min(Worst(On(i)))
  <2>6. e[i] = fs[m]
    OBVIOUS
  <2> HIDE DEF m, e, w
  <2>7. m \in On(i) /\ \A k \in On(i) : SeverityWeight(fs[k].sev) <= SeverityWeight(fs[m].sev)
    BY <2>5 DEF m
  <2>8. m \in 1..n /\ fs[m].res = fs[i].res
    BY <1>1, <2>7
  <2>9. \A k \in On(i) : Weighs(fs[m], fs[k])
    BY <2>7, WeightType DEF Weighs
  <2> QED
    BY <1>1, <2>6, <2>8, <2>9
<1>7. ASSUME NEW i \in 1..n
      PROVE  Min(On(i)) \in I /\ fs[Min(On(i))].res = fs[i].res
  <2> DEFINE m == Min(On(i))
  <2>1. m \in On(i) /\ \A k \in On(i) : m <= k
    <3> HIDE DEF On
    <3> QED
      BY <1>5, MinProperties
  <2> HIDE DEF m
  <2>2. m \in 1..n /\ fs[m].res = fs[i].res
    BY <1>1, <2>1
  <2>3. On(m) = On(i)
    BY <2>2
  <2>4. Min(On(m)) = m
    <3> HIDE DEF On
    <3> QED
      BY <2>3 DEF m
  <2> HIDE DEF On
  <2> QED
    BY <2>2, <2>4 DEF m
<1>8. \A i, k \in I : i # k => fs[i].res # fs[k].res
  <2> SUFFICES ASSUME NEW i \in I, NEW k \in I, fs[i].res = fs[k].res PROVE i = k
    OBVIOUS
  <2>1. On(i) = On(k)
    OBVIOUS
  <2>2. i = Min(On(i)) /\ k = Min(On(k))
    OBVIOUS
  <2> HIDE DEF On
  <2> QED
    BY <2>1, <2>2
<1>9. I \in SUBSET (1..n)
  OBVIOUS
<1>10. \A i \in 1..n : \A k \in 1..n : fs[k].res = fs[i].res => k \in On(i)
  BY <1>1
<1> HIDE DEF On, e, I, Worst, w
<1>11. IsSeq(ss) /\ Len(ss) = n
  <2> HIDE DEF ss, n
  <2> QED
    BY <1>1, <1>4, FunctionIsSeq
<1> HIDE DEF ss, n
<1>12. Chosen(FlattenSeq(ss), e, I)
  BY <1>1, <1>3, <1>9, <1>11, FlattenChosen
<1> HIDE DEF kept
<1>13. IsSeq(kept) /\ ToSet(kept) = {e[i] : i \in I}
  BY <1>2, <1>12 DEF Chosen
<1>14. ToSet(kept) \subseteq ToSet(fs)
  BY <1>6, <1>9, <1>13
<1>15. ResourcesApart(kept)
  <2> DEFINE S == ToSet(fs)
             R == {q \in S \X S : q[1].res # q[2].res}
  <2>1. ASSUME NEW i \in I, NEW k \in I, i < k PROVE <<e[i], e[k]>> \in R
    <3>1. i \in 1..n /\ k \in 1..n /\ i # k
      BY <1>1, <1>9, <2>1
    <3>2. e[i].res # e[k].res
      BY <1>6, <1>8, <3>1
    <3> QED
      BY <1>6, <3>1, <3>2
  <2>2. Apart(kept, R)
    <3> HIDE DEF R
    <3> QED
      BY <1>2, <1>12, <2>1 DEF Chosen
  <2> HIDE DEF S
  <2> QED
    BY <1>13, <1>14, <2>2, ApartResources DEF S
<1>16. ASSUME NEW f \in ToSet(fs)
       PROVE  \E g \in ToSet(kept) : g.res = f.res /\ Weighs(g, f)
  <2>1. PICK k \in 1..n : fs[k] = f
    BY IsSeqProperties DEF n
  <2> DEFINE m == Min(On(k))
  <2>2. m \in I /\ fs[m].res = fs[k].res
    BY <1>7
  <2>3. m \in 1..n /\ k \in On(m)
    BY <1>9, <1>10, <2>2
  <2>4. e[m].res = fs[k].res /\ Weighs(e[m], fs[k]) /\ e[m] \in ToSet(kept)
    BY <1>6, <1>13, <2>2, <2>3
  <2> QED
    BY <2>1, <2>4
<1> QED
  BY <1>13, <1>14, <1>15, <1>16 DEF kept

\* What is picked out of s.
LEMMA FilterChosen ==
    ASSUME NEW s, IsSeq(s), NEW ss, NEW I \in SUBSET (1..Len(s)),
           ss = [i \in DOMAIN s |-> IF i \in I THEN <<s[i]>> ELSE <<>>]
    PROVE  Chosen(FlattenSeq(ss), s, I)
<1>1. Len(s) \in Nat /\ DOMAIN s = 1..Len(s)
  BY IsSeqProperties
<1>2. /\ ss = [i \in 1..Len(s) |-> ss[i]]
      /\ \A i \in 1..Len(s) : ss[i] = IF i \in I THEN <<s[i]>> ELSE <<>>
  BY <1>1
<1>3. IsSeq(ss) /\ Len(ss) = Len(s)
  BY <1>1, <1>2, FunctionIsSeq
<1> QED
  BY <1>2, <1>3, FlattenChosen

\* A part of s keeps apart what s does.
LEMMA ChosenKeysApart ==
    ASSUME NEW s, NEW t, NEW I, IsSeq(s), I \subseteq 1..Len(s), Chosen(t, s, I), KeysApart(s)
    PROVE  KeysApart(t)
<1> DEFINE R == {q \in ToSet(s) \X ToSet(s) : Unshared(q[1], q[2])}
<1>1. \A i \in I : i \in 1..Len(s) /\ s[i] \in ToSet(s)
  BY IsSeqProperties
<1>2. \A i, k \in I : i < k => <<s[i], s[k]>> \in R
  BY <1>1 DEF KeysApart
<1>3. Apart(t, R)
  <2> HIDE DEF R
  <2> QED
    BY <1>2 DEF Chosen
<1> QED
  BY <1>3 DEF Apart, KeysApart

LEMMA ChosenResourcesApart ==
    ASSUME NEW s, NEW t, NEW I, IsSeq(s), I \subseteq 1..Len(s), Chosen(t, s, I),
           ResourcesApart(s)
    PROVE  ResourcesApart(t)
<1> DEFINE S == ToSet(s)
           R == {q \in S \X S : q[1].res # q[2].res}
<1>1. \A i \in I : i \in 1..Len(s) /\ s[i] \in S
  BY IsSeqProperties
<1>2. \A i, k \in I : i < k => <<s[i], s[k]>> \in R
  <2> SUFFICES ASSUME NEW i \in I, NEW k \in I, i < k PROVE <<s[i], s[k]>> \in R
    OBVIOUS
  <2>1. i # k
    <3>1. i \in Int /\ k \in Int
      BY <1>1
    <3> QED
      BY <3>1
  <2>2. s[i].res # s[k].res
    BY <1>1, <2>1 DEF ResourcesApart
  <2> QED
    BY <1>1, <2>2
<1>3. Apart(t, R)
  <2> HIDE DEF R
  <2> QED
    BY <1>2 DEF Chosen
<1>4. IsSeq(t) /\ ToSet(t) \subseteq S
  BY <1>1 DEF Chosen
<1> HIDE DEF S
<1> QED
  BY <1>3, <1>4, ApartResources

LEMMA UndismissedProperties ==
    ASSUME NEW fs, Goods(fs), KeysApart(fs), NEW dis
    PROVE  LET out == Undismissed(fs, dis) IN
           /\ Goods(out) /\ KeysApart(out)
           /\ ToSet(out) = {f \in ToSet(fs) : Fingerprint(f) \notin dis}
<1> DEFINE out == Undismissed(fs, dis)
           I == {i \in 1..Len(fs) : Fingerprint(fs[i]) \notin dis}
           ss == [i \in DOMAIN fs |-> When(Fingerprint(fs[i]) \notin dis, fs[i])]
<1>0. IsSeq(fs)
  BY DEF Goods
<1>1. out = FlattenSeq(ss)
  BY DEF Undismissed, Each
<1>2. ss = [i \in DOMAIN fs |-> IF i \in I THEN <<fs[i]>> ELSE <<>>]
  BY <1>0, IsSeqProperties DEF When
<1>3. I \in SUBSET (1..Len(fs))
  OBVIOUS
<1>4. {fs[i] : i \in I} = {f \in ToSet(fs) : Fingerprint(f) \notin dis}
  BY <1>0, IsSeqProperties
<1> HIDE DEF ss, I, out
<1>5. Chosen(out, fs, I)
  BY <1>0, <1>1, <1>2, <1>3, FilterChosen
<1>6. KeysApart(out)
  BY <1>0, <1>3, <1>5, ChosenKeysApart
<1>7. IsSeq(out) /\ ToSet(out) = {f \in ToSet(fs) : Fingerprint(f) \notin dis}
  BY <1>4, <1>5 DEF Chosen
<1>8. Goods(out)
  BY <1>7 DEF Goods
<1> QED
  BY <1>6, <1>7, <1>8 DEF out

\* A keyword stands for a pod of its own, whose subject is its workload.
LEMMA SameWorkload ==
    ASSUME NEW r, NEW s, Len(r) = 2, Len(s) = 2, WorkloadKey(r) = WorkloadKey(s)
    PROVE  Subject(r) = Subject(s)
<1>1. <<r[1], Pool(r)>> = <<s[1], Pool(s)>>
  BY DEF WorkloadKey
<1>2. r[1] = s[1] /\ Pool(r) = Pool(s)
  BY <1>1
<1> QED
  BY <1>2 DEF Subject

LEMMA DeduplicateProperties ==
    ASSUME NEW fs, Goods(fs), KeysApart(fs)
    PROVE  LET out == Deduplicate(fs) IN
           /\ Goods(out) /\ KeysApart(out) /\ ResourcesApart(out)
           /\ ToSet(out) \subseteq ToSet(fs)
           /\ \A f \in ToSet(fs) : \E g \in ToSet(out) :
                Subject(g.res) = Subject(f.res) /\ Weighs(g, f)
<1> DEFINE kept == PerResource(fs)
           Under(f) == /\ f.kw = "CrashLoopBackOff"
                       /\ \E i \in DOMAIN kept : /\ kept[i].kw = "OOMKilled"
                                                 /\ WorkloadKey(kept[i].res) = WorkloadKey(f.res)
           I == {i \in 1..Len(kept) : ~Under(kept[i])}
           ss == [i \in DOMAIN kept |-> When(~Under(kept[i]), kept[i])]
           out == Deduplicate(fs)
<1>0. IsSeq(fs)
  BY DEF Goods
<1>1. /\ IsSeq(kept) /\ ToSet(kept) \subseteq ToSet(fs) /\ ResourcesApart(kept)
      /\ \A f \in ToSet(fs) : \E g \in ToSet(kept) : g.res = f.res /\ Weighs(g, f)
  BY <1>0, PerResourceProperties
<1>2. out = FlattenSeq(ss)
  BY DEF Deduplicate, Each
<1> HIDE DEF kept
<1>3. DOMAIN kept = 1..Len(kept)
  BY <1>1, IsSeqProperties
<1>4. ss = [i \in DOMAIN kept |-> IF i \in I THEN <<kept[i]>> ELSE <<>>]
  BY <1>3 DEF When
<1>5. I \in SUBSET (1..Len(kept))
  OBVIOUS
<1> HIDE DEF ss, out
<1>6. Chosen(out, kept, I)
  <2> HIDE DEF I
  <2> QED
    BY <1>1, <1>2, <1>4, <1>5, FilterChosen
<1>7. IsSeq(out) /\ ToSet(out) = {kept[i] : i \in I} /\ ToSet(out) \subseteq ToSet(kept)
  <2>1. \A i \in 1..Len(kept) : kept[i] \in ToSet(kept)
    BY <1>1, IsSeqProperties
  <2> QED
    BY <1>5, <1>6, <2>1 DEF Chosen
<1>8. Goods(out)
  BY <1>1, <1>7 DEF Goods
<1>9. ResourcesApart(out)
  <2> HIDE DEF I
  <2> QED
    BY <1>1, <1>5, <1>6, ChosenResourcesApart
<1>10. KeysApart(out)
  <2> SUFFICES ASSUME NEW a \in 1..Len(out), NEW b \in 1..Len(out), a < b
               PROVE  Unshared(out[a], out[b])
    BY DEF KeysApart
  <2>1. out[a] \in ToSet(fs) /\ out[b] \in ToSet(fs)
    BY <1>1, <1>7, IsSeqProperties
  <2>2. PICK i \in 1..Len(fs) : fs[i] = out[a]
    BY <1>0, <2>1, IsSeqProperties
  <2>3. PICK k \in 1..Len(fs) : fs[k] = out[b]
    BY <1>0, <2>1, IsSeqProperties
  <2>4. out[a].res # out[b].res
    <3>1. a # b
      OBVIOUS
    <3> QED
      BY <1>9, <3>1 DEF ResourcesApart
  <2>5. i < k \/ k < i
    <3>1. i # k
      BY <2>2, <2>3, <2>4
    <3>2. Len(fs) \in Nat
      BY <1>0, IsSeqProperties
    <3> QED
      BY <3>1, <3>2
  <2> QED
    BY <2>2, <2>3, <2>5 DEF KeysApart, Unshared
<1>11. ASSUME NEW f \in ToSet(fs)
       PROVE  \E g \in ToSet(out) : Subject(g.res) = Subject(f.res) /\ Weighs(g, f)
  <2>1. PICK g \in ToSet(kept) : g.res = f.res /\ Weighs(g, f)
    BY <1>1
  <2>2. PICK i \in 1..Len(kept) : kept[i] = g
    BY <1>1, IsSeqProperties
  <2>3. CASE ~Under(g)
    BY <1>7, <2>1, <2>2, <2>3
  <2>4. CASE Under(g)
    <3>1. PICK k \in 1..Len(kept) : /\ kept[k].kw = "OOMKilled"
                                    /\ WorkloadKey(kept[k].res) = WorkloadKey(g.res)
      BY <1>3, <2>4
    <3> DEFINE h == kept[k]
    <3>2. h \in ToSet(kept) /\ h \in ToSet(fs) /\ g \in ToSet(fs)
      BY <1>1, IsSeqProperties
    <3>3. Good(h) /\ Good(g)
      BY <3>2 DEF Goods
    <3>4. /\ h.sev = "critical" /\ Len(h.res) = 2 /\ Len(g.res) = 2
      BY <2>4, <3>1, <3>3 DEF Good
    <3>5. Subject(h.res) = Subject(g.res)
      BY <3>1, <3>4, SameWorkload
    <3>6. Weighs(h, f)
      <4>1. SeverityWeight(h.sev) = 50
        BY <3>4 DEF SeverityWeight
      <4> QED
        BY <4>1, WeightType DEF Weighs
    <3>7. h \in ToSet(out)
      BY <1>7, <3>1
    <3> QED
      BY <2>1, <3>5, <3>6, <3>7
  <2> QED
    BY <2>3, <2>4
<1> QED
  BY <1>1, <1>7, <1>8, <1>9, <1>10, <1>11 DEF out

-----------------------------------------------------------------------------
(* Correlation.                                                            *)

LEMMA ScoreType == \A f : PriorityScore(f) \in 0..150
<1>1. \A cat : CategoryWeight(cat) \in 30..100
  BY DEF CategoryWeight
<1> QED
  BY <1>1, WeightType DEF PriorityScore

\* A member of the highest score speaks for its group.
LEMMA LeadProperties ==
    ASSUME NEW group, IsSeq(group), Len(group) >= 1
    PROVE  \E p \in ToSet(group) :
             /\ Lead(group) = [p EXCEPT !.about = About(group)]
             /\ \A f \in ToSet(group) : /\ PriorityScore(f) <= PriorityScore(p)
                                        /\ f.about \subseteq About(group)
<1> DEFINE best == {i \in DOMAIN group :
                      \A k \in DOMAIN group : PriorityScore(group[k]) <= PriorityScore(group[i])}
           w == [i \in DOMAIN group |-> PriorityScore(group[i])]
           m == Min(best)
<1>1. /\ DOMAIN group = 1..Len(group) /\ Len(group) \in Nat
      /\ \A i \in DOMAIN group : group[i] \in ToSet(group)
      /\ \A f \in ToSet(group) : \E i \in DOMAIN group : group[i] = f
  BY IsSeqProperties
<1>2. DOMAIN group # {} /\ \A i \in DOMAIN group : w[i] \in 0..150
  <2>1. 1 \in DOMAIN group
    BY <1>1
  <2> QED
    BY <2>1, ScoreType
<1>3. \E i \in DOMAIN group : \A k \in DOMAIN group : w[k] <= w[i]
  <2> HIDE DEF w
  <2> QED
    BY <1>2, HeaviestExists, ZenonT(40)
<1>4. best # {} /\ best \in SUBSET Nat
  BY <1>1, <1>3
<1>5. m \in best
  <2> HIDE DEF best
  <2> QED
    BY <1>4, MinProperties
<1>6. Lead(group) = [group[m] EXCEPT !.about = About(group)]
  BY DEF Lead
<1> HIDE DEF m
<1>7. ASSUME NEW f \in ToSet(group)
      PROVE  PriorityScore(f) <= PriorityScore(group[m]) /\ f.about \subseteq About(group)
  <2>1. PICK i \in DOMAIN group : group[i] = f
    BY <1>1
  <2> QED
    BY <1>5, <2>1 DEF About
<1> QED
  BY <1>1, <1>5, <1>6, <1>7

\* The groups of findings of different resources.
LEMMA GroupsResources ==
    ASSUME NEW fs, IsSeq(fs), ResourcesApart(fs), NEW keys
    PROVE  LET G == Groups(fs, keys)
               R == {q \in ToSet(fs) \X ToSet(fs) : q[1].res # q[2].res} IN
           /\ IsSeq(G)
           /\ \A g \in 1..Len(G) :
                /\ IsSeq(G[g]) /\ Len(G[g]) >= 1 /\ ToSet(G[g]) \subseteq ToSet(fs)
                /\ Apart(G[g], R)
                /\ \E key : /\ \A x \in ToSet(G[g]) : \E i \in 1..Len(fs) : x = fs[i] /\ keys[i] = key
                            /\ key = {} => Len(G[g]) = 1
           /\ \A x \in ToSet(fs) : \E g \in 1..Len(G) : x \in ToSet(G[g])
           /\ \A g, h \in 1..Len(G) : g < h =>
                \A x \in ToSet(G[g]), y \in ToSet(G[h]) : <<x, y>> \in R
<1> DEFINE n == Len(fs)
           G == Groups(fs, keys)
           R == {q \in ToSet(fs) \X ToSet(fs) : q[1].res # q[2].res}
<1>1. \A i \in 1..n : fs[i] \in ToSet(fs)
  BY IsSeqProperties
<1>2. \A i, k \in 1..n : i # k => <<fs[i], fs[k]>> \in R
  BY <1>1 DEF ResourcesApart
<1>3. GroupsOf(G, fs, keys)
  BY GroupsProperties
<1> HIDE DEF G, R, n
<1>4. /\ IsSeq(G)
      /\ \A g \in 1..Len(G) :
           /\ IsSeq(G[g]) /\ Len(G[g]) >= 1
           /\ \E key : /\ \A x \in ToSet(G[g]) : \E i \in 1..n : x = fs[i] /\ keys[i] = key
                       /\ key = {} => Len(G[g]) = 1
      /\ \A x \in ToSet(fs) : \E g \in 1..Len(G) : x \in ToSet(G[g])
  BY <1>3 DEF GroupsOf, n
<1>5. \A g \in 1..Len(G) : Apart(G[g], R)
  BY <1>2, <1>3 DEF GroupsOf, n
<1>6. \A g, h \in 1..Len(G) : g < h =>
        \A x \in ToSet(G[g]), y \in ToSet(G[h]) : <<x, y>> \in R
  BY <1>2, <1>3 DEF GroupsOf, n
<1>7. \A g \in 1..Len(G) : ToSet(G[g]) \subseteq ToSet(fs)
  BY <1>1, <1>4, ZenonT(40)
<1> QED
  BY <1>4, <1>5, <1>6, <1>7 DEF G, R, n

\* The lead of the builds that failed alike covers them: a build that failed is
\* critical, and a pattern that outweighs it is, too.
LEMMA SignatureLead ==
    ASSUME NEW group, IsSeq(group), Len(group) >= 1, \A f \in ToSet(group) : Good(f),
           NEW key, key # {}, \A f \in ToSet(group) : SignatureKey(f) = key
    PROVE  /\ Good(Lead(group))
           /\ \E p \in ToSet(group) : Alike(Lead(group), p)
           /\ \A f \in ToSet(group) : Covers(Lead(group), f)
<1> DEFINE l == Lead(group)
<1>1. PICK p \in ToSet(group) :
             /\ l = [p EXCEPT !.about = About(group)]
             /\ \A f \in ToSet(group) : /\ PriorityScore(f) <= PriorityScore(p)
                                        /\ f.about \subseteq About(group)
  BY LeadProperties
<1> HIDE DEF l
<1>2. Good(p) /\ DOMAIN p = Fields
  BY DEF Good
<1>3. /\ DOMAIN l = Fields /\ l.about = About(group)
      /\ l.sev = p.sev /\ l.cat = p.cat /\ l.res = p.res /\ l.sym = p.sym
      /\ l.kw = p.kw /\ l.host = p.host
  BY <1>1, <1>2 DEF Fields
<1>4. Good(l) /\ Alike(l, p)
  BY <1>1, <1>2, <1>3 DEF Good, Alike
<1>5. \A f \in ToSet(group) : f.cat \in {"jenkins_failed_build", "jenkins_pipeline_pattern"}
  BY DEF SignatureKey
<1>6. ASSUME NEW f \in ToSet(group) PROVE Weighs(p, f)
  <2>1. Good(f)
    OBVIOUS
  <2>2. \A x \in {f, p} : /\ x.cat \in {"jenkins_failed_build", "jenkins_pipeline_pattern"}
                          /\ SeverityWeight(x.sev) \in {5, 20, 50}
                          /\ x.cat = "jenkins_failed_build" => SeverityWeight(x.sev) = 50
    BY <1>2, <1>5, <2>1, WeightType DEF Good, SeverityWeight
  <2>3. PriorityScore(f) <= PriorityScore(p)
    BY <1>1
  <2>4. /\ CategoryWeight("jenkins_failed_build") = 60
        /\ CategoryWeight("jenkins_pipeline_pattern") = 65
    BY DEF CategoryWeight
  <2> HIDE DEF PriorityScore
  <2>5. \A x \in {f, p} :
          /\ x.cat = "jenkins_failed_build" => PriorityScore(x) = 110
          /\ x.cat = "jenkins_pipeline_pattern" => PriorityScore(x) = 65 + SeverityWeight(x.sev)
    BY <2>2, <2>4 DEF PriorityScore
  <2> QED
    BY <2>2, <2>3, <2>5 DEF Weighs
<1> QED
  BY <1>1, <1>3, <1>4, <1>6 DEF Covers, Weighs, l

\* What a correlation step keeps: the findings left are of different resources,
\* each is one that came in, and each that came in is covered.
Correlates(out, fs) ==
    /\ Goods(out) /\ ResourcesApart(out)
    /\ \A g \in ToSet(out) : \E f \in ToSet(fs) : Alike(g, f)
    /\ \A f \in ToSet(fs) : \E g \in ToSet(out) : Covers(g, f)

LEMMA SelfCovers == \A f : Covers(f, f) /\ Alike(f, f)
  BY WeightType DEF Covers, Weighs, Alike

LEMMA BySignatureProperties ==
    ASSUME NEW fs, Goods(fs), ResourcesApart(fs)
    PROVE  Correlates(BySignature(fs), fs)
<1> DEFINE out == BySignature(fs)
           keys == [i \in DOMAIN fs |-> SignatureKey(fs[i])]
           G == Groups(fs, keys)
           R == {q \in ToSet(fs) \X ToSet(fs) : q[1].res # q[2].res}
           ss == [g \in DOMAIN G |-> IF Len(G[g]) = 1 THEN G[g] ELSE <<Lead(G[g])>>]
           Of(x, g) == /\ Good(x) /\ \E p \in ToSet(G[g]) : Alike(x, p)
                       /\ \A f \in ToSet(G[g]) : Covers(x, f)
<1>1. out = FlattenSeq(ss)
  BY DEF BySignature, Each
<1>2. IsSeq(fs)
  BY DEF Goods
<1>3. \A i \in 1..Len(fs) : keys[i] = SignatureKey(fs[i])
  BY <1>2, IsSeqProperties
<1>4. /\ IsSeq(G)
      /\ \A g \in 1..Len(G) :
           /\ IsSeq(G[g]) /\ Len(G[g]) >= 1 /\ ToSet(G[g]) \subseteq ToSet(fs)
           /\ \E key : /\ \A x \in ToSet(G[g]) : \E i \in 1..Len(fs) : x = fs[i] /\ keys[i] = key
                       /\ key = {} => Len(G[g]) = 1
      /\ \A x \in ToSet(fs) : \E g \in 1..Len(G) : x \in ToSet(G[g])
      /\ \A g, h \in 1..Len(G) : g < h =>
           \A x \in ToSet(G[g]), y \in ToSet(G[h]) : <<x, y>> \in R
  <2> HIDE DEF keys
  <2> QED
    BY <1>2, GroupsResources
<1> HIDE DEF G, keys
<1>5. IsSeq(ss) /\ Len(ss) = Len(G) /\ DOMAIN G = 1..Len(G) /\ Len(G) \in Nat
  <2>1. DOMAIN G = 1..Len(G) /\ Len(G) \in Nat
    BY <1>4, IsSeqProperties
  <2>2. ss = [g \in 1..Len(G) |-> ss[g]]
    BY <2>1
  <2> HIDE DEF ss
  <2> QED
    BY <2>1, <2>2, FunctionIsSeq
<1>6. ASSUME NEW g \in 1..Len(G)
      PROVE  \E m : /\ IsSeq(ss[g]) /\ ToSet(ss[g]) = {m}
                    /\ Of(m, g) /\ \A S : Apart(ss[g], S)
  <2>1. CASE Len(G[g]) = 1
    <3> DEFINE m == G[g][1]
    <3>1. ss[g] = G[g]
      BY <1>5, <2>1
    <3>2. IsSeq(G[g]) /\ ToSet(G[g]) = {m} /\ \A S : Apart(G[g], S)
      BY <1>4, <2>1, SingleApart
    <3>3. Good(m)
      BY <1>4, <3>2 DEF Goods
    <3> HIDE DEF m
    <3>4. Of(m, g)
      BY <3>2, <3>3, SelfCovers
    <3> QED
      BY <3>1, <3>2, <3>4
  <2>2. CASE Len(G[g]) # 1
    <3> DEFINE m == Lead(G[g])
    <3>1. ss[g] = <<m>>
      BY <1>5, <2>2
    <3>2. PICK key : /\ \A x \in ToSet(G[g]) : \E i \in 1..Len(fs) : x = fs[i] /\ keys[i] = key
                     /\ key # {}
      BY <1>4, <2>2
    <3>3. \A x \in ToSet(G[g]) : Good(x) /\ SignatureKey(x) = key
      BY <1>3, <1>4, <3>2 DEF Goods
    <3>4. Of(m, g)
      BY <1>4, <3>2, <3>3, SignatureLead
    <3> HIDE DEF m
    <3>5. IsSeq(<<m>>) /\ ToSet(<<m>>) = {m} /\ \A S : Apart(<<m>>, S)
      BY OneIsSeq
    <3> QED
      BY <3>1, <3>4, <3>5
  <2> QED
    BY <2>1, <2>2
<1> HIDE DEF ss, R, Of, out
<1>7. /\ IsSeq(out)
      /\ ToSet(out) = UNION {ToSet(ss[g]) : g \in 1..Len(G)}
      /\ \A S : (\A g, h \in 1..Len(G) : g < h =>
                   \A x \in ToSet(ss[g]), y \in ToSet(ss[h]) : <<x, y>> \in S)
                => Apart(out, S)
  BY <1>1, <1>5, <1>6, FlattenProperties
<1>8. \A g \in 1..Len(G) : \A x \in ToSet(ss[g]) : Of(x, g) /\ x \in ToSet(out)
  BY <1>6, <1>7
<1>9. \A x \in ToSet(out) : \E g \in 1..Len(G) : Of(x, g)
  BY <1>7, <1>8
<1>10. Goods(out)
  BY <1>7, <1>9 DEF Goods, Of
<1>11. ResourcesApart(out)
  <2> DEFINE S == ToSet(out)
             T == {q \in S \X S : q[1].res # q[2].res}
  <2>1. ASSUME NEW g \in 1..Len(G), NEW h \in 1..Len(G), g < h,
               NEW x \in ToSet(ss[g]), NEW y \in ToSet(ss[h])
        PROVE  <<x, y>> \in T
    <3>1. PICK p \in ToSet(G[g]) : Alike(x, p)
      BY <1>8 DEF Of
    <3>2. PICK q \in ToSet(G[h]) : Alike(y, q)
      BY <1>8 DEF Of
    <3>3. p.res # q.res
      <4>1. <<p, q>> \in R
        BY <1>4, <2>1
      <4> QED
        BY <4>1 DEF R
    <3>4. x.res # y.res
      BY <3>1, <3>2, <3>3 DEF Alike
    <3> QED
      BY <1>8, <3>4
  <2>2. Apart(out, T)
    <3> HIDE DEF T
    <3> QED
      BY <1>7, <2>1
  <2> HIDE DEF S
  <2> QED
    BY <1>7, <2>2, ApartResources DEF S
<1>12. ASSUME NEW x \in ToSet(out) PROVE \E f \in ToSet(fs) : Alike(x, f)
  <2>1. PICK g \in 1..Len(G) : Of(x, g)
    BY <1>9
  <2>2. ToSet(G[g]) \subseteq ToSet(fs)
    BY <1>4
  <2> QED
    BY <2>1, <2>2 DEF Of
<1>13. ASSUME NEW f \in ToSet(fs) PROVE \E x \in ToSet(out) : Covers(x, f)
  <2>1. PICK g \in 1..Len(G) : f \in ToSet(G[g])
    BY <1>4
  <2>2. PICK x : x \in ToSet(ss[g])
    BY <1>6
  <2> QED
    BY <1>8, <2>1, <2>2 DEF Of
<1> QED
  BY <1>10, <1>11, <1>12, <1>13 DEF Correlates, out

LEMMA LinkBuildsProperties ==
    ASSUME NEW fs, Goods(fs), ResourcesApart(fs)
    PROVE  Correlates(LinkBuilds(fs), fs)
<1> DEFINE out == LinkBuilds(fs)
<1>0. IsSeq(fs)
  BY DEF Goods
<1>1. DOMAIN fs = 1..Len(fs) /\ Len(fs) \in Nat /\ \A b \in 1..Len(fs) : fs[b] \in ToSet(fs)
  BY <1>0, IsSeqProperties
<1>2. /\ out = [b \in 1..Len(fs) |-> out[b]]
      /\ \A b \in 1..Len(fs) :
           \E X : out[b] = [fs[b] EXCEPT !.about = fs[b].about \cup X]
  BY <1>1 DEF LinkBuilds
<1> HIDE DEF out
<1>3. /\ IsSeq(out) /\ Len(out) = Len(fs)
      /\ \A b \in 1..Len(fs) : out[b] \in ToSet(out)
      /\ \A g \in ToSet(out) : \E b \in 1..Len(fs) : g = out[b]
  <2> DEFINE n == Len(fs)
  <2> HIDE DEF n
  <2>1. IsSeq(out) /\ Len(out) = n
    BY <1>1, <1>2, FunctionIsSeq DEF n
  <2> QED
    BY <2>1, IsSeqProperties DEF n
<1>4. ASSUME NEW b \in 1..Len(fs)
      PROVE  Good(out[b]) /\ Alike(out[b], fs[b]) /\ Covers(out[b], fs[b])
  <2>1. PICK X : out[b] = [fs[b] EXCEPT !.about = fs[b].about \cup X]
    BY <1>2
  <2>2. Good(fs[b]) /\ DOMAIN fs[b] = Fields
    BY <1>1 DEF Goods, Good
  <2> DEFINE f == fs[b]
             g == out[b]
  <2> HIDE DEF f, g
  <2>3. g = [f EXCEPT !.about = f.about \cup X] /\ DOMAIN f = Fields
    BY <2>1, <2>2 DEF f, g
  <2>4. /\ DOMAIN g = Fields /\ g.about = f.about \cup X
        /\ g.sev = f.sev /\ g.cat = f.cat /\ g.res = f.res /\ g.sym = f.sym
        /\ g.kw = f.kw /\ g.host = f.host
    BY <2>3 DEF Fields
  <2>5. Good(f)
    BY <2>2 DEF f
  <2>6. Good(g) /\ Alike(g, f)
    BY <2>4, <2>5 DEF Good, Alike
  <2>7. Covers(g, f)
    BY <2>4, WeightType DEF Covers, Weighs
  <2> QED
    BY <2>6, <2>7 DEF f, g
<1>5. Goods(out)
  BY <1>3, <1>4 DEF Goods
<1>6. ResourcesApart(out)
  <2> SUFFICES ASSUME NEW i \in 1..Len(out), NEW k \in 1..Len(out), i # k
               PROVE  out[i].res # out[k].res
    BY DEF ResourcesApart
  <2>1. i \in 1..Len(fs) /\ k \in 1..Len(fs)
    BY <1>3
  <2>2. out[i].res = fs[i].res /\ out[k].res = fs[k].res
    BY <1>4, <2>1 DEF Alike
  <2> QED
    BY <2>1, <2>2 DEF ResourcesApart
<1>7. \A g \in ToSet(out) : \E f \in ToSet(fs) : Alike(g, f)
  BY <1>1, <1>3, <1>4
<1>8. \A f \in ToSet(fs) : \E b \in 1..Len(fs) : f = fs[b]
  BY <1>0, IsSeqProperties
<1>9. \A f \in ToSet(fs) : \E g \in ToSet(out) : Covers(g, f)
  BY <1>3, <1>4, <1>8
<1> QED
  BY <1>5, <1>6, <1>7, <1>9 DEF Correlates, out

\* Only events and nodes name a node, so no group of a node has a part of
\* Jenkins in it: the step of correlate_findings that would merge one is never
\* taken.
LEMMA NodesNameNoJenkins ==
    ASSUME NEW f, Good(f), NodeNamed(f) # ""
    PROVE  ~JenkinsRelated(f)
<1>1. f.cat \in {"k8s_event", "k8s_node"}
  BY DEF Good, NodeNamed
<1> QED
  BY <1>1 DEF JenkinsRelated

LEMMA ByNodeProperties ==
    ASSUME NEW fs, Goods(fs), ResourcesApart(fs)
    PROVE  /\ Correlates(ByNode(fs), fs)
           /\ ToSet(ByNode(fs)) = ToSet(fs)
<1> DEFINE out == ByNode(fs)
           keys == [i \in DOMAIN fs |-> {NodeNamed(fs[i])} \ {""}]
           G == Groups(fs, keys)
           S == ToSet(fs)
           R == {q \in S \X S : q[1].res # q[2].res}
           Merges(group) == Len(group) > 1 /\ \E i \in DOMAIN group : JenkinsRelated(group[i])
           ss == [g \in DOMAIN G |-> IF Merges(G[g]) THEN <<Lead(G[g])>> ELSE G[g]]
<1>1. out = FlattenSeq(ss)
  BY DEF ByNode, Each
<1>2. IsSeq(fs)
  BY DEF Goods
<1>3. \A i \in 1..Len(fs) : keys[i] = {NodeNamed(fs[i])} \ {""}
  BY <1>2, IsSeqProperties
<1>4. /\ IsSeq(G)
      /\ \A g \in 1..Len(G) :
           /\ IsSeq(G[g]) /\ Len(G[g]) >= 1 /\ ToSet(G[g]) \subseteq S
           /\ Apart(G[g], R)
           /\ \E key : /\ \A x \in ToSet(G[g]) : \E i \in 1..Len(fs) : x = fs[i] /\ keys[i] = key
                       /\ key = {} => Len(G[g]) = 1
      /\ \A x \in S : \E g \in 1..Len(G) : x \in ToSet(G[g])
      /\ \A g, h \in 1..Len(G) : g < h =>
           \A x \in ToSet(G[g]), y \in ToSet(G[h]) : <<x, y>> \in R
  <2> HIDE DEF keys
  <2> QED
    BY <1>2, GroupsResources
<1> HIDE DEF G, keys, R
<1>5. ASSUME NEW g \in 1..Len(G) PROVE ~Merges(G[g])
  <2>1. IsSeq(G[g]) /\ ToSet(G[g]) \subseteq S
    BY <1>4
  <2>2. PICK key : /\ \A x \in ToSet(G[g]) : \E i \in 1..Len(fs) : x = fs[i] /\ keys[i] = key
                   /\ key = {} => Len(G[g]) = 1
    BY <1>4
  <2>3. CASE key = {}
    <3>1. Len(G[g]) = 1
      BY <2>2, <2>3
    <3>2. ~(Len(G[g]) > 1)
      BY <3>1
    <3> QED
      BY <3>2
  <2>4. CASE key # {}
    <3>1. ASSUME NEW x \in ToSet(G[g]) PROVE ~JenkinsRelated(x)
      <4>1. {NodeNamed(x)} \ {""} = key
        BY <1>3, <2>2
      <4>2. NodeNamed(x) # ""
        BY <2>4, <4>1
      <4>3. Good(x)
        BY <2>1 DEF Goods
      <4> QED
        BY <4>2, <4>3, NodesNameNoJenkins
    <3>2. \A i \in DOMAIN G[g] : G[g][i] \in ToSet(G[g])
      BY <2>1, IsSeqProperties
    <3> QED
      BY <3>1, <3>2
  <2> QED
    BY <2>3, <2>4
<1>6. DOMAIN G = 1..Len(G) /\ G = [g \in 1..Len(G) |-> G[g]]
  BY <1>4, IsSeqProperties
<1>7. ss = G
  <2> HIDE DEF Merges
  <2> QED
    BY <1>5, <1>6
<1> HIDE DEF ss, out, S, Merges
<1>a. out = FlattenSeq(G)
  BY <1>1, <1>7
<1>8. /\ IsSeq(out)
      /\ ToSet(out) = UNION {ToSet(G[g]) : g \in 1..Len(G)}
      /\ Apart(out, R)
  BY <1>4, <1>a, FlattenProperties
<1>9. ToSet(out) = S
  BY <1>4, <1>8
<1>10. ResourcesApart(out)
  BY <1>8, <1>9, ApartResources DEF R
<1>11. Correlates(out, fs)
  BY <1>8, <1>9, <1>10, SelfCovers DEF Correlates, Goods, S
<1> QED
  BY <1>9, <1>11 DEF out, S

LEMMA CorrelatesTransitive ==
    ASSUME NEW a, NEW b, NEW c, Correlates(a, b), Correlates(b, c)
    PROVE  Correlates(a, c)
<1>1. \A g \in ToSet(a) : \E f \in ToSet(c) : Alike(g, f)
  <2> SUFFICES ASSUME NEW g \in ToSet(a) PROVE \E f \in ToSet(c) : Alike(g, f)
    OBVIOUS
  <2>1. PICK m \in ToSet(b) : Alike(g, m)
    BY DEF Correlates
  <2>2. PICK f \in ToSet(c) : Alike(m, f)
    BY DEF Correlates
  <2> QED
    BY <2>1, <2>2 DEF Alike
<1>2. \A f \in ToSet(c) : \E g \in ToSet(a) : Covers(g, f)
  <2> SUFFICES ASSUME NEW f \in ToSet(c) PROVE \E g \in ToSet(a) : Covers(g, f)
    OBVIOUS
  <2>1. PICK m \in ToSet(b) : Covers(m, f)
    BY DEF Correlates
  <2>2. PICK g \in ToSet(a) : Covers(g, m)
    BY DEF Correlates
  <2>3. Covers(g, f)
    BY <2>1, <2>2, WeightType DEF Covers, Weighs
  <2> QED
    BY <2>3
<1> QED
  BY <1>1, <1>2 DEF Correlates

LEMMA CorrelateProperties ==
    ASSUME NEW fs, Goods(fs), KeysApart(fs), ResourcesApart(fs)
    PROVE  Correlates(Correlate(fs), fs)
<1> DEFINE a == GroupAgentFindings(fs)
           b == BySignature(a)
           c == LinkBuilds(b)
           S == ToSet(fs)
           R == {q \in S \X S : q[1].res # q[2].res}
<1>1. IsSeq(fs) /\ \A i \in 1..Len(fs) : fs[i] \in S
  BY IsSeqProperties DEF Goods
<1>2. \A i, k \in 1..Len(fs) : i # k => <<fs[i], fs[k]>> \in R
  BY <1>1 DEF ResourcesApart
<1>3. IsSeq(a) /\ ToSet(a) = S /\ Apart(a, R)
  <2> HIDE DEF R
  <2> QED
    BY <1>1, <1>2, RegroupProperties
<1>4. ResourcesApart(a)
  <2> HIDE DEF S, a
  <2> QED
    BY <1>3, ApartResources
<1>5. Correlates(a, fs)
  BY <1>3, <1>4, SelfCovers DEF Correlates, Goods
<1> HIDE DEF a
<1>6. Correlates(b, a)
  BY <1>5, BySignatureProperties DEF Correlates
<1> HIDE DEF b
<1>7. Correlates(c, b)
  BY <1>6, LinkBuildsProperties DEF Correlates
<1> HIDE DEF c
<1>8. Correlates(ByNode(c), c)
  BY <1>7, ByNodeProperties DEF Correlates
<1>9. Correlates(ByNode(c), fs)
  BY <1>5, <1>6, <1>7, <1>8, CorrelatesTransitive
<1> QED
  BY <1>9 DEF Correlate, a, b, c

-----------------------------------------------------------------------------
(* What the checks answer with.                                            *)

NodeSymptoms == {"no executors configured", "agent memory", "agent disk", "agent_offline"}

\* A finding of a check: the symptom of an agent's finding tells whether it is
\* one of a pod or of a Jenkins node.
Raw(f) ==
    /\ Good(f)
    /\ f.cat = "jenkins_agent" =>
         /\ Len(f.res) = 2
         /\ f.res[1] = IF f.sym[1] \in NodeSymptoms THEN "jenkins-agent" ELSE Namespace

Raws(s) == IsSeq(s) /\ \A f \in ToSet(s) : Raw(f)

LEMMA RawsEmpty == Raws(<<>>)
  BY EmptyIsSeq DEF Raws

LEMMA RawsOne ==
    ASSUME NEW f, Raw(f)
    PROVE  Raws(<<f>>)
<1>1. IsSeq(<<f>>) /\ ToSet(<<f>>) = {f}
  BY OneIsSeq
<1> QED
  BY <1>1 DEF Raws

LEMMA RawsWhen ==
    ASSUME NEW c, NEW f, c => Raw(f)
    PROVE  Raws(When(c, f))
<1>1. CASE c
  <2>1. When(c, f) = <<f>>
    BY <1>1 DEF When
  <2> QED
    BY <1>1, <2>1, RawsOne
<1>2. CASE ~c
  <2>1. When(c, f) = <<>>
    BY <1>2 DEF When
  <2> QED
    BY <2>1, RawsEmpty
<1> QED
  BY <1>1, <1>2

LEMMA RawsConcat ==
    ASSUME NEW s, NEW t, Raws(s), Raws(t)
    PROVE  Raws(s \o t)
<1>1. IsSeq(s) /\ IsSeq(t)
  BY DEF Raws
<1>2. IsSeq(s \o t) /\ ToSet(s \o t) = ToSet(s) \cup ToSet(t)
  BY <1>1, ConcatIsSeq
<1> QED
  BY <1>2 DEF Raws

\* The answers for each member of a list, in a row.
LEMMA RawsEach ==
    ASSUME NEW list, IsSeq(list), NEW ss, ss = [i \in DOMAIN list |-> ss[i]],
           \A i \in 1..Len(list) : Raws(ss[i])
    PROVE  Raws(FlattenSeq(ss))
<1>1. Len(list) \in Nat /\ DOMAIN list = 1..Len(list)
  BY IsSeqProperties
<1>2. IsSeq(ss) /\ Len(ss) = Len(list)
  BY <1>1, FunctionIsSeq
<1>3. \A i \in 1..Len(ss) : IsSeq(ss[i])
  BY <1>2 DEF Raws
<1>4. /\ IsSeq(FlattenSeq(ss))
      /\ ToSet(FlattenSeq(ss)) = UNION {ToSet(ss[i]) : i \in 1..Len(ss)}
  BY <1>2, <1>3, FlattenProperties
<1> QED
  BY <1>2, <1>4 DEF Raws

\* A finding on neither an agent nor a failed build.
LEMMA PlainRaw ==
    ASSUME NEW sev, NEW cat, cat \notin {"jenkins_agent", "jenkins_failed_build"},
           NEW res, NEW sym, sym[1] \notin {"OOMKilled", "CrashLoopBackOff"}
    PROVE  Raw(Finding(sev, cat, res, sym))
<1> DEFINE f == Finding(sev, cat, res, sym)
<1>1. /\ DOMAIN f = Fields /\ f.cat = cat /\ f.res = res /\ f.kw = "" /\ f.host = ""
      /\ f.about = {res}
  BY DEF Finding, Fields
<1> HIDE DEF f
<1>2. Raw(f)
  BY <1>1 DEF Raw, Good
<1> QED
  BY <1>2 DEF f

LEMMA AgentRaw ==
    ASSUME NEW sev, NEW res, Len(res) = 2, NEW sym,
           sym[1] \in {"OOMKilled", "CrashLoopBackOff"} => sev = "critical",
           res[1] = IF sym[1] \in NodeSymptoms THEN "jenkins-agent" ELSE Namespace
    PROVE  Raw(Finding(sev, "jenkins_agent", res, sym))
<1> DEFINE f == Finding(sev, "jenkins_agent", res, sym)
<1>1. /\ DOMAIN f = Fields /\ f.cat = "jenkins_agent" /\ f.res = res /\ f.sym = sym
      /\ f.sev = sev /\ f.host = "" /\ f.about = {res}
      /\ f.kw = IF sym[1] \in {"OOMKilled", "CrashLoopBackOff"} THEN sym[1] ELSE ""
  BY DEF Finding, Fields
<1> HIDE DEF f
<1>2. Raw(f)
  BY <1>1 DEF Raw, Good
<1> QED
  BY <1>2 DEF f

\* The context of a finding changes nothing of that.
LEMMA ContextRaw ==
    ASSUME NEW f, Raw(f), NEW x
    PROVE  /\ Raw([f EXCEPT !.sig = x])
           /\ Raw([f EXCEPT !.on = x])
           /\ f.cat = "k8s_event" => Raw([f EXCEPT !.host = x])
<1>1. Good(f) /\ DOMAIN f = Fields
  BY DEF Raw, Good
<1>2. Raw([f EXCEPT !.sig = x])
  <2> DEFINE g == [f EXCEPT !.sig = x]
  <2>1. /\ DOMAIN g = Fields /\ g.sev = f.sev /\ g.cat = f.cat /\ g.res = f.res
        /\ g.sym = f.sym /\ g.kw = f.kw /\ g.host = f.host /\ g.about = f.about
    BY <1>1 DEF Fields
  <2> HIDE DEF g
  <2>2. Raw(g)
    BY <2>1 DEF Raw, Good
  <2> QED
    BY <2>2 DEF g
<1>3. Raw([f EXCEPT !.on = x])
  <2> DEFINE g == [f EXCEPT !.on = x]
  <2>1. /\ DOMAIN g = Fields /\ g.sev = f.sev /\ g.cat = f.cat /\ g.res = f.res
        /\ g.sym = f.sym /\ g.kw = f.kw /\ g.host = f.host /\ g.about = f.about
    BY <1>1 DEF Fields
  <2> HIDE DEF g
  <2>2. Raw(g)
    BY <2>1 DEF Raw, Good
  <2> QED
    BY <2>2 DEF g
<1>4. ASSUME f.cat = "k8s_event" PROVE Raw([f EXCEPT !.host = x])
  <2> DEFINE g == [f EXCEPT !.host = x]
  <2>1. /\ DOMAIN g = Fields /\ g.sev = f.sev /\ g.cat = f.cat /\ g.res = f.res
        /\ g.sym = f.sym /\ g.kw = f.kw /\ g.about = f.about
    BY <1>1 DEF Fields
  <2> HIDE DEF g
  <2>2. Raw(g)
    BY <1>4, <2>1 DEF Raw, Good
  <2> QED
    BY <2>2 DEF g
<1> QED
  BY <1>2, <1>3, <1>4

LEMMA ListsAreSeqs ==
    IsSeq(Pods) /\ IsSeq(Agents) /\ IsSeq(Jobs) /\ IsSeq(Builds) /\ IsSeq(Nodes)
  BY ObservationsAssumption DEF IsSeq

-----------------------------------------------------------------------------
(* The checks on agents.                                                   *)

LEMMA PodRaw ==
    ASSUME NEW sev, NEW p, NEW symptom, symptom \notin NodeSymptoms,
           symptom \in {"OOMKilled", "CrashLoopBackOff"} => sev = "critical"
    PROVE  Raw(OnAgent(sev, PodResource(p), symptom))
  BY AgentRaw DEF OnAgent, PodResource

LEMMA NodeRaw ==
    ASSUME NEW sev, NEW a, NEW symptom, symptom \in NodeSymptoms
    PROVE  Raw(OnAgent(sev, Node(a), symptom))
<1>1. symptom \notin {"OOMKilled", "CrashLoopBackOff"}
  BY DEF NodeSymptoms
<1> QED
  BY <1>1, AgentRaw DEF OnAgent, Node

LEMMA AgentPodRaw ==
    ASSUME NEW w
    PROVE  Raws(AgentPodCheck(w))
<1> DEFINE Says(p, sev, symptom) == OnAgent(sev, PodResource(p), symptom)
           Of(p) ==
               IF w[p].state = "pending" THEN <<Says(p, "warning", "stuck in Pending")>> ELSE
                   When(w[p].oomed, Says(p, "critical", "OOMKilled"))
                   \o When(w[p].state = "CrashLoopBackOff", Says(p, "critical", w[p].state))
                   \o When(w[p].state = "ImagePullBackOff", Says(p, "warning", w[p].state))
                   \o When(w[p].restarts >= 5 /\ ~w[p].oomed, Says(p, "warning", "high_restarts"))
                   \o When(w[p].deleting, Says(p, "warning", "stuck terminating"))
           ss == [i \in DOMAIN Pods |-> Of(Pods[i])]
<1>1. AgentPodCheck(w) = FlattenSeq(ss)
  BY DEF AgentPodCheck, Each
<1>2. ASSUME NEW p PROVE Raws(Of(p))
  <2>1. /\ Raws(<<Says(p, "warning", "stuck in Pending")>>)
        /\ Raws(When(w[p].oomed, Says(p, "critical", "OOMKilled")))
        /\ Raws(When(w[p].state = "CrashLoopBackOff", Says(p, "critical", w[p].state)))
        /\ Raws(When(w[p].state = "ImagePullBackOff", Says(p, "warning", w[p].state)))
        /\ Raws(When(w[p].restarts >= 5 /\ ~w[p].oomed, Says(p, "warning", "high_restarts")))
        /\ Raws(When(w[p].deleting, Says(p, "warning", "stuck terminating")))
    BY RawsOne, RawsWhen, PodRaw DEF NodeSymptoms
  <2> HIDE DEF Says
  <2> QED
    BY <2>1, RawsConcat
<1> HIDE DEF Of
<1>3. ss = [i \in DOMAIN Pods |-> ss[i]] /\ \A i \in 1..Len(Pods) : Raws(ss[i])
  BY <1>2, ListsAreSeqs, IsSeqProperties
<1> HIDE DEF ss
<1> QED
  BY <1>1, <1>3, RawsEach, ListsAreSeqs

LEMMA AgentResourceRaw ==
    ASSUME NEW w
    PROVE  Raws(AgentResourceCheck(w))
<1> DEFINE Usage(p, value, symptom) ==
               When(w[p].state = "running" /\ value > 80,
                    OnAgent(SeverityFor(value, 90), PodResource(p), symptom))
           Of(p) ==
               IF ~w[p].limits THEN <<OnAgent("warning", PodResource(p), "no limits")>>
               ELSE Usage(p, w[p].mem, "memory of limit") \o Usage(p, w[p].cpu, "cpu of limit")
           ss == [i \in DOMAIN Pods |-> Of(Pods[i])]
<1>1. AgentResourceCheck(w) = IF ~Metered(w) THEN <<>> ELSE FlattenSeq(ss)
  BY DEF AgentResourceCheck, Each
<1>2. ASSUME NEW p PROVE Raws(Of(p))
  <2>1. /\ Raws(<<OnAgent("warning", PodResource(p), "no limits")>>)
        /\ \A value : Raws(Usage(p, value, "memory of limit"))
        /\ \A value : Raws(Usage(p, value, "cpu of limit"))
    BY RawsOne, RawsWhen, PodRaw DEF NodeSymptoms
  <2> HIDE DEF Usage
  <2> QED
    BY <2>1, RawsConcat
<1> HIDE DEF Of
<1>3. ss = [i \in DOMAIN Pods |-> ss[i]] /\ \A i \in 1..Len(Pods) : Raws(ss[i])
  BY <1>2, ListsAreSeqs, IsSeqProperties
<1> HIDE DEF ss
<1> QED
  BY <1>1, <1>3, RawsEach, RawsEmpty, ListsAreSeqs

LEMMA AgentErrorRaw ==
    ASSUME NEW w
    PROVE  Raws(AgentErrorCheck(w))
<1> DEFINE Says(p, sev, symptom) == OnAgent(sev, PodResource(p), symptom)
           Killed(p) == [Says(p, "critical", "container_exit") EXCEPT !.kw = "OOMKilled"]
           Of(p) ==
               When(w[p].state = "exit1", Says(p, "warning", "container_exit"))
               \o When(w[p].state = "exit137", Killed(p))
               \o When(w[p].state = "running" /\ w[p].errors > 0, Says(p, "warning", "N error"))
           ss == [i \in DOMAIN Pods |-> Of(Pods[i])]
<1>1. AgentErrorCheck(w) = FlattenSeq(ss)
  BY DEF AgentErrorCheck, Each
<1>2. ASSUME NEW p PROVE Raw(Killed(p))
  <2> DEFINE f == Says(p, "critical", "container_exit")
             g == Killed(p)
  <2>1. Raw(f)
    BY PodRaw DEF NodeSymptoms
  <2>2. f.sev = "critical" /\ f.cat = "jenkins_agent"
    BY DEF OnAgent, Finding
  <2> HIDE DEF f
  <2>3. DOMAIN f = Fields
    BY <2>1 DEF Raw, Good
  <2>4. g = [f EXCEPT !.kw = "OOMKilled"]
    BY DEF f
  <2> HIDE DEF g
  <2>5. /\ DOMAIN g = Fields /\ g.sev = f.sev /\ g.cat = f.cat /\ g.res = f.res
        /\ g.sym = f.sym /\ g.host = f.host /\ g.about = f.about
    BY <2>3, <2>4 DEF Fields
  <2>6. Raw(g)
    BY <2>1, <2>2, <2>5 DEF Raw, Good
  <2> QED
    BY <2>6 DEF g
<1>3. ASSUME NEW p PROVE Raws(Of(p))
  <2>1. /\ Raws(When(w[p].state = "exit1", Says(p, "warning", "container_exit")))
        /\ Raws(When(w[p].state = "running" /\ w[p].errors > 0, Says(p, "warning", "N error")))
    BY RawsWhen, PodRaw DEF NodeSymptoms
  <2> HIDE DEF Killed, Says
  <2>2. Raws(When(w[p].state = "exit137", Killed(p)))
    BY <1>2, RawsWhen
  <2> QED
    BY <2>1, <2>2, RawsConcat
<1> HIDE DEF Of
<1>4. ss = [i \in DOMAIN Pods |-> ss[i]] /\ \A i \in 1..Len(Pods) : Raws(ss[i])
  BY <1>3, ListsAreSeqs, IsSeqProperties
<1> HIDE DEF ss
<1> QED
  BY <1>1, <1>4, RawsEach, ListsAreSeqs

LEMMA AgentConnectivityRaw ==
    ASSUME NEW w
    PROVE  Raws(AgentConnectivityCheck(w))
<1> DEFINE Down == Finding("critical", "jenkins_controller", <<"jenkins-controller">>, <<"unreachable">>)
           Executors(a) == When(w[a].busy > 0 /\ w[a].executors = 0,
                                OnAgent("warning", Node(a), "no executors configured"))
           Memory(a) == When(w[a].mem > 90 /\ w[a].mem # 100,
                             OnAgent(SeverityFor(w[a].mem, 95), Node(a), "agent memory"))
           Severity(a) == IF w[a].disk < 1000 THEN "critical" ELSE "warning"
           Low(a) == w[a].disk < 5000 /\ w[a].disk # 0
           Disk(a) == When(Low(a), OnAgent(Severity(a), Node(a), "agent disk"))
           Of(a) == IF w[a].state # "online" THEN <<>> ELSE Executors(a) \o Memory(a) \o Disk(a)
           ss == [i \in DOMAIN Agents |-> Of(Agents[i])]
<1>1. AgentConnectivityCheck(w) = IF ~Reachable(w) THEN <<Down>> ELSE FlattenSeq(ss)
  BY DEF AgentConnectivityCheck, Each
<1>2. ASSUME NEW a PROVE Raws(Of(a))
  <2>1. /\ \A sev : Raw(OnAgent(sev, Node(a), "no executors configured"))
        /\ \A sev : Raw(OnAgent(sev, Node(a), "agent memory"))
        /\ \A sev : Raw(OnAgent(sev, Node(a), "agent disk"))
    BY NodeRaw DEF NodeSymptoms
  <2>2. Raws(Executors(a))
    BY <2>1, RawsWhen
  <2>3. Raws(Memory(a))
    BY <2>1, RawsWhen
  <2>4. Raws(Disk(a))
    <3> HIDE DEF Severity, Low
    <3> QED
      BY <2>1, RawsWhen
  <2> HIDE DEF Executors, Memory, Disk
  <2> QED
    BY <2>2, <2>3, <2>4, RawsConcat, RawsEmpty
<1> HIDE DEF Of
<1>3. ss = [i \in DOMAIN Agents |-> ss[i]] /\ \A i \in 1..Len(Agents) : Raws(ss[i])
  BY <1>2, ListsAreSeqs, IsSeqProperties
<1>4. Raws(<<Down>>)
  BY PlainRaw, RawsOne
<1> HIDE DEF ss, Down
<1> QED
  BY <1>1, <1>3, <1>4, RawsEach, ListsAreSeqs

LEMMA AgentOfflineRaw ==
    ASSUME NEW w
    PROVE  Raws(AgentOfflineCheck(w))
<1> DEFINE Of(a) ==
               When(Reachable(w) /\ w[a].state # "online" /\ a \in K3s,
                    Finding(IF w[a].state = "temporarily" THEN "warning" ELSE "critical",
                            "jenkins_agent", Node(a), <<"agent_offline", w[a].reason>>))
           ss == [i \in DOMAIN Agents |-> Of(Agents[i])]
<1>1. AgentOfflineCheck(w) = FlattenSeq(ss)
  BY DEF AgentOfflineCheck, Each
<1>2. ASSUME NEW a PROVE Raws(Of(a))
  <2>1. \A sev : Raw(Finding(sev, "jenkins_agent", Node(a), <<"agent_offline", w[a].reason>>))
    BY AgentRaw DEF Node, NodeSymptoms
  <2> QED
    BY <2>1, RawsWhen
<1> HIDE DEF Of
<1>3. ss = [i \in DOMAIN Agents |-> ss[i]] /\ \A i \in 1..Len(Agents) : Raws(ss[i])
  BY <1>2, ListsAreSeqs, IsSeqProperties
<1> HIDE DEF ss
<1> QED
  BY <1>1, <1>3, RawsEach, ListsAreSeqs

-----------------------------------------------------------------------------
(* The checks on jobs and builds.                                          *)

Keywords == {"OOMKilled", "CrashLoopBackOff"}

\* What is read is of the kind the checks take it for: no text is a keyword of
\* dedupe, and the branches are counted.
WellRead(w) ==
    /\ \A j \in ToSet(Jobs) : w[j].stale \in Nat
    /\ \A n \in ToSet(Nodes) : w[n].pressure \notin Keywords
    /\ w["event"].reason \notin Keywords
    /\ w["credential"].says \notin Keywords

LEMMA JobRaw ==
    ASSUME NEW sev, NEW cat, cat \notin {"jenkins_agent", "jenkins_failed_build"},
           NEW j, NEW symptom, symptom \notin Keywords
    PROVE  Raw(OnJob(sev, cat, j, symptom))
  BY PlainRaw DEF OnJob, Keywords

LEMMA BuildRaw ==
    ASSUME NEW sev, NEW b, NEW symptom, symptom[1] \notin Keywords
    PROVE  Raw(OnBuild(sev, b, symptom))
  BY PlainRaw DEF OnBuild, Keywords

LEMMA JenkinsJobRaw ==
    ASSUME NEW w
    PROVE  Raws(JenkinsJobCheck(w))
<1> DEFINE q == w["queue"]
           stuck == IF q.stuck < q.size THEN q.stuck ELSE q.size
           OnQueue(sev, symptom) == Finding(sev, "jenkins_queue", <<"jenkins-queue">>, <<symptom>>)
           Stuck == When(stuck > 0, OnQueue(IF stuck > 3 THEN "critical" ELSE "warning", "N build"))
           Long == When(q.size > 20, OnQueue("warning", "congestion"))
           Of(b) == When(w[b].minutes > 120, OnBuild("warning", b, <<"running for N">>))
           ss == [i \in DOMAIN Builds |-> Of(Builds[i])]
<1>1. JenkinsJobCheck(w) = IF ~Reachable(w) THEN <<>> ELSE Stuck \o Long \o FlattenSeq(ss)
  BY DEF JenkinsJobCheck, Each
<1>2. \A sev : Raw(OnQueue(sev, "N build")) /\ Raw(OnQueue(sev, "congestion"))
  BY PlainRaw
<1>3. Raws(Stuck)
  <2> DEFINE sev == IF stuck > 3 THEN "critical" ELSE "warning"
             c == stuck > 0
  <2> HIDE DEF sev, c, OnQueue
  <2>1. Raws(When(c, OnQueue(sev, "N build")))
    BY <1>2, RawsWhen
  <2> QED
    BY <2>1 DEF sev, c
<1>4. Raws(Long)
  BY <1>2, RawsWhen
<1>5. ASSUME NEW b PROVE Raws(Of(b))
  BY BuildRaw, RawsWhen DEF Keywords
<1> HIDE DEF Of, Stuck, Long
<1>6. ss = [i \in DOMAIN Builds |-> ss[i]] /\ \A i \in 1..Len(Builds) : Raws(ss[i])
  BY <1>5, ListsAreSeqs, IsSeqProperties
<1> HIDE DEF ss
<1>7. Raws(FlattenSeq(ss))
  BY <1>6, RawsEach, ListsAreSeqs
<1> QED
  BY <1>1, <1>3, <1>4, <1>7, RawsConcat, RawsEmpty

LEMMA FailingJobsChosen ==
    ASSUME NEW w, NEW o
    PROVE  Chosen(FailingJobs(w, o), Jobs,
                  {i \in 1..Len(Jobs) : /\ Reachable(w) /\ FailedColor(w[Jobs[i]])
                                        /\ RecentFailures(w[Jobs[i]], o) # {}})
<1> DEFINE P(j) == FailedColor(w[j]) /\ RecentFailures(w[j], o) # {}
           ss == [i \in DOMAIN Jobs |-> When(P(Jobs[i]), Jobs[i])]
           I == {i \in 1..Len(Jobs) : P(Jobs[i])}
<1>1. DOMAIN Jobs = 1..Len(Jobs)
  BY ListsAreSeqs, IsSeqProperties
<1>2. FailingJobs(w, o) = IF ~Reachable(w) THEN <<>> ELSE FlattenSeq(ss)
  BY DEF FailingJobs, Each
<1>3. ss = [i \in DOMAIN Jobs |-> IF i \in I THEN <<Jobs[i]>> ELSE <<>>]
  BY <1>1 DEF When
<1>4. I \in SUBSET (1..Len(Jobs))
  OBVIOUS
<1>5. CASE Reachable(w)
  <2>1. I = {i \in 1..Len(Jobs) : /\ Reachable(w) /\ FailedColor(w[Jobs[i]])
                                  /\ RecentFailures(w[Jobs[i]], o) # {}}
    BY <1>5
  <2> HIDE DEF ss, I
  <2>2. Chosen(FlattenSeq(ss), Jobs, I)
    BY <1>3, <1>4, ListsAreSeqs, FilterChosen
  <2> QED
    BY <1>2, <1>5, <2>1, <2>2
<1>6. CASE ~Reachable(w)
  <2> DEFINE K == {i \in 1..Len(Jobs) : /\ Reachable(w) /\ FailedColor(w[Jobs[i]])
                                        /\ RecentFailures(w[Jobs[i]], o) # {}}
  <2>1. K = {}
    BY <1>6
  <2> HIDE DEF K
  <2>2. Chosen(<<>>, Jobs, K)
    BY <2>1, EmptyIsSeq DEF Chosen
  <2>3. FailingJobs(w, o) = <<>>
    BY <1>2, <1>6
  <2> QED
    BY <2>2, <2>3 DEF K
<1> QED
  BY <1>5, <1>6

LEMMA FailedBuildRaw ==
    ASSUME NEW w, NEW o
    PROVE  Raws(JenkinsFailedBuildCheck(w, o))
<1> DEFINE jobs == FailingJobs(w, o)
           sym(j) == IF Cardinality(RecentFailures(w[j], o)) = 1
                     THEN <<"Build FAILURE", FailureClass(w[j].console)>> ELSE <<"N failed builds">>
           F(j) == Finding("critical", "jenkins_failed_build", JobRes(j), sym(j))
           Of(j) == <<[F(j) EXCEPT !.sig = Signature(w[j].console)]>>
           ss == [i \in DOMAIN jobs |-> Of(jobs[i])]
<1>1. JenkinsFailedBuildCheck(w, o) = FlattenSeq(ss)
  BY DEF JenkinsFailedBuildCheck, Each
<1>2. ASSUME NEW j PROVE Raw(F(j))
  <2> DEFINE f == F(j)
  <2>1. sym(j)[1] \notin Keywords
    BY DEF Keywords
  <2> HIDE DEF sym
  <2>2. /\ DOMAIN f = Fields /\ f.sev = "critical" /\ f.cat = "jenkins_failed_build"
        /\ f.res = JobRes(j) /\ f.kw = "" /\ f.host = "" /\ f.about = {JobRes(j)}
    BY <2>1 DEF Finding, Fields, Keywords
  <2> HIDE DEF f
  <2>3. Raw(f)
    BY <2>2 DEF Raw, Good
  <2> QED
    BY <2>3 DEF f
<1> HIDE DEF F
<1>3. ASSUME NEW j PROVE Raws(Of(j))
  BY <1>2, ContextRaw, RawsOne
<1>4. IsSeq(jobs)
  BY FailingJobsChosen DEF Chosen
<1> HIDE DEF Of, jobs
<1>5. ss = [i \in DOMAIN jobs |-> ss[i]] /\ \A i \in 1..Len(jobs) : Raws(ss[i])
  BY <1>3, <1>4, IsSeqProperties
<1> HIDE DEF ss
<1> QED
  BY <1>1, <1>4, <1>5, RawsEach

LEMMA PatternsRaw ==
    ASSUME NEW j, NEW job, NEW o
    PROVE  Raws(PatternsOf(j, job, o))
<1> DEFINE results == AtMost(o.history, Results(job))
           streak == Streak(results)
           Pattern(sev, symptom) ==
               [OnJob(sev, "jenkins_pipeline_pattern", j, symptom) EXCEPT !.sig = Signature(job.console)]
           Three == When(streak >= o.streak, Pattern("critical", "N consecutive failures"))
           Two == When(Contains(results, "SUCCESS") /\ streak >= 2 /\ streak < o.streak,
                       Pattern(IF streak = 2 THEN "warning" ELSE "critical", "Regression"))
           Params == When(job.params = "empty", Pattern("warning", "Suspicious build parameters"))
           found == Three \o Two \o Params
           Class == When(found = <<>> /\ FailureClass(job.console) # "unknown",
                         Pattern("warning", FailureClass(job.console)))
<1>1. PatternsOf(j, job, o) = found \o Class
  BY DEF PatternsOf
<1>2. ASSUME NEW sev, NEW symptom, symptom \notin Keywords
      PROVE  Raw(Pattern(sev, symptom))
  BY <1>2, JobRaw, ContextRaw
<1>3. \A sev : /\ Raw(Pattern(sev, "N consecutive failures")) /\ Raw(Pattern(sev, "Regression"))
               /\ Raw(Pattern(sev, "Suspicious build parameters"))
               /\ Raw(Pattern(sev, FailureClass(job.console)))
  <2> HIDE DEF Pattern
  <2>1. FailureClass(job.console) \notin Keywords
    BY DEF Keywords, FailureClass
  <2> QED
    BY <1>2, <2>1 DEF Keywords
<1> DEFINE sev == IF streak = 2 THEN "warning" ELSE "critical"
           c == Contains(results, "SUCCESS") /\ streak >= 2 /\ streak < o.streak
           d == found = <<>> /\ FailureClass(job.console) # "unknown"
<1>a. Two = When(c, Pattern(sev, "Regression"))
  OBVIOUS
<1>b. Class = When(d, Pattern("warning", FailureClass(job.console)))
  OBVIOUS
<1> HIDE DEF Pattern, sev, c, d, Two, Class
<1>4. Raws(Three)
  BY <1>3, RawsWhen
<1>5. Raws(Two)
  BY <1>3, <1>a, RawsWhen
<1>6. Raws(Params)
  BY <1>3, RawsWhen
<1>7. Raws(Class)
  BY <1>3, <1>b, RawsWhen
<1> HIDE DEF Three, Params
<1> QED
  BY <1>1, <1>4, <1>5, <1>6, <1>7, RawsConcat

LEMMA SharedFailuresRaw ==
    ASSUME NEW w, NEW jobs, IsSeq(jobs)
    PROVE  Raws(SharedFailures(w, jobs))
<1> DEFINE Sig(i) == Signature(w[jobs[i]].console)
           With(sig) == {i \in DOMAIN jobs : Sig(i) = sig}
           shared == Finding("critical", "jenkins_pipeline_pattern",
                             <<"jenkins-pipelines", "shared-failure">>,
                             <<"Same failure pattern across N jobs">>)
           First(i) == Sig(i) # "" /\ i = Min(With(Sig(i))) /\ With(Sig(i)) # {i}
           F(i) == [shared EXCEPT !.sig = Sig(i),
                                  !.about = @ \cup {JobRes(jobs[k]) : k \in With(Sig(i))}]
           ss == [i \in DOMAIN jobs |-> When(First(i), F(i))]
<1>1. SharedFailures(w, jobs) = FlattenSeq(ss)
  BY DEF SharedFailures
<1>2. ASSUME NEW i PROVE Raw(F(i))
  <2> DEFINE f == F(i)
             X == {JobRes(jobs[k]) : k \in With(Sig(i))}
             about == shared.about \cup X
  <2> HIDE DEF X
  <2>1. Raw(shared) /\ DOMAIN shared = Fields
    <3>1. Raw(shared)
      BY PlainRaw
    <3> QED
      BY <3>1 DEF Raw, Good
  <2>2. f = [shared EXCEPT !.sig = Sig(i), !.about = about]
    BY DEF X
  <2> HIDE DEF f, shared, about, Sig
  <2>3. /\ DOMAIN f = Fields /\ f.sev = shared.sev /\ f.cat = shared.cat /\ f.res = shared.res
        /\ f.sym = shared.sym /\ f.kw = shared.kw /\ f.host = shared.host
        /\ f.about = about
    BY <2>1, <2>2 DEF Fields
  <2>4. Raw(f)
    BY <2>1, <2>3 DEF Raw, Good, about
  <2> QED
    BY <2>4 DEF f
<1> HIDE DEF F, First
<1>3. \A i : Raws(When(First(i), F(i)))
  BY <1>2, RawsWhen
<1>4. ss = [i \in DOMAIN jobs |-> ss[i]] /\ \A i \in 1..Len(jobs) : Raws(ss[i])
  BY <1>3, IsSeqProperties
<1> HIDE DEF ss
<1> QED
  BY <1>1, <1>4, RawsEach

LEMMA PipelinePatternRaw ==
    ASSUME NEW w, NEW o
    PROVE  Raws(PipelinePatternCheck(w, o))
<1> DEFINE jobs == FailingJobs(w, o)
           ss == [i \in DOMAIN jobs |-> PatternsOf(jobs[i], w[jobs[i]], o)]
<1>1. PipelinePatternCheck(w, o) = FlattenSeq(ss) \o SharedFailures(w, jobs)
  BY DEF PipelinePatternCheck, Each
<1>2. IsSeq(jobs)
  BY FailingJobsChosen DEF Chosen
<1> HIDE DEF jobs
<1>3. ss = [i \in DOMAIN jobs |-> ss[i]] /\ \A i \in 1..Len(jobs) : Raws(ss[i])
  BY <1>2, PatternsRaw, IsSeqProperties
<1> HIDE DEF ss
<1>4. Raws(FlattenSeq(ss))
  BY <1>2, <1>3, RawsEach
<1>5. Raws(SharedFailures(w, jobs))
  BY <1>2, SharedFailuresRaw
<1> QED
  BY <1>1, <1>4, <1>5, RawsConcat

LEMMA ExecutorUtilizationRaw ==
    ASSUME NEW w
    PROVE  Raws(ExecutorUtilizationCheck(w))
<1> DEFINE online == SelectSeq(Computers(w), LAMBDA c : ~c.offline)
           total == FoldLeft(LAMBDA n, c : n + c.executors, 0, online)
           busy  == FoldLeft(LAMBDA n, c : n + c.busy, 0, online)
           Says(sev, symptom) ==
               Finding(sev, "jenkins_executor", <<"jenkins-executors">>, <<symptom>>)
           All == busy = total /\ w["queue"].size > 0
           Most == busy * 100 > total * 90
           one == <<Says("critical", "No executors available")>>
           two == When(All, Says("critical", "All executors busy"))
           three == When(Most, Says("warning", "pool utilization"))
<1>1. ExecutorUtilizationCheck(w) \in {<<>>, one, two \o three}
  BY DEF ExecutorUtilizationCheck
<1>2. /\ Raw(Says("critical", "No executors available"))
      /\ Raw(Says("critical", "All executors busy"))
      /\ Raw(Says("warning", "pool utilization"))
  BY PlainRaw
<1> HIDE DEF Says, All, Most
<1>3. Raws(one) /\ Raws(two) /\ Raws(three)
  BY <1>2, RawsOne, RawsWhen
<1> HIDE DEF one, two, three
<1> QED
  BY <1>1, <1>3, RawsConcat, RawsEmpty

LEMMA BuildDurationRaw ==
    ASSUME NEW w
    PROVE  Raws(BuildDurationCheck(w))
<1> DEFINE sym(b) == <<"running N.nx", w[b].tenths % 10>>
           Long(b) == w[b].tenths > 30 /\ w[b].minutes > 30
           Of(b) == IF w[b].tenths > 50 THEN <<OnBuild("critical", b, sym(b))>>
                    ELSE When(Long(b), OnBuild("warning", b, sym(b)))
           ss == [i \in DOMAIN Builds |-> Of(Builds[i])]
<1>1. BuildDurationCheck(w) = IF ~Reachable(w) THEN <<>> ELSE FlattenSeq(ss)
  BY DEF BuildDurationCheck, Each
<1>2. \A b, sev : Raw(OnBuild(sev, b, sym(b)))
  <2>1. \A b : sym(b)[1] \notin Keywords
    BY DEF Keywords
  <2> HIDE DEF sym
  <2> QED
    BY <2>1, BuildRaw
<1> HIDE DEF sym, Long
<1>3. ASSUME NEW b PROVE Raws(Of(b))
  BY <1>2, RawsOne, RawsWhen
<1> HIDE DEF Of
<1>4. ss = [i \in DOMAIN Builds |-> ss[i]] /\ \A i \in 1..Len(Builds) : Raws(ss[i])
  BY <1>3, ListsAreSeqs, IsSeqProperties
<1> HIDE DEF ss
<1> QED
  BY <1>1, <1>4, RawsEach, RawsEmpty, ListsAreSeqs

LEMMA BuildLogSizeRaw ==
    ASSUME NEW w
    PROVE  Raws(BuildLogSizeCheck(w))
<1> DEFINE Of(b) == IF w[b].log > 100 THEN <<OnBuild("critical", b, <<"log spam">>)>>
                    ELSE When(w[b].log > 50, OnBuild("warning", b, <<"log exceeding N">>))
           ss == [i \in DOMAIN Builds |-> Of(Builds[i])]
<1>1. BuildLogSizeCheck(w) = IF ~Reachable(w) THEN <<>> ELSE FlattenSeq(ss)
  BY DEF BuildLogSizeCheck, Each
<1>2. \A b, sev : Raw(OnBuild(sev, b, <<"log spam">>)) /\ Raw(OnBuild(sev, b, <<"log exceeding N">>))
  BY BuildRaw DEF Keywords
<1>3. ASSUME NEW b PROVE Raws(Of(b))
  BY <1>2, RawsOne, RawsWhen
<1> HIDE DEF Of
<1>4. ss = [i \in DOMAIN Builds |-> ss[i]] /\ \A i \in 1..Len(Builds) : Raws(ss[i])
  BY <1>3, ListsAreSeqs, IsSeqProperties
<1> HIDE DEF ss
<1> QED
  BY <1>1, <1>4, RawsEach, RawsEmpty, ListsAreSeqs

LEMMA ZombieBuildRaw ==
    ASSUME NEW w
    PROVE  Raws(ZombieBuildCheck(w))
<1> DEFINE Says(b, sev, symptom) == [OnBuild(sev, b, <<symptom>>) EXCEPT !.on = RunsOn[b]]
           Zombie(b) == w[b].minutes > 1440
           Slow(b) == w[b].tenths > 40
           Long(b) == w[b].minutes > 480
           Of(b) == IF Zombie(b) THEN <<Says(b, "critical", "Likely zombie")>>
                    ELSE IF Slow(b) THEN <<Says(b, "warning", "Zombie build")>>
                    ELSE When(Long(b), Says(b, "warning", "running for N"))
           ss == [i \in DOMAIN Builds |-> Of(Builds[i])]
<1>1. ZombieBuildCheck(w) = IF ~Reachable(w) THEN <<>> ELSE FlattenSeq(ss)
  BY DEF ZombieBuildCheck, Each
<1>2. \A b, sev : /\ Raw(Says(b, sev, "Likely zombie")) /\ Raw(Says(b, sev, "Zombie build"))
                  /\ Raw(Says(b, sev, "running for N"))
  BY BuildRaw, ContextRaw DEF Keywords
<1> HIDE DEF Says, Zombie, Slow, Long
<1>3. ASSUME NEW b PROVE Raws(Of(b))
  <2>1. Raws(<<Says(b, "critical", "Likely zombie")>>) /\ Raws(<<Says(b, "warning", "Zombie build")>>)
    BY <1>2, RawsOne
  <2>2. Raws(When(Long(b), Says(b, "warning", "running for N")))
    BY <1>2, RawsWhen
  <2> QED
    BY <2>1, <2>2
<1> HIDE DEF Of
<1>4. ss = [i \in DOMAIN Builds |-> ss[i]] /\ \A i \in 1..Len(Builds) : Raws(ss[i])
  BY <1>3, ListsAreSeqs, IsSeqProperties
<1> HIDE DEF ss
<1> QED
  BY <1>1, <1>4, RawsEach, RawsEmpty, ListsAreSeqs

LEMMA JobFlagsRaw ==
    ASSUME NEW w
    PROVE  Raws(DisabledJobCheck(w)) /\ Raws(FlakyTestCheck(w)) /\ Raws(SCMPollingCheck(w))
<1> DEFINE Disabled(j) == Reachable(w) /\ w[j].disabled /\ Results(w[j]) # <<>>
           Mixed(j) == LET results == AtMost(10, Results(w[j])) IN
               /\ Reachable(w) /\ FailedColor(w[j])
               /\ Count("SUCCESS", results) >= 2 /\ Count("FAILURE", results) >= 2
           Errors(j) == Reachable(w) /\ w[j].polling = "errors"
           a == [i \in DOMAIN Jobs |-> When(Disabled(Jobs[i]),
                   OnJob("warning", "jenkins_job", Jobs[i], "disabled but built recently"))]
           b == [i \in DOMAIN Jobs |-> When(Mixed(Jobs[i]),
                   OnJob("warning", "jenkins_flaky_test", Jobs[i], "Flaky job"))]
           c == [i \in DOMAIN Jobs |-> When(Errors(Jobs[i]),
                   OnJob("warning", "jenkins_scm_polling", Jobs[i], "SCM polling errors"))]
<1>1. /\ DisabledJobCheck(w) = FlattenSeq(a)
      /\ FlakyTestCheck(w) = FlattenSeq(b)
      /\ SCMPollingCheck(w) = FlattenSeq(c)
  BY DEF DisabledJobCheck, FlakyTestCheck, SCMPollingCheck, Each
<1>2. \A j : /\ Raw(OnJob("warning", "jenkins_job", j, "disabled but built recently"))
             /\ Raw(OnJob("warning", "jenkins_flaky_test", j, "Flaky job"))
             /\ Raw(OnJob("warning", "jenkins_scm_polling", j, "SCM polling errors"))
  BY JobRaw DEF Keywords
<1> HIDE DEF Disabled, Mixed, Errors
<1>3. DOMAIN Jobs = 1..Len(Jobs)
  BY ListsAreSeqs, IsSeqProperties
<1>4. a = [i \in DOMAIN Jobs |-> a[i]] /\ \A i \in 1..Len(Jobs) : Raws(a[i])
  BY <1>2, <1>3, RawsWhen
<1>5. b = [i \in DOMAIN Jobs |-> b[i]] /\ \A i \in 1..Len(Jobs) : Raws(b[i])
  BY <1>2, <1>3, RawsWhen
<1>6. c = [i \in DOMAIN Jobs |-> c[i]] /\ \A i \in 1..Len(Jobs) : Raws(c[i])
  BY <1>2, <1>3, RawsWhen
<1> HIDE DEF a, b, c
<1> QED
  BY <1>1, <1>4, <1>5, <1>6, RawsEach, ListsAreSeqs

LEMMA StaleBranchRaw ==
    ASSUME NEW w, WellRead(w)
    PROVE  Raws(StaleBranchCheck(w))
<1> DEFINE F(j, i) == Finding("low", "jenkins_stale_branch", <<"jenkins-job", j, i>>, <<"Stale branch">>)
           Of(j) == IF ~Reachable(w) \/ w[j].stale <= 5 THEN <<>> ELSE
                        [i \in 1..w[j].stale |-> F(j, i)]
           ss == [i \in DOMAIN Jobs |-> Of(Jobs[i])]
<1>1. StaleBranchCheck(w) = FlattenSeq(ss)
  BY DEF StaleBranchCheck, Each
<1>2. \A j, i : Raw(F(j, i))
  BY PlainRaw
<1> HIDE DEF F
<1>3. ASSUME NEW j \in ToSet(Jobs) PROVE Raws(Of(j))
  <2> DEFINE n == w[j].stale
             s == [i \in 1..n |-> F(j, i)]
  <2>1. n \in Nat
    BY DEF WellRead
  <2> HIDE DEF n
  <2>2. s = [i \in 1..n |-> s[i]] /\ \A i \in 1..n : Raw(s[i])
    BY <1>2
  <2> HIDE DEF s
  <2>3. IsSeq(s) /\ ToSet(s) = {s[i] : i \in 1..n}
    BY <2>1, <2>2, FunctionIsSeq
  <2>4. Raws(s)
    BY <2>2, <2>3 DEF Raws
  <2>5. Of(j) \in {<<>>, s}
    BY DEF s, n
  <2> HIDE DEF Of
  <2> QED
    BY <2>4, <2>5, RawsEmpty
<1> HIDE DEF Of
<1>4. ss = [i \in DOMAIN Jobs |-> ss[i]] /\ \A i \in 1..Len(Jobs) : Raws(ss[i])
  BY <1>3, ListsAreSeqs, IsSeqProperties
<1> HIDE DEF ss
<1> QED
  BY <1>1, <1>4, RawsEach, ListsAreSeqs

-----------------------------------------------------------------------------
(* The checks on the controller and on the cluster.                        *)

LEMMA ControllerRaw ==
    ASSUME NEW w
    PROVE  Raws(ControllerHealthCheck(w))
<1> DEFINE c == w["controller"]
           Says(sev, symptom) ==
               <<Finding(sev, "jenkins_controller", <<"jenkins-controller">>, <<symptom>>)>>
           Quiet == IF c.quieting THEN Says("warning", "quiet-down") ELSE <<>>
           Disk == CASE c.disk < 2 -> Says("critical", "disk critically low")
                     [] c.disk \in 2..9 -> Says("warning", "disk space low")
                     [] OTHER -> <<>>
           Temp == IF c.temp < 2 THEN Says("warning", "temp space low") ELSE <<>>
           Memory == CASE c.mem > 95 -> Says("critical", "memory critically high")
                       [] c.mem \in 91..95 -> Says("warning", "memory high")
                       [] OTHER -> <<>>
           Response == IF c.response > 5000 THEN Says("warning", "slow") ELSE <<>>
<1>1. ControllerHealthCheck(w)
        = IF ~Reachable(w) THEN <<>> ELSE Quiet \o Disk \o Temp \o Memory \o Response
  BY DEF ControllerHealthCheck
<1>2. /\ Raws(Says("warning", "quiet-down")) /\ Raws(Says("critical", "disk critically low"))
      /\ Raws(Says("warning", "disk space low")) /\ Raws(Says("warning", "temp space low"))
      /\ Raws(Says("critical", "memory critically high")) /\ Raws(Says("warning", "memory high"))
      /\ Raws(Says("warning", "slow")) /\ Raws(<<>>)
  BY PlainRaw, RawsOne, RawsEmpty
<1> HIDE DEF Says, c
<1>3. /\ Quiet \in {Says("warning", "quiet-down"), <<>>}
      /\ Temp \in {Says("warning", "temp space low"), <<>>}
      /\ Response \in {Says("warning", "slow"), <<>>}
  OBVIOUS
<1>4. Raws(Disk)
  BY <1>2
<1>5. Raws(Memory)
  BY <1>2
<1> HIDE DEF Quiet, Disk, Temp, Memory, Response
<1> QED
  BY <1>1, <1>2, <1>3, <1>4, <1>5, RawsConcat

LEMMA PluginRaw ==
    ASSUME NEW w
    PROVE  Raws(PluginHealthCheck(w))
<1> DEFINE Off == ~w["plugin"].loaded
           Behind == w["controller"].updates > 20
           a == When(Off, Finding("warning", "jenkins_plugin", <<"jenkins-plugin", "plugin">>,
                                  <<"not active">>))
           b == When(Behind, Finding("low", "jenkins_plugin", <<"jenkins-plugins">>,
                                     <<"pending updates">>))
<1>1. PluginHealthCheck(w) = IF ~Reachable(w) THEN <<>> ELSE a \o b
  BY DEF PluginHealthCheck
<1> HIDE DEF Off, Behind
<1>2. Raws(a) /\ Raws(b)
  BY PlainRaw, RawsWhen
<1> HIDE DEF a, b
<1> QED
  BY <1>1, <1>2, RawsConcat, RawsEmpty

LEMMA CredentialRaw ==
    ASSUME NEW w, WellRead(w)
    PROVE  Raws(CredentialHealthCheck(w))
<1> DEFINE says == w["credential"].says
           C == Reachable(w) /\ says # "nothing"
           sev == IF says = "expired" THEN "warning" ELSE "low"
           f == Finding(sev, "jenkins_credential", <<"jenkins-credential", "credential">>, <<says>>)
<1>1. CredentialHealthCheck(w) = When(C, f)
  BY DEF CredentialHealthCheck
<1>2. says \notin Keywords
  BY DEF WellRead
<1> HIDE DEF says, sev, C
<1>3. Raw(f)
  BY <1>2, PlainRaw DEF Keywords
<1> QED
  BY <1>1, <1>3, RawsWhen

LEMMA NodeCheckRaw ==
    ASSUME NEW w, WellRead(w)
    PROVE  Raws(NodeCheck(w))
<1> DEFINE Says(n, sev, symptom) == Finding(sev, "k8s_node", <<"node", n>>, <<symptom>>)
           Usage(n, value, symptom) ==
               When(Metered(w) /\ value > 85, Says(n, SeverityFor(value, 95), symptom))
           Severity(n) == IF w[n].pressure = "MemoryPressure" THEN "critical" ELSE "warning"
           Ready(n) == When(~w[n].ready, Says(n, "critical", "Node NotReady"))
           Pressure(n) == When(w[n].pressure # "none", Says(n, Severity(n), w[n].pressure))
           CPU(n) == Usage(n, w[n].cpu, "CPU of allocatable")
           Memory(n) == Usage(n, w[n].mem, "Memory of allocatable")
           a == [i \in DOMAIN Nodes |-> Ready(Nodes[i]) \o Pressure(Nodes[i])]
           b == [i \in DOMAIN Nodes |-> CPU(Nodes[i]) \o Memory(Nodes[i])]
<1>1. NodeCheck(w) = FlattenSeq(a) \o FlattenSeq(b)
  BY DEF NodeCheck, Each
<1>2. \A n, sev, symptom : symptom \notin Keywords => Raw(Says(n, sev, symptom))
  BY PlainRaw DEF Keywords
<1>3. \A n, value, symptom : symptom \notin Keywords => Raws(Usage(n, value, symptom))
  <2> HIDE DEF Says
  <2> QED
    BY <1>2, RawsWhen
<1> HIDE DEF Says, Usage, Severity
<1>4. ASSUME NEW n \in ToSet(Nodes) PROVE Raws(Ready(n) \o Pressure(n))
  <2>1. Raws(Ready(n))
    BY <1>2, RawsWhen DEF Keywords
  <2>2. Raws(Pressure(n))
    <3>1. Raw(Says(n, Severity(n), w[n].pressure))
      BY <1>2 DEF WellRead
    <3> QED
      BY <3>1, RawsWhen
  <2> HIDE DEF Ready, Pressure
  <2> QED
    BY <2>1, <2>2, RawsConcat
<1>5. ASSUME NEW n PROVE Raws(CPU(n) \o Memory(n))
  <2>1. Raws(CPU(n)) /\ Raws(Memory(n))
    BY <1>3 DEF Keywords
  <2> HIDE DEF CPU, Memory
  <2> QED
    BY <2>1, RawsConcat
<1> HIDE DEF Ready, Pressure, CPU, Memory
<1>6. DOMAIN Nodes = 1..Len(Nodes) /\ \A i \in 1..Len(Nodes) : Nodes[i] \in ToSet(Nodes)
  BY ListsAreSeqs, IsSeqProperties
<1>7. a = [i \in DOMAIN Nodes |-> a[i]] /\ \A i \in 1..Len(Nodes) : Raws(a[i])
  BY <1>4, <1>6
<1>8. b = [i \in DOMAIN Nodes |-> b[i]] /\ \A i \in 1..Len(Nodes) : Raws(b[i])
  BY <1>5, <1>6
<1> HIDE DEF a, b
<1>9. Raws(FlattenSeq(a)) /\ Raws(FlattenSeq(b))
  BY <1>7, <1>8, RawsEach, ListsAreSeqs
<1> QED
  BY <1>1, <1>9, RawsConcat

LEMMA WorkloadRaw ==
    ASSUME NEW w
    PROVE  Raws(WorkloadCheck(w))
<1> DEFINE d == w["deployment"]
           s == w["stateful"]
           Says(sev, name, symptom) == Finding(sev, "k8s_workload", <<Namespace, name>>, <<symptom>>)
           Severity(gone) == IF gone = 2 THEN "critical" ELSE "warning"
           a == When(d.gone > 0, Says(Severity(d.gone), "deployment", "unavailable replicas"))
           b == When(d.stuck, Says("warning", "deployment", "rollout stuck"))
           c == When(s.gone > 0, Says(Severity(s.gone), "stateful", "ready replicas"))
<1>1. WorkloadCheck(w) = a \o b \o c
  BY DEF WorkloadCheck
<1>2. \A sev, name : /\ Raw(Says(sev, name, "unavailable replicas"))
                     /\ Raw(Says(sev, name, "rollout stuck"))
                     /\ Raw(Says(sev, name, "ready replicas"))
  BY PlainRaw
<1> HIDE DEF Says, Severity
<1>3. Raws(a) /\ Raws(b) /\ Raws(c)
  BY <1>2, RawsWhen
<1> HIDE DEF a, b, c
<1> QED
  BY <1>1, <1>3, RawsConcat

LEMMA EventsRaw ==
    ASSUME NEW w, WellRead(w)
    PROVE  Raws(EventsCheck(w))
<1> DEFINE e == w["event"]
           Says(sev) == Finding(sev, "k8s_event", <<Namespace, "Pod", EventOn[1]>>, <<e.reason>>)
           C == e.reason # "none" /\ ~e.old
           sev == IF e.reason = "OOMKilling" THEN "critical" ELSE "warning"
           f == [Says(sev) EXCEPT !.host = EventOn[2]]
<1>1. EventsCheck(w) = When(C, f)
  BY DEF EventsCheck
<1>2. e.reason \notin Keywords
  BY DEF WellRead
<1> HIDE DEF sev, C, e
<1>3. Raw(Says(sev)) /\ Says(sev).cat = "k8s_event"
  <2>1. Raw(Says(sev))
    BY <1>2, PlainRaw DEF Keywords
  <2> QED
    BY <2>1 DEF Finding
<1> HIDE DEF Says
<1>4. Raw(f)
  BY <1>3, ContextRaw
<1> QED
  BY <1>1, <1>4, RawsWhen

LEMMA CertRaw ==
    ASSUME NEW w
    PROVE  Raws(CertCheck(w))
<1> DEFINE c == w["cert"]
           Says(sev, symptom) == Finding(sev, "cert", <<Namespace, "cert", "cert">>, <<symptom>>)
           sev == IF c.days < 3 THEN "critical" ELSE "warning"
           Ready == When(~c.ready, Says("warning", "not ready"))
           Soon == When(c.days < 14, Says(sev, "expires"))
           Expired == <<Says("critical", "EXPIRED")>>
<1>1. CertCheck(w) \in {Ready \o Soon, Ready \o Expired}
  BY DEF CertCheck
<1>2. \A v : Raw(Says(v, "not ready")) /\ Raw(Says(v, "expires")) /\ Raw(Says(v, "EXPIRED"))
  BY PlainRaw
<1> HIDE DEF Says, sev
<1>3. Raws(Ready) /\ Raws(Soon) /\ Raws(Expired)
  BY <1>2, RawsOne, RawsWhen
<1> HIDE DEF Ready, Soon, Expired
<1>4. Raws(Ready \o Soon) /\ Raws(Ready \o Expired)
  BY <1>3, RawsConcat
<1> QED
  BY <1>1, <1>4

LEMMA PodResourceRaw ==
    ASSUME NEW w
    PROVE  Raws(PodResourceCheck(w))
<1> DEFINE C(p, value) == w[p].state = "running" /\ w[p].limits /\ value > 85
           Usage(p, value, symptom) ==
               When(C(p, value),
                    Finding(SeverityFor(value, 95), "pod_resource", <<Namespace, p>>, <<symptom>>))
           Memory(p) == Usage(p, w[p].mem, "Memory of limit")
           CPU(p) == Usage(p, w[p].cpu, "CPU of limit")
           ss == [i \in DOMAIN Pods |-> Memory(Pods[i]) \o CPU(Pods[i])]
<1>1. PodResourceCheck(w) = IF ~Metered(w) THEN <<>> ELSE FlattenSeq(ss)
  BY DEF PodResourceCheck, Each
<1> HIDE DEF C
<1>2. \A p, value : Raws(Usage(p, value, "Memory of limit")) /\ Raws(Usage(p, value, "CPU of limit"))
  BY PlainRaw, RawsWhen
<1> HIDE DEF Usage
<1>3. \A p : Raws(Memory(p)) /\ Raws(CPU(p))
  BY <1>2
<1> HIDE DEF Memory, CPU
<1>4. ss = [i \in DOMAIN Pods |-> ss[i]] /\ \A i \in 1..Len(Pods) : Raws(ss[i])
  BY <1>3, RawsConcat, ListsAreSeqs, IsSeqProperties
<1> HIDE DEF ss
<1> QED
  BY <1>1, <1>4, RawsEach, RawsEmpty, ListsAreSeqs

LEMMA PVCRaw ==
    ASSUME NEW w
    PROVE  Raws(PVCCheck(w))
<1> DEFINE c == w["pvc"]
           Says(sev, symptom) == <<Finding(sev, "pvc", <<Namespace, "pvc">>, <<symptom>>)>>
<1>1. PVCCheck(w) \in {Says("warning", "PVC Pending"), Says("critical", "PVC Lost"),
                       Says("warning", "unhealthy PV"), <<>>}
  BY DEF PVCCheck
<1>2. /\ Raws(Says("warning", "PVC Pending")) /\ Raws(Says("critical", "PVC Lost"))
      /\ Raws(Says("warning", "unhealthy PV"))
  BY PlainRaw, RawsOne
<1> HIDE DEF Says
<1> QED
  BY <1>1, <1>2, RawsEmpty

-----------------------------------------------------------------------------
(* The registry.                                                           *)

LEMMA AnswersRaw ==
    ASSUME NEW w, WellRead(w), NEW o
    PROVE  /\ IsSeq(Answers(w, o))
           /\ \A i \in 1..Len(Answers(w, o)) : Raws(Answers(w, o)[i][2])
<1> DEFINE all == Answers(w, o)
<1>1. /\ Raws(AgentPodCheck(w)) /\ Raws(AgentResourceCheck(w)) /\ Raws(AgentErrorCheck(w))
      /\ Raws(AgentConnectivityCheck(w)) /\ Raws(AgentOfflineCheck(w))
  BY AgentPodRaw, AgentResourceRaw, AgentErrorRaw, AgentConnectivityRaw, AgentOfflineRaw
<1>2. /\ Raws(JenkinsJobCheck(w)) /\ Raws(JenkinsFailedBuildCheck(w, o))
      /\ Raws(PipelinePatternCheck(w, o)) /\ Raws(ExecutorUtilizationCheck(w))
      /\ Raws(BuildDurationCheck(w)) /\ Raws(BuildLogSizeCheck(w)) /\ Raws(ZombieBuildCheck(w))
      /\ Raws(DisabledJobCheck(w)) /\ Raws(FlakyTestCheck(w)) /\ Raws(SCMPollingCheck(w))
      /\ Raws(StaleBranchCheck(w))
  BY JenkinsJobRaw, FailedBuildRaw, PipelinePatternRaw, ExecutorUtilizationRaw,
     BuildDurationRaw, BuildLogSizeRaw, ZombieBuildRaw, JobFlagsRaw, StaleBranchRaw
<1>3. /\ Raws(ControllerHealthCheck(w)) /\ Raws(PluginHealthCheck(w))
      /\ Raws(CredentialHealthCheck(w)) /\ Raws(NodeCheck(w)) /\ Raws(WorkloadCheck(w))
      /\ Raws(EventsCheck(w)) /\ Raws(CertCheck(w)) /\ Raws(PodResourceCheck(w))
      /\ Raws(PVCCheck(w))
  BY ControllerRaw, PluginRaw, CredentialRaw, NodeCheckRaw, WorkloadRaw, EventsRaw,
     CertRaw, PodResourceRaw, PVCRaw
<1>4. DOMAIN all = 1..25 /\ all = [i \in 1..25 |-> all[i]]
  BY DEF Answers
<1>5. \A i \in 1..25 : Raws(all[i][2])
  BY <1>1, <1>2, <1>3 DEF Answers
<1> HIDE DEF all
<1>6. IsSeq(all) /\ Len(all) = 25
  BY <1>4, FunctionIsSeq
<1> QED
  BY <1>5, <1>6 DEF all

\* A lost answer takes nothing else with it.
LEMMA RawFindingsProperties ==
    ASSUME NEW w, WellRead(w), NEW o, NEW lost
    PROVE  /\ Raws(RawFindings(w, o, lost))
           /\ \A i \in DOMAIN Answers(w, o) : Answers(w, o)[i][1] \notin lost =>
                \A k \in DOMAIN Answers(w, o)[i][2] :
                  Answers(w, o)[i][2][k] \in ToSet(RawFindings(w, o, lost))
<1> DEFINE all == Answers(w, o)
           ss == [i \in DOMAIN all |-> IF all[i][1] \in lost THEN <<>> ELSE all[i][2]]
           raw == RawFindings(w, o, lost)
<1>1. raw = FlattenSeq(ss)
  BY DEF RawFindings, Each
<1>2. IsSeq(all) /\ \A i \in 1..Len(all) : Raws(all[i][2])
  BY AnswersRaw
<1> HIDE DEF all
<1>3. DOMAIN all = 1..Len(all) /\ Len(all) \in Nat
  BY <1>2, IsSeqProperties
<1>4. ss = [i \in 1..Len(all) |-> ss[i]] /\ \A i \in 1..Len(all) : Raws(ss[i])
  BY <1>2, <1>3, RawsEmpty
<1>5. \A i \in 1..Len(all) : all[i][1] \notin lost => ss[i] = all[i][2]
  BY <1>3
<1> HIDE DEF ss, raw
<1>6. IsSeq(ss) /\ Len(ss) = Len(all)
  BY <1>3, <1>4, FunctionIsSeq
<1>7. IsSeq(raw) /\ ToSet(raw) = UNION {ToSet(ss[i]) : i \in 1..Len(ss)}
  BY <1>1, <1>4, <1>6, FlattenProperties DEF Raws
<1>8. Raws(raw)
  BY <1>4, <1>6, <1>7 DEF Raws
<1>9. ASSUME NEW i \in DOMAIN all, all[i][1] \notin lost, NEW k \in DOMAIN all[i][2]
      PROVE  all[i][2][k] \in ToSet(raw)
  <2>1. i \in 1..Len(ss) /\ ss[i] = all[i][2] /\ IsSeq(ss[i])
    BY <1>3, <1>4, <1>5, <1>6, <1>9 DEF Raws
  <2>2. ss[i][k] \in ToSet(ss[i])
    BY <1>9, <2>1, IsSeqProperties
  <2> QED
    BY <1>7, <2>1, <2>2
<1> QED
  BY <1>8, <1>9 DEF all, raw

-----------------------------------------------------------------------------
(* What is read.                                                           *)

\* Every observation is at a value of its scale.
OnScale(w) ==
    /\ DOMAIN w = Subjects
    /\ \A s \in Subjects :
         /\ DOMAIN w[s] = DOMAIN Scale[s]
         /\ \A f \in DOMAIN Scale[s] : w[s][f] \in ToSet(Scale[s][f])

WorldInv == OnScale(world)

LEMMA ScaleOf ==
    /\ Subjects = ToSet(Pods) \cup ToSet(Agents) \cup ToSet(Jobs) \cup ToSet(Builds)
                    \cup ToSet(Nodes) \cup Others
    /\ \A s \in ToSet(Pods) : Scale[s] = PodScale
    /\ \A s \in ToSet(Agents) : Scale[s] = AgentScale
    /\ \A s \in ToSet(Jobs) : Scale[s] = JobScale
    /\ \A s \in ToSet(Builds) : Scale[s] = BuildScale
    /\ \A s \in ToSet(Nodes) : Scale[s] = NodeScale
    /\ \A s \in Others : Scale[s] = OtherScale[s]
<1>1. /\ ToSet(Pods) \cap ToSet(Agents) = {} /\ ToSet(Pods) \cap ToSet(Jobs) = {}
      /\ ToSet(Pods) \cap ToSet(Builds) = {} /\ ToSet(Pods) \cap ToSet(Nodes) = {}
      /\ ToSet(Pods) \cap Others = {} /\ ToSet(Agents) \cap ToSet(Jobs) = {}
      /\ ToSet(Agents) \cap ToSet(Builds) = {} /\ ToSet(Agents) \cap ToSet(Nodes) = {}
      /\ ToSet(Agents) \cap Others = {} /\ ToSet(Jobs) \cap ToSet(Builds) = {}
      /\ ToSet(Jobs) \cap ToSet(Nodes) = {} /\ ToSet(Jobs) \cap Others = {}
      /\ ToSet(Builds) \cap ToSet(Nodes) = {} /\ ToSet(Builds) \cap Others = {}
      /\ ToSet(Nodes) \cap Others = {}
  <2> HIDE DEF Others
  <2> QED
    BY SubjectsAssumption
<1>2. Subjects = ToSet(Pods) \cup ToSet(Agents) \cup ToSet(Jobs) \cup ToSet(Builds)
                   \cup ToSet(Nodes) \cup Others
  BY ListsAreSeqs, ConcatIsSeq DEF Subjects
<1> HIDE DEF Others
<1>3. \A s \in Subjects : Scale[s] =
    CASE s \in ToSet(Pods)   -> PodScale
      [] s \in ToSet(Agents) -> AgentScale
      [] s \in ToSet(Jobs)   -> JobScale
      [] s \in ToSet(Builds) -> BuildScale
      [] s \in ToSet(Nodes)  -> NodeScale
      [] OTHER               -> OtherScale[s]
  BY DEF Scale
<1> HIDE DEF Subjects, Scale, PodScale, AgentScale, JobScale, BuildScale, NodeScale, OtherScale
<1>4. ASSUME NEW s \in ToSet(Pods) PROVE Scale[s] = PodScale
  BY <1>1, <1>2, <1>3
<1>5. ASSUME NEW s \in ToSet(Agents) PROVE Scale[s] = AgentScale
  BY <1>1, <1>2, <1>3
<1>6. ASSUME NEW s \in ToSet(Jobs) PROVE Scale[s] = JobScale
  BY <1>1, <1>2, <1>3
<1>7. ASSUME NEW s \in ToSet(Builds) PROVE Scale[s] = BuildScale
  BY <1>1, <1>2, <1>3
<1>8. ASSUME NEW s \in ToSet(Nodes) PROVE Scale[s] = NodeScale
  BY <1>1, <1>2, <1>3
<1>9. ASSUME NEW s \in Others PROVE Scale[s] = OtherScale[s]
  BY <1>1, <1>2, <1>3
<1> QED
  BY <1>2, <1>4, <1>5, <1>6, <1>7, <1>8, <1>9

\* A scale is a list of one value at least.
Listed(x) == Len(x) \in Nat /\ DOMAIN x = 1..Len(x) /\ 1 \in DOMAIN x

LEMMA ScalesListed ==
    ASSUME NEW s \in Subjects, NEW f \in DOMAIN Scale[s]
    PROVE  Listed(Scale[s][f])
<1>2. \A g \in DOMAIN PodScale : Listed(PodScale[g])
  BY DEF PodScale, Percent, Brief, Listed
<1>3. \A g \in DOMAIN AgentScale : Listed(AgentScale[g])
  <2> DEFINE p == Percent \o <<100>>
             Texts == {<<"online", "temporarily", "offline">>, <<"none given", "lost">>}
             Numbers == {<<10, 0>>, <<0, 9, 10>>, <<20000, 3000, 500, 0>>}
  <2>1. Listed(p)
    BY DEF Percent, Listed
  <2>2. (\A x \in Texts : Listed(x)) /\ (\A x \in Numbers : Listed(x))
    BY DEF Listed
  <2>3. DOMAIN AgentScale = {"state", "reason", "executors", "busy", "mem", "disk"}
    BY DEF AgentScale
  <2>4. /\ AgentScale["state"] \in Texts /\ AgentScale["reason"] \in Texts
        /\ AgentScale["executors"] \in Numbers /\ AgentScale["busy"] \in Numbers
        /\ AgentScale["mem"] = p /\ AgentScale["disk"] \in Numbers
    BY DEF AgentScale
  <2> HIDE DEF p, Texts, Numbers
  <2> QED
    BY <2>1, <2>2, <2>3, <2>4
<1>4. \A g \in DOMAIN JobScale : Listed(JobScale[g])
  BY DEF JobScale, Listed
<1>5. \A g \in DOMAIN BuildScale : Listed(BuildScale[g])
  BY DEF BuildScale, Listed
<1>6. \A g \in DOMAIN NodeScale : Listed(NodeScale[g])
  BY DEF NodeScale, Percent, Brief, Listed
<1>7. ASSUME NEW t \in Others, NEW g \in DOMAIN OtherScale[t] PROVE Listed(OtherScale[t][g])
  <2>1. CASE t = "metrics"
    BY <2>1 DEF OtherScale, Listed
  <2>2. CASE t = "queue"
    BY <2>2 DEF OtherScale, Listed
  <2>3. CASE t = "controller"
    BY <2>3 DEF OtherScale, Listed, Percent
  <2>4. CASE t = "plugin"
    BY <2>4 DEF OtherScale, Listed
  <2>5. CASE t = "credential"
    BY <2>5 DEF OtherScale, Listed
  <2>6. CASE t = "deployment"
    BY <2>6 DEF OtherScale, Listed
  <2>7. CASE t = "stateful"
    BY <2>7 DEF OtherScale, Listed
  <2>8. CASE t = "event"
    BY <2>8 DEF OtherScale, Listed
  <2>9. CASE t = "cert"
    BY <2>9 DEF OtherScale, Listed
  <2>10. CASE t = "pvc"
    BY <2>10 DEF OtherScale, Listed
  <2> QED
    BY <2>1, <2>2, <2>3, <2>4, <2>5, <2>6, <2>7, <2>8, <2>9, <2>10 DEF Others, OtherScale
<1>8. Listed(Scale[s][f])
  <2> HIDE DEF Others, Subjects, Scale
  <2>1. CASE s \in ToSet(Pods)
    BY <1>2, <2>1, ScaleOf
  <2>2. CASE s \in ToSet(Agents)
    BY <1>3, <2>2, ScaleOf
  <2>3. CASE s \in ToSet(Jobs)
    BY <1>4, <2>3, ScaleOf
  <2>4. CASE s \in ToSet(Builds)
    BY <1>5, <2>4, ScaleOf
  <2>5. CASE s \in ToSet(Nodes)
    BY <1>6, <2>5, ScaleOf
  <2>6. CASE s \in Others
    BY <1>7, <2>6, ScaleOf
  <2> QED
    BY <2>1, <2>2, <2>3, <2>4, <2>5, <2>6, ScaleOf
<1> QED
  BY <1>8

LEMMA ScaleStarts ==
    ASSUME NEW s \in Subjects, NEW f \in DOMAIN Scale[s]
    PROVE  Scale[s][f][1] \in ToSet(Scale[s][f])
BY ScalesListed DEF Listed, ToSet

LEMMA OnScaleWellRead ==
    ASSUME NEW w, OnScale(w)
    PROVE  WellRead(w)
<1>1. ASSUME NEW j \in ToSet(Jobs) PROVE w[j].stale \in Nat
  <2>1. j \in Subjects /\ Scale[j] = JobScale
    BY ScaleOf
  <2>2. "stale" \in DOMAIN JobScale /\ JobScale["stale"] = <<0, 5, 6>>
    BY DEF JobScale
  <2>3. w[j].stale \in ToSet(<<0, 5, 6>>)
    BY <2>1, <2>2 DEF OnScale
  <2> QED
    BY <2>3 DEF ToSet
<1>2. ASSUME NEW n \in ToSet(Nodes) PROVE w[n].pressure \notin Keywords
  <2>1. n \in Subjects /\ Scale[n] = NodeScale
    BY ScaleOf
  <2>2. /\ "pressure" \in DOMAIN NodeScale
        /\ NodeScale["pressure"] = <<"none", "MemoryPressure", "DiskPressure">>
    BY DEF NodeScale
  <2>3. w[n].pressure \in ToSet(<<"none", "MemoryPressure", "DiskPressure">>)
    BY <2>1, <2>2 DEF OnScale
  <2> QED
    BY <2>3 DEF ToSet, Keywords
<1>3. w["event"].reason \notin Keywords
  <2>1. "event" \in Subjects /\ Scale["event"] = OtherScale["event"]
    <3>1. "event" \in Others
      BY DEF Others, OtherScale
    <3> QED
      BY <3>1, ScaleOf
  <2>2. /\ "reason" \in DOMAIN OtherScale["event"]
        /\ OtherScale["event"]["reason"] = <<"none", "BackOff", "OOMKilling">>
    BY DEF OtherScale
  <2>3. w["event"].reason \in ToSet(<<"none", "BackOff", "OOMKilling">>)
    BY <2>1, <2>2 DEF OnScale
  <2> QED
    BY <2>3 DEF ToSet, Keywords
<1>4. w["credential"].says \notin Keywords
  <2>1. "credential" \in Subjects /\ Scale["credential"] = OtherScale["credential"]
    <3>1. "credential" \in Others
      BY DEF Others, OtherScale
    <3> QED
      BY <3>1, ScaleOf
  <2>2. /\ "says" \in DOMAIN OtherScale["credential"]
        /\ OtherScale["credential"]["says"] = <<"nothing", "renew", "expired">>
    BY DEF OtherScale
  <2>3. w["credential"].says \in ToSet(<<"nothing", "renew", "expired">>)
    BY <2>1, <2>2 DEF OnScale
  <2> QED
    BY <2>3 DEF ToSet, Keywords
<1> QED
  BY <1>1, <1>2, <1>3, <1>4 DEF WellRead

LEMMA InitOnScale == Init => WorldInv
<1> SUFFICES ASSUME Init PROVE OnScale(Healthy)
  BY DEF Init, WorldInv
<1>1. DOMAIN Healthy = Subjects
  BY DEF Healthy
<1>2. ASSUME NEW s \in Subjects
      PROVE  /\ DOMAIN Healthy[s] = DOMAIN Scale[s]
             /\ \A f \in DOMAIN Scale[s] : Healthy[s][f] \in ToSet(Scale[s][f])
  <2>1. Healthy[s] = [f \in DOMAIN Scale[s] |-> Scale[s][f][1]]
    BY DEF Healthy
  <2> QED
    BY <2>1, ScaleStarts
<1> QED
  BY <1>1, <1>2 DEF OnScale

LEMMA NextOnScale == WorldInv /\ [Next]_vars => WorldInv'
<1> SUFFICES ASSUME WorldInv, [Next]_vars PROVE WorldInv'
  OBVIOUS
<1>1. ASSUME NEW s \in Subjects, NEW f \in DOMAIN Scale[s], NEW v \in ToSet(Scale[s][f]),
             Observe(s, f, v)
      PROVE  WorldInv'
  <2>1. world' = [world EXCEPT ![s][f] = v]
    BY <1>1 DEF Observe
  <2>2. OnScale(world)
    BY DEF WorldInv
  <2>3. OnScale(world')
    <3> HIDE DEF Subjects, Scale
    <3>1. DOMAIN world' = Subjects
      BY <2>1, <2>2 DEF OnScale
    <3>2. ASSUME NEW t \in Subjects
          PROVE  /\ DOMAIN world'[t] = DOMAIN Scale[t]
                 /\ \A g \in DOMAIN Scale[t] : world'[t][g] \in ToSet(Scale[t][g])
      <4>1. CASE t = s
        <5>1. world'[t] = [world[s] EXCEPT ![f] = v]
          BY <2>1, <2>2, <4>1 DEF OnScale
        <5> QED
          BY <2>2, <4>1, <5>1 DEF OnScale
      <4>2. CASE t # s
        <5>1. world'[t] = world[t]
          BY <2>1, <2>2, <4>2 DEF OnScale
        <5> QED
          BY <2>2, <5>1 DEF OnScale
      <4> QED
        BY <4>1, <4>2
    <3> QED
      BY <3>1, <3>2 DEF OnScale
  <2> QED
    BY <2>3 DEF WorldInv
<1>2. ASSUME UNCHANGED world PROVE WorldInv'
  BY <1>2 DEF WorldInv
<1> QED
  BY <1>1, <1>2 DEF Next, Fail, Answer, Switch, Dismiss, Undismiss, vars

\* Whatever is observed stays a value of its scale.
THEOREM AlwaysOnScale == Spec => []WorldInv
  BY InitOnScale, NextOnScale, PTL DEF Spec

-----------------------------------------------------------------------------
(* The report.                                                             *)

LEMMA RawsGoods == ASSUME NEW fs, Raws(fs) PROVE Goods(fs)
  BY DEF Raws, Raw, Goods

\* From the grouped findings to the report.
LEMMA ReportProperties ==
    ASSUME NEW found, Goods(found), KeysApart(found), NEW dis
    PROVE  LET report == Correlate(Deduplicate(Undismissed(found, dis))) IN
           /\ IsSeq(report) /\ ResourcesApart(report)
           /\ \A g \in ToSet(report) : Fingerprint(g) \notin dis
           /\ \A g \in ToSet(report) : \E f \in ToSet(found) : Alike(g, f)
           /\ \A f \in ToSet(found) : Fingerprint(f) \notin dis => Said(f, report)
<1> DEFINE left == Undismissed(found, dis)
           deduped == Deduplicate(left)
           report == Correlate(deduped)
<1>1. /\ Goods(left) /\ KeysApart(left)
      /\ ToSet(left) = {f \in ToSet(found) : Fingerprint(f) \notin dis}
  BY UndismissedProperties
<1> HIDE DEF left
<1>2. /\ Goods(deduped) /\ KeysApart(deduped) /\ ResourcesApart(deduped)
      /\ ToSet(deduped) \subseteq ToSet(left)
      /\ \A f \in ToSet(left) : \E g \in ToSet(deduped) :
           Subject(g.res) = Subject(f.res) /\ Weighs(g, f)
  BY <1>1, DeduplicateProperties
<1> HIDE DEF deduped
<1>3. Correlates(report, deduped)
  BY <1>2, CorrelateProperties
<1> HIDE DEF report
<1>4. IsSeq(report) /\ ResourcesApart(report)
  BY <1>3 DEF Correlates, Goods
<1>5. ASSUME NEW g \in ToSet(report) PROVE Fingerprint(g) \notin dis
  <2>1. PICK f \in ToSet(deduped) : Alike(g, f)
    BY <1>3 DEF Correlates
  <2>2. Fingerprint(f) \notin dis
    BY <1>1, <1>2
  <2> QED
    BY <2>1, <2>2 DEF Alike, Fingerprint
<1>6. ASSUME NEW f \in ToSet(found), Fingerprint(f) \notin dis PROVE Said(f, report)
  <2>1. f \in ToSet(left)
    BY <1>1, <1>6
  <2>2. PICK g \in ToSet(deduped) : Subject(g.res) = Subject(f.res) /\ Weighs(g, f)
    BY <1>2, <2>1
  <2>3. PICK h \in ToSet(report) : Covers(h, g)
    BY <1>3 DEF Correlates
  <2>4. PICK i \in 1..Len(report) : report[i] = h
    BY <1>4, IsSeqProperties
  <2>5. i \in DOMAIN report
    BY <1>4, IsSeqProperties
  <2>6. g.res \in h.about
    BY <1>2, <2>3 DEF Goods, Good, Covers
  <2>7. SeverityWeight(h.sev) >= SeverityWeight(f.sev)
    BY <2>2, <2>3, WeightType DEF Covers, Weighs
  <2>8. Subject(f.res) \in {Subject(res) : res \in h.about}
    BY <2>2, <2>6
  <2> HIDE DEF Subject
  <2> QED
    BY <2>4, <2>5, <2>7, <2>8 DEF Said
<1>7. ASSUME NEW g \in ToSet(report) PROVE \E f \in ToSet(found) : Alike(g, f)
  BY <1>1, <1>2, <1>3 DEF Correlates
<1> QED
  BY <1>4, <1>5, <1>6, <1>7 DEF report, deduped, left

LEMMA DetectedProperties ==
    ASSUME NEW w, WellRead(w), NEW o, NEW lost
    PROVE  Goods(Detected(w, o, lost)) /\ KeysApart(Detected(w, o, lost))
<1>1. Goods(RawFindings(w, o, lost))
  BY RawFindingsProperties, RawsGoods
<1> QED
  BY <1>1, GroupAgentFindingsProperties DEF Detected

\* No two findings of a report are of one resource.
THEOREM OneFindingPerResourceHolds == Spec => []OneFindingPerResource
<1>1. WorldInv => OneFindingPerResource
  <2> SUFFICES ASSUME WorldInv PROVE OneFindingPerResource
    OBVIOUS
  <2> DEFINE found == Detected(world, Options, down)
  <2>1. Goods(found) /\ KeysApart(found)
    BY DetectedProperties, OnScaleWellRead DEF WorldInv
  <2>2. Reported = Correlate(Deduplicate(Undismissed(found, dismissed)))
    BY DEF Reported, Report
  <2> HIDE DEF found
  <2>3. IsSeq(Reported) /\ ResourcesApart(Reported)
    BY <2>1, <2>2, ReportProperties
  <2>4. DOMAIN Reported = 1..Len(Reported)
    BY <2>3, IsSeqProperties
  <2> QED
    BY <2>3, <2>4 DEF OneFindingPerResource, ResourcesApart
<1> QED
  BY <1>1, AlwaysOnScale, PTL

\* What is dismissed is not reported, by whatever name grouping gives it.
THEOREM DismissedStaysAwayHolds == Spec => []DismissedStaysAway
<1>1. WorldInv => DismissedStaysAway
  <2> SUFFICES ASSUME WorldInv PROVE DismissedStaysAway
    OBVIOUS
  <2> DEFINE found == Detected(world, Options, down)
  <2>1. Goods(found) /\ KeysApart(found)
    BY DetectedProperties, OnScaleWellRead DEF WorldInv
  <2>2. Reported = Correlate(Deduplicate(Undismissed(found, dismissed)))
    BY DEF Reported, Report
  <2> HIDE DEF found
  <2>3. /\ IsSeq(Reported)
        /\ \A g \in ToSet(Reported) : Fingerprint(g) \notin dismissed
    BY <2>1, <2>2, ReportProperties
  <2>4. \A i \in DOMAIN Reported : Reported[i] \in ToSet(Reported)
    BY <2>3, IsSeqProperties
  <2> QED
    BY <2>3, <2>4 DEF DismissedStaysAway
<1> QED
  BY <1>1, AlwaysOnScale, PTL

\* What was found and not dismissed is said by the report.
THEOREM NothingUnsaidHolds == Spec => []NothingUnsaid
<1>1. WorldInv => NothingUnsaid
  <2> SUFFICES ASSUME WorldInv PROVE NothingUnsaid
    OBVIOUS
  <2> DEFINE found == Detected(world, Options, down)
  <2>1. Goods(found) /\ KeysApart(found)
    BY DetectedProperties, OnScaleWellRead DEF WorldInv
  <2>2. Reported = Correlate(Deduplicate(Undismissed(found, dismissed)))
    BY DEF Reported, Report
  <2> HIDE DEF found
  <2>3. \A f \in ToSet(found) : Fingerprint(f) \notin dismissed => Said(f, Reported)
    BY <2>1, <2>2, ReportProperties
  <2>4. \A i \in DOMAIN found : found[i] \in ToSet(found)
    BY <2>1, IsSeqProperties DEF Goods
  <2> QED
    BY <2>3, <2>4 DEF NothingUnsaid, found
<1> QED
  BY <1>1, AlwaysOnScale, PTL

-----------------------------------------------------------------------------
(* Lost answers.                                                           *)

\* The pool of a pool is the pool itself: no pod or agent bears the name of a
\* pool it is not of.
PoolsApart ==
    \A s \in DOMAIN PoolOf : PoolOf[s] \in DOMAIN PoolOf => PoolOf[PoolOf[s]] = PoolOf[s]

\* The finding of a pool has the subject of each of its agents.
LEMMA PooledSubject ==
    ASSUME PoolsApart, NEW f, Raw(f), NEW p, Raw(p), NEW m,
           AgentKey(p) = AgentKey(f), Pooled(m, p)
    PROVE  Subject(m.res) = Subject(f.res)
<1> DEFINE P == Pool(p.res)
<1>1. AgentKey(p) # {} /\ m.res = <<p.res[1], P>>
  BY DEF Pooled
<1>2. /\ f.cat = "jenkins_agent" /\ p.cat = "jenkins_agent"
      /\ Pool(p.res) = Pool(f.res) /\ p.sym[1] = f.sym[1]
  BY <1>1, KeyedSame
<1>3. p.res[1] = f.res[1] /\ Len(f.res) = 2
  BY <1>2 DEF Raw
<1>4. Pool(m.res) = P
  <2>1. m.res[2] = P
    BY <1>1
  <2>2. CASE P \in DOMAIN PoolOf
    <3>1. PoolOf[P] = P
      BY <2>2 DEF Pool, PoolsApart
    <3> HIDE DEF P
    <3> QED
      BY <2>1, <2>2, <3>1 DEF Pool
  <2>3. CASE P \notin DOMAIN PoolOf
    <3> HIDE DEF P
    <3> QED
      BY <2>1, <2>3 DEF Pool
  <2> QED
    BY <2>2, <2>3
<1>5. Len(m.res) = 2 /\ m.res[1] = p.res[1]
  BY <1>1
<1>6. Subject(m.res) = <<p.res[1]>> \o <<P>>
  BY <1>4, <1>5 DEF Subject
<1>7. Subject(f.res) = <<p.res[1]>> \o <<P>>
  BY <1>2, <1>3 DEF Subject
<1> QED
  BY <1>6, <1>7

\* Whatever the checks that answer have found is said.
LEMMA RawSaid ==
    ASSUME PoolsApart, NEW w, WellRead(w), NEW o, NEW lost,
           NEW f \in ToSet(RawFindings(w, o, lost))
    PROVE  Said(f, Report(w, o, lost, {}))
<1> DEFINE raw == RawFindings(w, o, lost)
           found == GroupAgentFindings(raw)
           report == Report(w, o, lost, {})
<1>1. Raws(raw) /\ Goods(raw)
  BY RawFindingsProperties, RawsGoods
<1>2. report = Correlate(Deduplicate(Undismissed(found, {})))
  BY DEF Report, Detected
<1> HIDE DEF raw
<1>3. /\ Goods(found) /\ KeysApart(found)
      /\ \A x \in ToSet(raw) : \E m \in ToSet(found) :
           \/ m = x
           \/ Covers(m, x) /\ \E p \in ToSet(raw) : AgentKey(p) = AgentKey(x) /\ Pooled(m, p)
  BY <1>1, GroupAgentFindingsProperties
<1> HIDE DEF found, report
<1>4. \A m \in ToSet(found) : Said(m, report)
  BY <1>2, <1>3, ReportProperties
<1>5. PICK m \in ToSet(found) :
         \/ m = f
         \/ Covers(m, f) /\ \E p \in ToSet(raw) : AgentKey(p) = AgentKey(f) /\ Pooled(m, p)
  BY <1>3 DEF raw
<1>6. CASE m = f
  BY <1>4, <1>6 DEF report
<1>7. CASE Covers(m, f) /\ \E p \in ToSet(raw) : AgentKey(p) = AgentKey(f) /\ Pooled(m, p)
  <2>1. PICK p \in ToSet(raw) : AgentKey(p) = AgentKey(f) /\ Pooled(m, p)
    BY <1>7
  <2>2. Raw(p) /\ Raw(f)
    BY <1>1, <2>1 DEF Raws, raw
  <2>3. Subject(m.res) = Subject(f.res)
    BY <2>1, <2>2, PooledSubject
  <2>4. PICK i \in DOMAIN report :
          /\ SeverityWeight(report[i].sev) >= SeverityWeight(m.sev)
          /\ Subject(m.res) \in {Subject(res) : res \in report[i].about}
    BY <1>4 DEF Said
  <2>5. SeverityWeight(report[i].sev) >= SeverityWeight(f.sev)
    BY <1>7, <2>4, WeightType DEF Covers, Weighs
  <2> HIDE DEF Subject
  <2>6. Said(f, report)
    BY <2>3, <2>4, <2>5 DEF Said
  <2> QED
    BY <2>6 DEF report
<1> QED
  BY <1>5, <1>6, <1>7

\* A check that fails takes nothing of the others' with it.
THEOREM LossesAreLocalHolds ==
    ASSUME PoolsApart
    PROVE  Spec => []LossesAreLocal
<1>1. WorldInv => LossesAreLocal
  <2> SUFFICES ASSUME WorldInv PROVE LossesAreLocal
    OBVIOUS
  <2> DEFINE all == Answers(world, Options)
  <2>1. WellRead(world)
    BY OnScaleWellRead DEF WorldInv
  <2>2. \A i \in DOMAIN all : all[i][1] \notin down =>
          \A k \in DOMAIN all[i][2] : all[i][2][k] \in ToSet(RawFindings(world, Options, down))
    BY <2>1, RawFindingsProperties
  <2>3. \A f \in ToSet(RawFindings(world, Options, down)) :
          Said(f, Report(world, Options, down, {}))
    BY <2>1, RawSaid
  <2> HIDE DEF all
  <2> QED
    BY <2>2, <2>3 DEF LossesAreLocal, all
<1> QED
  BY <1>1, AlwaysOnScale, PTL

-----------------------------------------------------------------------------
(* A deep scan.                                                            *)

LEMMA AtMostProperties ==
    ASSUME NEW s, IsSeq(s), NEW n \in Nat
    PROVE  LET t == AtMost(n, s) IN
           /\ IsSeq(t) /\ Len(t) = IF n < Len(s) THEN n ELSE Len(s)
           /\ \A i \in 1..Len(t) : t[i] = s[i]
<1> DEFINE t == AtMost(n, s)
           m == IF n < Len(s) THEN n ELSE Len(s)
<1>1. s \in Seq(ToSet(s)) /\ Len(s) \in Nat
  BY IsSeqProperties DEF IsSeq
<1>2. t = SubSeq(s, 1, m) /\ m \in 0..Len(s)
  BY <1>1 DEF AtMost
<1> HIDE DEF t, m
<1>3. t \in Seq(ToSet(s)) /\ Len(t) = m /\ \A i \in 1..m : t[i] = s[i]
  BY <1>1, <1>2
<1>4. IsSeq(t)
  BY <1>3, SeqIsSeq
<1> QED
  BY <1>3, <1>4 DEF t, m

\* The builds that failed in a row, the newest first.
LEMMA StreakProperties ==
    ASSUME NEW s, IsSeq(s)
    PROVE  /\ Streak(s) \in 0..Len(s)
           /\ \A i \in 1..Streak(s) : s[i] = "FAILURE"
           /\ Streak(s) < Len(s) => s[Streak(s) + 1] # "FAILURE"
<1> DEFINE t == Append(s, "end")
           I == {i \in 1..Len(t) : t[i] # "FAILURE"}
           n == Len(s)
           k == Min(I)
<1>1. s \in Seq(ToSet(s) \cup {"end"}) /\ n \in Nat
  BY IsSeqProperties, SeqMonotonic DEF IsSeq
<1>2. Len(t) = n + 1 /\ t[n + 1] = "end" /\ \A i \in 1..n : t[i] = s[i]
  BY <1>1
<1> HIDE DEF t, n
<1>3. I # {} /\ I \in SUBSET Nat
  BY <1>1, <1>2
<1>4. k \in I /\ \A i \in I : k <= i
  <2> HIDE DEF I
  <2> QED
    BY <1>3, MinProperties
<1>5. Streak(s) = k - 1
  BY <1>3 DEF Streak, SelectInSeq, t
<1> HIDE DEF k
<1>6. k \in 1..(n + 1)
  BY <1>2, <1>4
<1>7. ASSUME NEW i \in 1..(k - 1) PROVE s[i] = "FAILURE"
  <2>1. i \in 1..n /\ i \in 1..Len(t) /\ ~(k <= i)
    BY <1>1, <1>2, <1>6
  <2> QED
    BY <1>2, <1>4, <2>1
<1>8. ASSUME k - 1 < n PROVE s[k] # "FAILURE"
  <2>1. k \in 1..n
    BY <1>1, <1>6, <1>8
  <2> QED
    BY <1>2, <1>4, <2>1
<1>9. (k - 1) + 1 = k
  BY <1>6
<1> QED
  BY <1>1, <1>5, <1>6, <1>7, <1>8, <1>9 DEF n

\* A streak is no shorter in a longer history.
LEMMA StreakGrows ==
    ASSUME NEW s, NEW t, IsSeq(s), IsSeq(t), Len(s) <= Len(t),
           \A i \in 1..Len(s) : s[i] = t[i]
    PROVE  Streak(s) <= Streak(t)
<1>1. Len(s) \in Nat /\ Len(t) \in Nat
  BY IsSeqProperties
<1> DEFINE a == Streak(s)
           b == Streak(t)
<1>2. a \in 0..Len(s) /\ \A i \in 1..a : s[i] = "FAILURE"
  BY StreakProperties
<1>3. b \in 0..Len(t) /\ (b < Len(t) => t[b + 1] # "FAILURE")
  BY StreakProperties
<1> HIDE DEF a, b
<1>4. ASSUME b < a PROVE FALSE
  <2>1. b + 1 \in 1..a /\ b + 1 \in 1..Len(s) /\ b < Len(t)
    BY <1>1, <1>2, <1>3, <1>4
  <2>2. s[b + 1] = "FAILURE" /\ s[b + 1] = t[b + 1]
    BY <1>2, <2>1
  <2> QED
    BY <1>3, <2>1, <2>2
<1>5. a <= b
  BY <1>1, <1>2, <1>3, <1>4
<1> QED
  BY <1>5 DEF a, b

LEMMA ResultsSeq ==
    ASSUME NEW job, job.failures \in 0..3
    PROVE  IsSeq(Results(job))
<1> DEFINE head == IF job.head = "none" THEN <<>> ELSE <<job.head>>
           row == [i \in 1..job.failures |-> "FAILURE"]
           newest == head \o row
           k == History - Len(newest)
           before == [i \in 1..k |-> IF job.before = "mixed" /\ i % 2 = 0 THEN "FAILURE" ELSE "SUCCESS"]
<1>1. IsSeq(head) /\ Len(head) \in 0..1
  BY EmptyIsSeq, OneIsSeq
<1>2. IsSeq(row) /\ Len(row) = job.failures
  <2>1. row = [i \in 1..job.failures |-> row[i]]
    OBVIOUS
  <2> DEFINE n == job.failures
  <2>2. n \in Nat
    OBVIOUS
  <2> HIDE DEF row, n
  <2>3. row = [i \in 1..n |-> row[i]]
    BY <2>1 DEF n
  <2> QED
    BY <2>2, <2>3, FunctionIsSeq DEF n
<1> HIDE DEF head, row
<1>3. IsSeq(newest) /\ Len(newest) = Len(head) + Len(row)
  BY <1>1, <1>2, ConcatIsSeq
<1> HIDE DEF newest
<1>4. k \in Nat
  <2> DEFINE h == Len(head)
             n == job.failures
             l == Len(newest)
  <2>1. h \in 0..1 /\ n \in 0..3 /\ l = h + n
    BY <1>1, <1>2, <1>3
  <2> HIDE DEF h, n, l
  <2>2. 12 - l \in Nat
    BY <2>1
  <2>3. k = 12 - l
    BY DEF History, k, l
  <2> QED
    BY <2>2, <2>3
<1>5. before = [i \in 1..k |-> before[i]]
  OBVIOUS
<1>6. Results(job) = IF job.before = "none" THEN newest ELSE newest \o before
  BY DEF Results, newest, head, row
<1> HIDE DEF before, k
<1>7. IsSeq(before)
  BY <1>4, <1>5, FunctionIsSeq
<1> QED
  BY <1>3, <1>6, <1>7, ConcatIsSeq

\* What a regular scan looks at, a deep one sees as well.
LEMMA LongerHistory ==
    ASSUME NEW job, job.failures \in 0..3, job.hours \in Nat
    PROVE  /\ RecentFailures(job, Regular) \subseteq RecentFailures(job, Deep)
           /\ Streak(AtMost(Regular.history, Results(job))) <= Streak(AtMost(Deep.history, Results(job)))
           /\ Streak(AtMost(Regular.history, Results(job))) \in Nat
           /\ Streak(AtMost(Deep.history, Results(job))) \in Nat
<1> DEFINE R == Results(job)
           a == AtMost(10, R)
           b == AtMost(50, R)
           c == AtMost(15, R)
<1>1. IsSeq(R) /\ Len(R) \in Nat
  BY ResultsSeq, IsSeqProperties
<1> HIDE DEF R
<1>2. /\ IsSeq(a) /\ Len(a) = IF 10 < Len(R) THEN 10 ELSE Len(R)
      /\ \A i \in 1..Len(a) : a[i] = R[i]
  BY <1>1, AtMostProperties
<1>3. /\ IsSeq(b) /\ Len(b) = IF 50 < Len(R) THEN 50 ELSE Len(R)
      /\ \A i \in 1..Len(b) : b[i] = R[i]
  BY <1>1, AtMostProperties
<1>4. /\ IsSeq(c) /\ Len(c) = IF 15 < Len(R) THEN 15 ELSE Len(R)
      /\ \A i \in 1..Len(c) : c[i] = R[i]
  BY <1>1, AtMostProperties
<1>5. /\ RecentFailures(job, Regular) = {i \in DOMAIN a : a[i] = "FAILURE" /\ i * job.hours <= 4}
      /\ RecentFailures(job, Deep) = {i \in DOMAIN b : b[i] = "FAILURE" /\ i * job.hours <= 24}
      /\ AtMost(Regular.history, Results(job)) = c
      /\ AtMost(Deep.history, Results(job)) = b
  BY DEF RecentFailures, Regular, Deep, R
<1> HIDE DEF a, b, c
<1>6. DOMAIN a = 1..Len(a) /\ DOMAIN b = 1..Len(b)
  BY <1>2, <1>3, IsSeqProperties
<1>7. ASSUME NEW i \in 1..Len(a), a[i] = "FAILURE", i * job.hours <= 4
      PROVE  i \in 1..Len(b) /\ b[i] = "FAILURE" /\ i * job.hours <= 24
  <2>1. i \in 1..Len(b) /\ i \in Nat
    BY <1>1, <1>2, <1>3
  <2>2. b[i] = "FAILURE"
    BY <1>2, <1>3, <1>7, <2>1
  <2> DEFINE x == i * job.hours
  <2>3. x \in Int
    BY <2>1
  <2> HIDE DEF x
  <2>4. x <= 24
    BY <1>7, <2>3 DEF x
  <2> QED
    BY <2>1, <2>2, <2>4 DEF x
<1>8. RecentFailures(job, Regular) \subseteq RecentFailures(job, Deep)
  BY <1>5, <1>6, <1>7
<1>9. Streak(c) <= Streak(b)
  <2>1. Len(c) <= Len(b) /\ \A i \in 1..Len(c) : i \in 1..Len(b)
    BY <1>1, <1>3, <1>4
  <2>2. \A i \in 1..Len(c) : c[i] = b[i]
    BY <1>3, <1>4, <2>1
  <2> QED
    BY <1>3, <1>4, <2>1, <2>2, StreakGrows
<1>10. Streak(c) \in Nat /\ Streak(b) \in Nat
  <2>1. Streak(c) \in 0..Len(c) /\ Streak(b) \in 0..Len(b)
    BY <1>3, <1>4, StreakProperties
  <2> QED
    BY <2>1
<1> QED
  BY <1>5, <1>8, <1>9, <1>10

\* How far back a job's builds are counted.
JobsCounted(w) == \A j \in ToSet(Jobs) : w[j].failures \in 0..3 /\ w[j].hours \in Nat

LEMMA OnScaleCounted ==
    ASSUME NEW w, OnScale(w)
    PROVE  JobsCounted(w)
<1> SUFFICES ASSUME NEW j \in ToSet(Jobs) PROVE w[j].failures \in 0..3 /\ w[j].hours \in Nat
  BY DEF JobsCounted
<1>1. j \in Subjects /\ Scale[j] = JobScale
  BY ScaleOf
<1>2. /\ {"failures", "hours"} \subseteq DOMAIN JobScale
      /\ JobScale["failures"] = <<0, 1, 2, 3>> /\ JobScale["hours"] = <<1, 5, 30>>
  BY DEF JobScale
<1>3. w[j].failures \in ToSet(<<0, 1, 2, 3>>) /\ w[j].hours \in ToSet(<<1, 5, 30>>)
  BY <1>1, <1>2 DEF OnScale
<1> QED
  BY <1>3 DEF ToSet

LEMMA FailingJobsOnce ==
    ASSUME NEW w, NEW o
    PROVE  LET jobs == FailingJobs(w, o) IN
           /\ IsSeq(jobs) /\ ToSet(jobs) \subseteq ToSet(Jobs)
           /\ \A i, k \in 1..Len(jobs) : i # k => jobs[i] # jobs[k]
<1> DEFINE jobs == FailingJobs(w, o)
           I == {i \in 1..Len(Jobs) : /\ Reachable(w) /\ FailedColor(w[Jobs[i]])
                                      /\ RecentFailures(w[Jobs[i]], o) # {}}
           S == ToSet(Jobs)
           R == {q \in S \X S : q[1] # q[2]}
<1>1. Chosen(jobs, Jobs, I) /\ I \subseteq 1..Len(Jobs)
  BY FailingJobsChosen
<1>2. /\ Len(Jobs) \in Nat /\ DOMAIN Jobs = 1..Len(Jobs)
      /\ \A i \in 1..Len(Jobs) : Jobs[i] \in S
  BY ListsAreSeqs, IsSeqProperties
<1>3. \A i, k \in 1..Len(Jobs) : i # k => Jobs[i] # Jobs[k]
  <2>1. IsInjective(Jobs)
    BY ObservationsAssumption
  <2> QED
    BY <1>2, <2>1 DEF IsInjective
<1> HIDE DEF jobs, I, S
<1>4. \A i, k \in I : i < k => <<Jobs[i], Jobs[k]>> \in R
  <2> SUFFICES ASSUME NEW i \in I, NEW k \in I, i < k PROVE <<Jobs[i], Jobs[k]>> \in R
    OBVIOUS
  <2>1. i \in 1..Len(Jobs) /\ k \in 1..Len(Jobs)
    BY <1>1
  <2>2. i # k
    <3>1. i \in Int /\ k \in Int
      BY <2>1
    <3> QED
      BY <3>1
  <2> QED
    BY <1>2, <1>3, <2>1, <2>2
<1>5. IsSeq(jobs) /\ ToSet(jobs) = {Jobs[i] : i \in I} /\ Apart(jobs, R)
  <2> HIDE DEF R
  <2> QED
    BY <1>1, <1>4 DEF Chosen
<1>6. Len(jobs) \in Nat
  BY <1>5, IsSeqProperties
<1>7. ASSUME NEW i \in 1..Len(jobs), NEW k \in 1..Len(jobs), i # k PROVE jobs[i] # jobs[k]
  <2>1. CASE i < k
    BY <1>5, <2>1 DEF Apart
  <2>2. CASE k < i
    BY <1>5, <2>2 DEF Apart
  <2> QED
    BY <1>6, <1>7, <2>1, <2>2
<1>8. ToSet(jobs) \subseteq S
  BY <1>1, <1>2, <1>5
<1> QED
  BY <1>5, <1>7, <1>8 DEF jobs, S

LEMMA MoreJobsFail ==
    ASSUME NEW w, JobsCounted(w)
    PROVE  ToSet(FailingJobs(w, Regular)) \subseteq ToSet(FailingJobs(w, Deep))
<1> DEFINE I(o) == {i \in 1..Len(Jobs) : /\ Reachable(w) /\ FailedColor(w[Jobs[i]])
                                         /\ RecentFailures(w[Jobs[i]], o) # {}}
<1>1. \A o : ToSet(FailingJobs(w, o)) = {Jobs[i] : i \in I(o)}
  BY FailingJobsChosen DEF Chosen
<1>2. \A i \in 1..Len(Jobs) :
        RecentFailures(w[Jobs[i]], Regular) \subseteq RecentFailures(w[Jobs[i]], Deep)
  <2> SUFFICES ASSUME NEW i \in 1..Len(Jobs)
               PROVE  RecentFailures(w[Jobs[i]], Regular) \subseteq RecentFailures(w[Jobs[i]], Deep)
    OBVIOUS
  <2> DEFINE job == w[Jobs[i]]
  <2>1. job.failures \in 0..3 /\ job.hours \in Nat
    BY ListsAreSeqs, IsSeqProperties DEF JobsCounted
  <2> HIDE DEF job
  <2>2. RecentFailures(job, Regular) \subseteq RecentFailures(job, Deep)
    BY <2>1, LongerHistory
  <2> QED
    BY <2>2 DEF job
<1>3. I(Regular) \subseteq I(Deep)
  BY <1>2
<1> HIDE DEF I
<1> QED
  BY <1>1, <1>3

\* t says of every resource of s something at least as severe.
Outdoes(t, s) == \A f \in ToSet(s) : \E g \in ToSet(t) : g.res = f.res /\ Weighs(g, f)

LEMMA OutdoesItself == \A s : Outdoes(s, s)
<1>1. \A f : Weighs(f, f)
  BY WeightType DEF Weighs
<1> QED
  BY <1>1 DEF Outdoes

\* One critical finding for each failing job.
LEMMA FailedBuildJobs ==
    ASSUME NEW w, NEW o
    PROVE  LET fs == JenkinsFailedBuildCheck(w, o)
               jobs == ToSet(FailingJobs(w, o))
           IN  /\ \A f \in ToSet(fs) : \E j \in jobs : f.res = JobRes(j)
               /\ \A j \in jobs : \E f \in ToSet(fs) : f.res = JobRes(j) /\ f.sev = "critical"
<1> DEFINE jobs == FailingJobs(w, o)
           sym(j) == IF Cardinality(RecentFailures(w[j], o)) = 1
                     THEN <<"Build FAILURE", FailureClass(w[j].console)>> ELSE <<"N failed builds">>
           F(j) == [Finding("critical", "jenkins_failed_build", JobRes(j), sym(j))
                    EXCEPT !.sig = Signature(w[j].console)]
           ss == [i \in DOMAIN jobs |-> <<F(jobs[i])>>]
           fs == JenkinsFailedBuildCheck(w, o)
<1>1. fs = FlattenSeq(ss)
  BY DEF JenkinsFailedBuildCheck, Each
<1>2. ASSUME NEW j PROVE F(j).res = JobRes(j) /\ F(j).sev = "critical"
  <2> HIDE DEF sym
  <2> QED
    BY DEF Finding
<1>3. IsSeq(jobs)
  BY FailingJobsChosen DEF Chosen
<1> HIDE DEF F, jobs, fs
<1>4. Len(jobs) \in Nat /\ DOMAIN jobs = 1..Len(jobs)
  BY <1>3, IsSeqProperties
<1>5. /\ ss = [i \in 1..Len(jobs) |-> ss[i]]
      /\ \A i \in 1..Len(jobs) : IsSeq(ss[i]) /\ ToSet(ss[i]) = {F(jobs[i])}
  BY <1>4, OneIsSeq
<1> HIDE DEF ss
<1>6. IsSeq(ss) /\ Len(ss) = Len(jobs)
  BY <1>4, <1>5, FunctionIsSeq
<1>7. ToSet(fs) = UNION {ToSet(ss[i]) : i \in 1..Len(jobs)}
  BY <1>1, <1>5, <1>6, FlattenProperties
<1>8. ToSet(fs) = {F(j) : j \in ToSet(jobs)}
  BY <1>3, <1>5, <1>7, IsSeqProperties
<1> QED
  BY <1>2, <1>8 DEF fs, jobs

LEMMA FailedBuildLouder ==
    ASSUME NEW w, NEW o, NEW v, NEW p, ToSet(FailingJobs(v, p)) \subseteq ToSet(FailingJobs(w, o))
    PROVE  Outdoes(JenkinsFailedBuildCheck(w, o), JenkinsFailedBuildCheck(v, p))
<1> DEFINE s == JenkinsFailedBuildCheck(v, p)
           t == JenkinsFailedBuildCheck(w, o)
<1>1. \A f \in ToSet(s) : \E j \in ToSet(FailingJobs(v, p)) : f.res = JobRes(j)
  BY FailedBuildJobs
<1>2. \A j \in ToSet(FailingJobs(w, o)) :
        \E g \in ToSet(t) : g.res = JobRes(j) /\ g.sev = "critical"
  BY FailedBuildJobs
<1>3. \A f, g : g.sev = "critical" => Weighs(g, f)
  BY DEF Weighs, SeverityWeight
<1> HIDE DEF s, t
<1>4. Outdoes(t, s)
  BY <1>1, <1>2, <1>3 DEF Outdoes
<1> QED
  BY <1>4 DEF s, t

LEMMA WhenElements ==
    ASSUME NEW c, NEW x
    PROVE  IsSeq(When(c, x)) /\ ToSet(When(c, x)) = IF c THEN {x} ELSE {}
<1>1. CASE c
  <2>1. When(c, x) = <<x>>
    BY <1>1 DEF When
  <2> QED
    BY <1>1, <2>1, OneIsSeq
<1>2. CASE ~c
  <2>1. When(c, x) = <<>>
    BY <1>2 DEF When
  <2> QED
    BY <1>2, <2>1, EmptyIsSeq
<1> QED
  BY <1>1, <1>2

\* What a job's streak, parameters and log make of it.
LEMMA PatternsFound ==
    ASSUME NEW j, NEW job, NEW o, o.streak \in Nat, o.streak >= 2,
           Streak(AtMost(o.history, Results(job))) \in Nat
    PROVE  LET fs == PatternsOf(j, job, o)
               streak == Streak(AtMost(o.history, Results(job)))
               Odd == job.params = "empty" \/ FailureClass(job.console) # "unknown"
           IN  /\ IsSeq(fs)
               /\ \A f \in ToSet(fs) : f.res = JobRes(j) /\ f.sev \in {"critical", "warning"}
               /\ streak >= o.streak => \E f \in ToSet(fs) : f.sev = "critical"
               /\ Odd => ToSet(fs) # {}
               /\ streak < 2 => /\ \A f \in ToSet(fs) : f.sev = "warning"
                                /\ ToSet(fs) # {} => Odd
<1> DEFINE results == AtMost(o.history, Results(job))
           streak == Streak(results)
           class == FailureClass(job.console)
           Pattern(sev, symptom) ==
               [OnJob(sev, "jenkins_pipeline_pattern", j, symptom) EXCEPT !.sig = Signature(job.console)]
           sev == IF streak = 2 THEN "warning" ELSE "critical"
           three == streak >= o.streak
           two == Contains(results, "SUCCESS") /\ streak >= 2 /\ streak < o.streak
           empty == job.params = "empty"
           known == class # "unknown"
           Three == When(three, Pattern("critical", "N consecutive failures"))
           Two == When(two, Pattern(sev, "Regression"))
           Params == When(empty, Pattern("warning", "Suspicious build parameters"))
           found == Three \o Two \o Params
           none == found = <<>> /\ known
           Class == When(none, Pattern("warning", class))
           fs == PatternsOf(j, job, o)
           low == streak < 2
<1>1. fs = found \o Class
  BY DEF PatternsOf
<1>2. \A s, symptom : Pattern(s, symptom).res = JobRes(j) /\ Pattern(s, symptom).sev = s
  BY DEF OnJob, Finding
<1>3. sev \in {"critical", "warning"}
  OBVIOUS
<1>4. low => ~three /\ ~two
  OBVIOUS
<1> HIDE DEF Pattern, sev, three, two, empty, known, low, fs
<1>5. /\ IsSeq(Three) /\ ToSet(Three) = IF three THEN {Pattern("critical", "N consecutive failures")} ELSE {}
      /\ IsSeq(Two) /\ ToSet(Two) = IF two THEN {Pattern(sev, "Regression")} ELSE {}
      /\ IsSeq(Params)
      /\ ToSet(Params) = IF empty THEN {Pattern("warning", "Suspicious build parameters")} ELSE {}
  BY WhenElements
<1> HIDE DEF Three, Two, Params
<1>6. IsSeq(found) /\ ToSet(found) = ToSet(Three) \cup ToSet(Two) \cup ToSet(Params)
  <2>1. IsSeq(Three) /\ IsSeq(Two) /\ IsSeq(Params)
    BY <1>5
  <2>2. IsSeq(Three \o Two) /\ ToSet(Three \o Two) = ToSet(Three) \cup ToSet(Two)
    BY <2>1, ConcatIsSeq
  <2> QED
    BY <2>1, <2>2, ConcatIsSeq
<1>7. found = <<>> <=> ToSet(found) = {}
  <2>1. found = <<>> => ToSet(found) = {}
    BY EmptyIsSeq
  <2>2. ASSUME found # <<>> PROVE ToSet(found) # {}
    <3> HIDE DEF found
    <3>1. Len(found) \in Nat /\ found \in Seq(ToSet(found))
      BY <1>6, IsSeqProperties DEF IsSeq
    <3>2. Len(found) # 0
      BY <2>2, <3>1, EmptySeq
    <3>3. 1 \in 1..Len(found)
      BY <3>1, <3>2
    <3> QED
      BY <1>6, <3>3, IsSeqProperties
  <2> QED
    BY <2>1, <2>2
<1> HIDE DEF found
<1>8. none <=> ToSet(found) = {} /\ known
  BY <1>7
<1> HIDE DEF none, class
<1>9. IsSeq(Class) /\ ToSet(Class) = IF none THEN {Pattern("warning", class)} ELSE {}
  BY WhenElements
<1> HIDE DEF Class
<1>10. IsSeq(fs) /\ ToSet(fs) = ToSet(found) \cup ToSet(Class)
  <2>1. IsSeq(found) /\ IsSeq(Class)
    BY <1>6, <1>9
  <2> QED
    BY <1>1, <2>1, ConcatIsSeq
<1>11. ASSUME NEW f \in ToSet(fs) PROVE f.res = JobRes(j) /\ f.sev \in {"critical", "warning"}
  <2>1. \/ f = Pattern("critical", "N consecutive failures") \/ f = Pattern(sev, "Regression")
        \/ f = Pattern("warning", "Suspicious build parameters") \/ f = Pattern("warning", class)
    BY <1>5, <1>6, <1>9, <1>10
  <2> QED
    BY <1>2, <1>3, <2>1, ZenonT(40)
<1>12. three => \E f \in ToSet(fs) : f.sev = "critical"
  BY <1>2, <1>5, <1>6, <1>10
<1>13. (empty \/ known) => ToSet(fs) # {}
  BY <1>5, <1>6, <1>8, <1>9, <1>10
<1>14. low => /\ \A f \in ToSet(fs) : f.sev = "warning"
              /\ ToSet(fs) # {} => empty \/ known
  BY <1>2, <1>4, <1>5, <1>6, <1>8, <1>9, <1>10
<1> QED
  BY <1>10, <1>11, <1>12, <1>13, <1>14 DEF fs, three, empty, known, low, class

LEMMA PatternsLouder ==
    ASSUME NEW j, NEW job, job.failures \in 0..3, job.hours \in Nat
    PROVE  Outdoes(PatternsOf(j, job, Deep), PatternsOf(j, job, Regular))
<1> DEFINE s == PatternsOf(j, job, Regular)
           t == PatternsOf(j, job, Deep)
           m == Streak(AtMost(Regular.history, Results(job)))
           n == Streak(AtMost(Deep.history, Results(job)))
           Odd == job.params = "empty" \/ FailureClass(job.console) # "unknown"
<1>1. m \in Nat /\ n \in Nat /\ m <= n
  BY LongerHistory
<1>2. Regular.streak = 3 /\ Deep.streak = 2
  BY DEF Regular, Deep
<1>3. /\ \A f \in ToSet(s) : f.res = JobRes(j) /\ f.sev \in {"critical", "warning"}
      /\ m < 2 => /\ \A f \in ToSet(s) : f.sev = "warning"
                  /\ ToSet(s) # {} => Odd
  BY <1>1, <1>2, PatternsFound
<1>4. /\ \A f \in ToSet(t) : f.res = JobRes(j) /\ f.sev \in {"critical", "warning"}
      /\ n >= 2 => \E f \in ToSet(t) : f.sev = "critical"
      /\ Odd => ToSet(t) # {}
  BY <1>1, <1>2, PatternsFound
<1>5. \A f, g : \/ g.sev = "critical"
                \/ f.sev = "warning" /\ g.sev \in {"critical", "warning"}
                => Weighs(g, f)
  BY DEF Weighs, SeverityWeight
<1> HIDE DEF s, t, m, n, Odd
<1>6. Outdoes(t, s)
  <2>1. CASE m < 2
    BY <1>3, <1>4, <1>5, <2>1 DEF Outdoes
  <2>2. CASE ~(m < 2)
    <3>1. n >= 2
      BY <1>1, <2>2
    <3> QED
      BY <1>3, <1>4, <1>5, <3>1 DEF Outdoes
  <2> QED
    BY <2>1, <2>2
<1> QED
  BY <1>6 DEF s, t

\* Two of the jobs fail alike.
FailAlike(w, jobs) ==
    \E i, k \in 1..Len(jobs) : /\ i # k
                               /\ Signature(w[jobs[i]].console) # ""
                               /\ Signature(w[jobs[i]].console) = Signature(w[jobs[k]].console)

LEMMA SharedFailuresFound ==
    ASSUME NEW w, NEW jobs, IsSeq(jobs)
    PROVE  LET fs == SharedFailures(w, jobs) IN
           /\ \A f \in ToSet(fs) : /\ f.res = <<"jenkins-pipelines", "shared-failure">>
                                   /\ f.sev = "critical"
           /\ ToSet(fs) # {} <=> FailAlike(w, jobs)
<1> DEFINE Sig(i) == Signature(w[jobs[i]].console)
           With(sig) == {i \in DOMAIN jobs : Sig(i) = sig}
           shared == Finding("critical", "jenkins_pipeline_pattern",
                             <<"jenkins-pipelines", "shared-failure">>,
                             <<"Same failure pattern across N jobs">>)
           First(i) == Sig(i) # "" /\ i = Min(With(Sig(i))) /\ With(Sig(i)) # {i}
           F(i) == [shared EXCEPT !.sig = Sig(i),
                                  !.about = @ \cup {JobRes(jobs[k]) : k \in With(Sig(i))}]
           ss == [i \in DOMAIN jobs |-> When(First(i), F(i))]
           fs == SharedFailures(w, jobs)
           n == Len(jobs)
<1>1. fs = FlattenSeq(ss)
  BY DEF SharedFailures
<1>2. ASSUME NEW i
      PROVE  F(i).res = <<"jenkins-pipelines", "shared-failure">> /\ F(i).sev = "critical"
  <2> HIDE DEF Sig
  <2> QED
    BY DEF Finding
<1>3. n \in Nat /\ DOMAIN jobs = 1..n
  BY IsSeqProperties
<1>4. /\ ss = [i \in 1..n |-> ss[i]]
      /\ \A i \in 1..n : IsSeq(ss[i]) /\ ToSet(ss[i]) = IF First(i) THEN {F(i)} ELSE {}
  <2> HIDE DEF First, F
  <2> QED
    BY <1>3, WhenElements
<1> HIDE DEF ss, n, F, fs
<1>5. IsSeq(ss) /\ Len(ss) = n
  BY <1>3, <1>4, FunctionIsSeq
<1>6. ToSet(fs) = UNION {ToSet(ss[i]) : i \in 1..n}
  BY <1>1, <1>4, <1>5, FlattenProperties
<1> DEFINE I == {i \in 1..n : First(i)}
<1>7. ToSet(fs) = {F(i) : i \in I}
  <2> HIDE DEF First
  <2> QED
    BY <1>4, <1>6
<1>8. ASSUME NEW i \in I PROVE FailAlike(w, jobs)
  <2>1. i \in With(Sig(i)) /\ Sig(i) # ""
    BY <1>3
  <2>2. PICK k \in With(Sig(i)) : k # i
    BY <2>1
  <2> QED
    BY <1>3, <2>1, <2>2 DEF FailAlike, n
<1>9. ASSUME FailAlike(w, jobs) PROVE I # {}
  <2>1. PICK a \in 1..n, b \in 1..n : a # b /\ Sig(a) # "" /\ Sig(a) = Sig(b)
    BY <1>9 DEF FailAlike, n
  <2> DEFINE W == With(Sig(a))
             i == Min(W)
  <2>2. a \in W /\ b \in W /\ W \subseteq 1..n
    BY <1>3, <2>1
  <2>3. i \in W
    <3> HIDE DEF W
    <3>1. W \in SUBSET Nat /\ W # {}
      BY <1>3, <2>2
    <3> QED
      BY <3>1, MinProperties
  <2>4. Sig(i) = Sig(a)
    BY <2>3
  <2>5. With(Sig(i)) = W /\ W # {i}
    <3>1. With(Sig(i)) = W
      <4> HIDE DEF Sig, i
      <4> QED
        BY <2>4
    <3>2. W # {i}
      <4>1. \A x : W = {x} => a = x /\ b = x
        <5> HIDE DEF W
        <5> QED
          BY <2>2
      <4> HIDE DEF W, i
      <4> QED
        BY <2>1, <4>1
    <3> QED
      BY <3>1, <3>2
  <2> HIDE DEF W, Sig
  <2>6. First(i)
    BY <2>1, <2>4, <2>5 DEF i
  <2> QED
    BY <2>2, <2>3, <2>6
<1> HIDE DEF I
<1> QED
  BY <1>2, <1>7, <1>8, <1>9 DEF fs

LEMMA SharedLouder ==
    ASSUME NEW w, NEW o, NEW v, NEW p,
           ToSet(FailingJobs(v, p)) \subseteq ToSet(FailingJobs(w, o)),
           \A j \in ToSet(Jobs) : w[j].console = v[j].console
    PROVE  Outdoes(SharedFailures(w, FailingJobs(w, o)), SharedFailures(v, FailingJobs(v, p)))
<1> DEFINE few == FailingJobs(v, p)
           many == FailingJobs(w, o)
           s == SharedFailures(v, few)
           t == SharedFailures(w, many)
           Sig(j) == Signature(w[j].console)
<1>1. /\ IsSeq(few) /\ IsSeq(many) /\ ToSet(few) \subseteq ToSet(many)
      /\ \A i, k \in 1..Len(few) : i # k => few[i] # few[k]
  BY FailingJobsOnce
<1>2. \A j \in ToSet(few) : Signature(v[j].console) = Sig(j)
  BY FailingJobsOnce
<1> HIDE DEF few, many
<1>3. ASSUME FailAlike(v, few) PROVE FailAlike(w, many)
  <2>1. PICK i \in 1..Len(few), k \in 1..Len(few) :
          /\ i # k /\ Signature(v[few[i]].console) # ""
          /\ Signature(v[few[i]].console) = Signature(v[few[k]].console)
    BY <1>3 DEF FailAlike
  <2>2. few[i] \in ToSet(few) /\ few[k] \in ToSet(few) /\ few[i] # few[k]
    BY <1>1, <2>1, IsSeqProperties
  <2>3. PICK a \in 1..Len(many) : many[a] = few[i]
    BY <1>1, <2>2, IsSeqProperties
  <2>4. PICK b \in 1..Len(many) : many[b] = few[k]
    BY <1>1, <2>2, IsSeqProperties
  <2>5. Sig(few[i]) # "" /\ Sig(few[i]) = Sig(few[k])
    BY <1>2, <2>1, <2>2
  <2> QED
    BY <2>2, <2>3, <2>4, <2>5, ZenonT(40) DEF FailAlike
<1>4. /\ \A f \in ToSet(s) : f.res = <<"jenkins-pipelines", "shared-failure">> /\ f.sev = "critical"
      /\ ToSet(s) # {} <=> FailAlike(v, few)
  BY <1>1, SharedFailuresFound
<1>5. /\ \A f \in ToSet(t) : f.res = <<"jenkins-pipelines", "shared-failure">> /\ f.sev = "critical"
      /\ ToSet(t) # {} <=> FailAlike(w, many)
  BY <1>1, SharedFailuresFound
<1>6. \A f, g : g.sev = "critical" => Weighs(g, f)
  BY DEF Weighs, SeverityWeight
<1> HIDE DEF s, t
<1>7. Outdoes(t, s)
  BY <1>3, <1>4, <1>5, <1>6 DEF Outdoes
<1> QED
  BY <1>7 DEF s, t, few, many

LEMMA PipelineFound ==
    ASSUME NEW w, NEW o
    PROVE  ToSet(PipelinePatternCheck(w, o)) =
             (UNION {ToSet(PatternsOf(j, w[j], o)) : j \in ToSet(FailingJobs(w, o))})
             \cup ToSet(SharedFailures(w, FailingJobs(w, o)))
<1> DEFINE l == FailingJobs(w, o)
           P(j) == PatternsOf(j, w[j], o)
           t == [i \in DOMAIN l |-> P(l[i])]
           shared == SharedFailures(w, l)
           fs == PipelinePatternCheck(w, o)
           n == Len(l)
<1>1. fs = FlattenSeq(t) \o shared
  BY DEF PipelinePatternCheck, Each
<1>2. IsSeq(l)
  BY FailingJobsOnce
<1>3. IsSeq(shared)
  BY <1>2, SharedFailuresRaw DEF Raws
<1>4. \A j : IsSeq(P(j))
  BY PatternsRaw DEF Raws
<1> HIDE DEF P, shared, fs, l
<1>5. n \in Nat /\ DOMAIN l = 1..n
  BY <1>2, IsSeqProperties
<1>6. t = [i \in 1..n |-> t[i]] /\ \A i \in 1..n : t[i] = P(l[i])
  BY <1>5
<1> HIDE DEF t, n
<1>7. IsSeq(t) /\ Len(t) = n
  BY <1>5, <1>6, FunctionIsSeq
<1>8. \A i \in 1..n : IsSeq(t[i])
  BY <1>4, <1>6
<1>9. /\ IsSeq(FlattenSeq(t))
      /\ ToSet(FlattenSeq(t)) = UNION {ToSet(t[i]) : i \in 1..n}
  BY <1>7, <1>8, FlattenProperties
<1>10. ToSet(fs) = ToSet(FlattenSeq(t)) \cup ToSet(shared)
  BY <1>1, <1>3, <1>9, ConcatIsSeq
<1>11. /\ \A i \in 1..n : l[i] \in ToSet(l)
       /\ \A j \in ToSet(l) : \E i \in 1..n : l[i] = j
  BY <1>2, IsSeqProperties DEF n
<1>12. UNION {ToSet(t[i]) : i \in 1..n} = UNION {ToSet(P(j)) : j \in ToSet(l)}
  BY <1>6, <1>11
<1>13. ToSet(fs) = (UNION {ToSet(P(j)) : j \in ToSet(l)}) \cup ToSet(shared)
  BY <1>9, <1>10, <1>12
<1> QED
  BY <1>13 DEF fs, P, l, shared

LEMMA PipelineLouder ==
    ASSUME NEW w, NEW o, NEW v, NEW p,
           ToSet(FailingJobs(v, p)) \subseteq ToSet(FailingJobs(w, o)),
           \A j \in ToSet(Jobs) : /\ w[j].console = v[j].console
                                 /\ Outdoes(PatternsOf(j, w[j], o), PatternsOf(j, v[j], p))
    PROVE  Outdoes(PipelinePatternCheck(w, o), PipelinePatternCheck(v, p))
<1> DEFINE few == FailingJobs(v, p)
           many == FailingJobs(w, o)
           s == PipelinePatternCheck(v, p)
           t == PipelinePatternCheck(w, o)
           P(j) == PatternsOf(j, v[j], p)
           Q(j) == PatternsOf(j, w[j], o)
           sf == SharedFailures(v, few)
           tf == SharedFailures(w, many)
<1>1. /\ ToSet(s) = (UNION {ToSet(P(j)) : j \in ToSet(few)}) \cup ToSet(sf)
      /\ ToSet(t) = (UNION {ToSet(Q(j)) : j \in ToSet(many)}) \cup ToSet(tf)
  BY PipelineFound
<1>2. Outdoes(tf, sf)
  BY SharedLouder
<1>3. ToSet(few) \subseteq ToSet(many) /\ ToSet(few) \subseteq ToSet(Jobs)
  BY FailingJobsOnce
<1>4. \A j \in ToSet(Jobs) : Outdoes(Q(j), P(j))
  OBVIOUS
<1> HIDE DEF few, many, s, t, P, Q, sf, tf
<1>5. ASSUME NEW f \in ToSet(s) PROVE \E g \in ToSet(t) : g.res = f.res /\ Weighs(g, f)
  <2>1. CASE f \in ToSet(sf)
    BY <1>1, <1>2, <2>1 DEF Outdoes
  <2>2. CASE f \notin ToSet(sf)
    <3>1. PICK j \in ToSet(few) : f \in ToSet(P(j))
      BY <1>1, <2>2
    <3>2. j \in ToSet(many) /\ j \in ToSet(Jobs)
      BY <1>3
    <3>3. PICK g \in ToSet(Q(j)) : g.res = f.res /\ Weighs(g, f)
      BY <1>4, <3>1, <3>2 DEF Outdoes
    <3> QED
      BY <1>1, <3>2, <3>3
  <2> QED
    BY <2>1, <2>2
<1>6. Outdoes(t, s)
  BY <1>5 DEF Outdoes
<1> QED
  BY <1>6 DEF s, t

\* The checks of one scan say no less of any resource than those of another.
AnswersOutdo(w, o, v, p) ==
    \A i \in 1..25 : /\ Answers(w, o)[i][1] = Answers(v, p)[i][1]
                     /\ Outdoes(Answers(w, o)[i][2], Answers(v, p)[i][2])

LEMMA RawLouder ==
    ASSUME NEW w, WellRead(w), NEW v, WellRead(v), NEW o, NEW p, AnswersOutdo(w, o, v, p), NEW lost
    PROVE  Outdoes(RawFindings(w, o, lost), RawFindings(v, p, lost))
<1> DEFINE A == Answers(w, o)
           B == Answers(v, p)
           Of(answers) == [i \in DOMAIN answers |->
                              IF answers[i][1] \in lost THEN <<>> ELSE answers[i][2]]
           t == RawFindings(w, o, lost)
           s == RawFindings(v, p, lost)
<1>1. t = FlattenSeq(Of(A)) /\ s = FlattenSeq(Of(B))
  BY DEF RawFindings, Each
<1>2. DOMAIN A = 1..25 /\ DOMAIN B = 1..25
  BY DEF Answers
<1>3. \A i \in 1..25 : A[i][1] = B[i][1] /\ Outdoes(A[i][2], B[i][2])
  BY DEF AnswersOutdo
<1>4. /\ IsSeq(A) /\ \A i \in 1..Len(A) : Raws(A[i][2])
      /\ IsSeq(B) /\ \A i \in 1..Len(B) : Raws(B[i][2])
  BY AnswersRaw
<1> HIDE DEF A, B, s, t
<1>5. ASSUME NEW C, IsSeq(C), DOMAIN C = 1..25, \A i \in 1..Len(C) : Raws(C[i][2])
      PROVE  ToSet(FlattenSeq(Of(C))) = UNION {ToSet(Of(C)[i]) : i \in 1..25}
  <2> DEFINE u == Of(C)
  <2>1. u = [i \in 1..25 |-> u[i]]
    BY <1>5
  <2>2. \A i \in 1..25 : IsSeq(u[i])
    <3>1. \A i \in 1..25 : u[i] = <<>> \/ u[i] = C[i][2]
      BY <1>5
    <3>2. \A i \in 1..25 : IsSeq(C[i][2])
      BY <1>5, IsSeqProperties DEF Raws
    <3> HIDE DEF u
    <3> QED
      BY <3>1, <3>2, EmptyIsSeq
  <2> HIDE DEF u
  <2>3. IsSeq(u) /\ Len(u) = 25
    BY <2>1, FunctionIsSeq
  <2>4. ToSet(FlattenSeq(u)) = UNION {ToSet(u[i]) : i \in 1..25}
    BY <2>2, <2>3, FlattenProperties
  <2> QED
    BY <2>4 DEF u
<1>6. ASSUME NEW i \in 1..25 PROVE Outdoes(Of(A)[i], Of(B)[i])
  <2>1. CASE B[i][1] \in lost
    <3>1. Of(A)[i] = <<>> /\ Of(B)[i] = <<>>
      BY <1>2, <1>3, <2>1
    <3> QED
      BY <3>1, OutdoesItself
  <2>2. CASE B[i][1] \notin lost
    <3>1. Of(A)[i] = A[i][2] /\ Of(B)[i] = B[i][2]
      BY <1>2, <1>3, <2>2
    <3> QED
      BY <1>3, <3>1
  <2> QED
    BY <2>1, <2>2
<1>7. /\ ToSet(t) = UNION {ToSet(Of(A)[i]) : i \in 1..25}
      /\ ToSet(s) = UNION {ToSet(Of(B)[i]) : i \in 1..25}
  BY <1>1, <1>2, <1>4, <1>5
<1> HIDE DEF Of
<1>8. Outdoes(t, s)
  BY <1>6, <1>7 DEF Outdoes
<1> QED
  BY <1>8 DEF s, t

\* No check says less of a resource in a deep scan.
LEMMA DeepAnswers ==
    ASSUME NEW w, JobsCounted(w)
    PROVE  AnswersOutdo(w, Deep, w, Regular)
<1>1. \A i \in 1..25 : Answers(w, Deep)[i][1] = Answers(w, Regular)[i][1]
  BY DEF Answers
<1>2. \A i \in 1..25 : i \notin {7, 8} => Answers(w, Deep)[i][2] = Answers(w, Regular)[i][2]
  BY DEF Answers
<1>3. /\ Answers(w, Regular)[7][2] = JenkinsFailedBuildCheck(w, Regular)
      /\ Answers(w, Deep)[7][2] = JenkinsFailedBuildCheck(w, Deep)
      /\ Answers(w, Regular)[8][2] = PipelinePatternCheck(w, Regular)
      /\ Answers(w, Deep)[8][2] = PipelinePatternCheck(w, Deep)
  BY DEF Answers
<1>4. \A j \in ToSet(Jobs) : Outdoes(PatternsOf(j, w[j], Deep), PatternsOf(j, w[j], Regular))
  <2> SUFFICES ASSUME NEW j \in ToSet(Jobs)
               PROVE  Outdoes(PatternsOf(j, w[j], Deep), PatternsOf(j, w[j], Regular))
    OBVIOUS
  <2> DEFINE job == w[j]
  <2>1. job.failures \in 0..3 /\ job.hours \in Nat
    BY DEF JobsCounted
  <2> HIDE DEF job
  <2>2. Outdoes(PatternsOf(j, job, Deep), PatternsOf(j, job, Regular))
    BY <2>1, PatternsLouder
  <2> QED
    BY <2>2 DEF job
<1>5. ToSet(FailingJobs(w, Regular)) \subseteq ToSet(FailingJobs(w, Deep))
  BY MoreJobsFail
<1>6. /\ Outdoes(Answers(w, Deep)[7][2], Answers(w, Regular)[7][2])
      /\ Outdoes(Answers(w, Deep)[8][2], Answers(w, Regular)[8][2])
  BY <1>3, <1>4, <1>5, FailedBuildLouder, PipelineLouder
<1>7. \A i \in 1..25 : Outdoes(Answers(w, Deep)[i][2], Answers(w, Regular)[i][2])
  BY <1>2, <1>6, OutdoesItself
<1> QED
  BY <1>1, <1>7 DEF AnswersOutdo

\* What a report says of a finding, it says of a less severe one of its subject.
LEMMA SaidAsWell ==
    ASSUME NEW g, NEW f, NEW report, Subject(g.res) = Subject(f.res), Weighs(f, g),
           Said(f, report)
    PROVE  Said(g, report)
<1>1. PICK i \in DOMAIN report :
        /\ SeverityWeight(report[i].sev) >= SeverityWeight(f.sev)
        /\ Subject(f.res) \in {Subject(res) : res \in report[i].about}
  BY DEF Said
<1>2. SeverityWeight(report[i].sev) >= SeverityWeight(g.sev)
  BY <1>1, WeightType DEF Weighs
<1> HIDE DEF Subject
<1> QED
  BY <1>1, <1>2 DEF Said

\* Checks that say no less make a report that says no less.
LEMMA ReportLouder ==
    ASSUME PoolsApart, NEW w, WellRead(w), NEW v, WellRead(v), NEW o, NEW p,
           AnswersOutdo(w, o, v, p), NEW lost, NEW i \in DOMAIN Report(v, p, lost, {})
    PROVE  Said(Report(v, p, lost, {})[i], Report(w, o, lost, {}))
<1> DEFINE raw == RawFindings(v, p, lost)
           found == GroupAgentFindings(raw)
           less == Report(v, p, lost, {})
           more == Report(w, o, lost, {})
           g == less[i]
<1>1. Raws(raw) /\ Goods(raw)
  BY RawFindingsProperties, RawsGoods
<1>2. less = Correlate(Deduplicate(Undismissed(found, {})))
  BY DEF Report, Detected
<1>3. \A f \in ToSet(RawFindings(w, o, lost)) : Said(f, more)
  BY RawSaid
<1>4. \A f \in ToSet(raw) : \E x : x.res = f.res /\ Weighs(x, f) /\ Said(x, more)
  <2> HIDE DEF more
  <2> QED
    BY <1>3, RawLouder DEF Outdoes
<1> HIDE DEF raw, more
<1>5. /\ Goods(found) /\ KeysApart(found)
      /\ \A m \in ToSet(found) : \E f \in ToSet(raw) : m = f \/ Pooled(m, f)
  BY <1>1, GroupAgentFindingsProperties
<1> HIDE DEF found, less
<1>6. IsSeq(less) /\ \A x \in ToSet(less) : \E m \in ToSet(found) : Alike(x, m)
  BY <1>2, <1>5, ReportProperties
<1>7. g \in ToSet(less)
  BY <1>6, IsSeqProperties DEF less
<1>8. PICK m \in ToSet(found) : Alike(g, m)
  BY <1>6, <1>7
<1>9. PICK f \in ToSet(raw) : m = f \/ Pooled(m, f)
  BY <1>5
<1>10. Subject(g.res) = Subject(f.res) /\ g.sev = f.sev
  <2>1. Subject(m.res) = Subject(f.res) /\ m.sev = f.sev
    <3>1. CASE m = f
      BY <3>1
    <3>2. CASE Pooled(m, f)
      <4>1. Raw(f)
        BY <1>1 DEF Raws
      <4> QED
        BY <3>2, <4>1, PooledSubject DEF Pooled
    <3> QED
      BY <1>9, <3>1, <3>2
  <2> HIDE DEF g
  <2> QED
    BY <1>8, <2>1 DEF Alike
<1>11. PICK x : x.res = f.res /\ Weighs(x, f) /\ Said(x, more)
  BY <1>4
<1> HIDE DEF g
<1>12. Subject(g.res) = Subject(x.res) /\ Weighs(x, g)
  BY <1>10, <1>11 DEF Weighs
<1>13. Said(g, more)
  BY <1>11, <1>12, SaidAsWell
<1> QED
  BY <1>13 DEF g, less, more

\* Whatever a regular scan says a deep scan of the same says as well.
THEOREM DeepIsNotQuieterHolds ==
    ASSUME PoolsApart
    PROVE  Spec => []DeepIsNotQuieter
<1>1. ASSUME WorldInv PROVE DeepIsNotQuieter
  <2>1. WellRead(world) /\ JobsCounted(world)
    BY <1>1, OnScaleWellRead, OnScaleCounted DEF WorldInv
  <2>2. AnswersOutdo(world, Deep, world, Regular)
    BY <2>1, DeepAnswers
  <2>3. \A i \in DOMAIN Report(world, Regular, down, {}) :
          Said(Report(world, Regular, down, {})[i], Report(world, Deep, down, {}))
    BY <2>1, <2>2, ReportLouder
  <2> QED
    BY <2>3 DEF DeepIsNotQuieter
<1> QED
  BY <1>1, AlwaysOnScale, PTL

-----------------------------------------------------------------------------
(* A worse measure.                                                        *)

\* What is said, with sequences of findings as they are put together.
Louder(t, s) == IsSeq(t) /\ IsSeq(s) /\ Outdoes(t, s)

LEMMA LouderSame == ASSUME NEW s, IsSeq(s) PROVE Louder(s, s)
  BY OutdoesItself DEF Louder

LEMMA LouderThanNothing == ASSUME NEW t, IsSeq(t) PROVE Louder(t, <<>>)
  BY EmptyIsSeq DEF Louder, Outdoes

LEMMA LouderConcat ==
    ASSUME NEW a, NEW b, NEW c, NEW d, Louder(a, c), Louder(b, d)
    PROVE  Louder(a \o b, c \o d)
<1>1. /\ IsSeq(a \o b) /\ ToSet(a \o b) = ToSet(a) \cup ToSet(b)
      /\ IsSeq(c \o d) /\ ToSet(c \o d) = ToSet(c) \cup ToSet(d)
  BY ConcatIsSeq DEF Louder
<1> QED
  BY <1>1 DEF Louder, Outdoes

LEMMA LouderEach ==
    ASSUME NEW list, IsSeq(list),
           NEW tt, tt = [i \in DOMAIN list |-> tt[i]],
           NEW ss, ss = [i \in DOMAIN list |-> ss[i]],
           \A i \in 1..Len(list) : list[i] \in ToSet(list) => Louder(tt[i], ss[i])
    PROVE  Louder(FlattenSeq(tt), FlattenSeq(ss))
<1>1. /\ Len(list) \in Nat /\ DOMAIN list = 1..Len(list)
      /\ \A i \in 1..Len(list) : list[i] \in ToSet(list)
  BY IsSeqProperties
<1>2. \A i \in 1..Len(list) : IsSeq(tt[i]) /\ IsSeq(ss[i]) /\ Outdoes(tt[i], ss[i])
  BY <1>1 DEF Louder
<1>3. IsSeq(tt) /\ Len(tt) = Len(list) /\ IsSeq(ss) /\ Len(ss) = Len(list)
  BY <1>1, FunctionIsSeq
<1> DEFINE t == FlattenSeq(tt)
           s == FlattenSeq(ss)
<1>4. /\ IsSeq(t) /\ ToSet(t) = UNION {ToSet(tt[i]) : i \in 1..Len(list)}
      /\ IsSeq(s) /\ ToSet(s) = UNION {ToSet(ss[i]) : i \in 1..Len(list)}
  BY <1>2, <1>3, FlattenProperties
<1> HIDE DEF t, s
<1>5. ASSUME NEW f \in ToSet(s) PROVE \E g \in ToSet(t) : g.res = f.res /\ Weighs(g, f)
  <2>1. PICK i \in 1..Len(list) : f \in ToSet(ss[i])
    BY <1>4
  <2>2. PICK g \in ToSet(tt[i]) : g.res = f.res /\ Weighs(g, f)
    BY <1>2, <2>1 DEF Outdoes
  <2> QED
    BY <1>4, <2>2
<1>6. Louder(t, s)
  BY <1>4, <1>5 DEF Louder, Outdoes
<1> QED
  BY <1>6 DEF t, s

LEMMA LouderWhen ==
    ASSUME NEW c, NEW x, NEW d, NEW y, d => c /\ x.res = y.res /\ Weighs(x, y)
    PROVE  Louder(When(c, x), When(d, y))
<1>1. /\ IsSeq(When(c, x)) /\ ToSet(When(c, x)) = IF c THEN {x} ELSE {}
      /\ IsSeq(When(d, y)) /\ ToSet(When(d, y)) = IF d THEN {y} ELSE {}
  BY WhenElements
<1> QED
  BY <1>1 DEF Louder, Outdoes

LEMMA LouderOne ==
    ASSUME NEW x, NEW y, x.res = y.res, Weighs(x, y)
    PROVE  Louder(<<x>>, <<y>>)
<1>1. IsSeq(<<x>>) /\ ToSet(<<x>>) = {x} /\ IsSeq(<<y>>) /\ ToSet(<<y>>) = {y}
  BY OneIsSeq
<1> QED
  BY <1>1 DEF Louder, Outdoes

\* One severity is as grave as another.
Graver(s, t) == SeverityWeight(s) >= SeverityWeight(t)

LEMMA GraverCases == \A s : Graver("critical", s) /\ Graver(s, s) /\ (s \in {"critical", "warning"} => Graver(s, "warning"))
  BY DEF Graver, SeverityWeight

LEMMA FindingFields ==
    \A sev, cat, res, sym : /\ Finding(sev, cat, res, sym).res = res
                            /\ Finding(sev, cat, res, sym).sev = sev
  BY DEF Finding

\* The same finding, made when the other is and as severe.
LEMMA LouderFinding ==
    ASSUME NEW c, NEW s, NEW d, NEW t, d => c /\ Graver(s, t), NEW cat, NEW res, NEW sym, NEW sym2
    PROVE  Louder(When(c, Finding(s, cat, res, sym)), When(d, Finding(t, cat, res, sym2)))
<1> DEFINE x == Finding(s, cat, res, sym)
           y == Finding(t, cat, res, sym2)
<1>1. x.res = y.res /\ x.sev = s /\ y.sev = t
  BY FindingFields
<1> HIDE DEF x, y
<1>2. d => c /\ x.res = y.res /\ Weighs(x, y)
  BY <1>1 DEF Weighs, Graver
<1>3. Louder(When(c, x), When(d, y))
  BY <1>2, LouderWhen
<1> QED
  BY <1>3 DEF x, y

LEMMA LouderSingle ==
    ASSUME NEW s, NEW t, Graver(s, t), NEW x, NEW y, x.sev = s, y.sev = t, x.res = y.res
    PROVE  Louder(<<x>>, <<y>>)
<1>1. Weighs(x, y)
  BY DEF Weighs, Graver
<1> QED
  BY <1>1, LouderOne

LEMMA WeighsItself == \A f : Weighs(f, f)
  BY WeightType DEF Weighs

\* Two thresholds: what is beyond them is said with one or with two.
Steps(far, over, one, two) == IF far THEN one ELSE IF over THEN two ELSE <<>>

LEMMA CaseSteps ==
    ASSUME NEW far, NEW over, ~(far /\ over), NEW one, NEW two
    PROVE  (CASE far -> one [] over -> two [] OTHER -> <<>>) = Steps(far, over, one, two)
<1>1. CASE far
  BY <1>1 DEF Steps
<1>2. CASE over
  BY <1>2 DEF Steps
<1>3. CASE ~far /\ ~over
  BY <1>3 DEF Steps
<1> QED
  BY <1>1, <1>2, <1>3

LEMMA LouderSteps ==
    ASSUME NEW far, NEW over, NEW far2, NEW over2, far2 => far, over2 => far \/ over,
           NEW one, NEW two, Louder(one, two), Louder(one, one), Louder(two, two)
    PROVE  Louder(Steps(far, over, one, two), Steps(far2, over2, one, two))
<1>1. Louder(one, <<>>) /\ Louder(two, <<>>) /\ Louder(<<>>, <<>>)
  BY EmptyIsSeq, LouderThanNothing DEF Louder
<1> QED
  BY <1>1 DEF Steps

\* x is at least y, and both are numbers.
AtLeast(x, y) == x \in Int /\ y \in Int /\ x >= y

LEMMA SeverityForGrows ==
    ASSUME NEW x, NEW y, AtLeast(x, y), NEW n \in Int
    PROVE  Graver(SeverityFor(x, n), SeverityFor(y, n))
<1>1. y > n => x > n
  BY DEF AtLeast
<1> QED
  BY <1>1, GraverCases DEF SeverityFor

\* Two readings of a kind of subject: all is the same but the measures, and
\* those of the first are no better.  Zero is no reading of an agent's monitor.
WorsePod(p, q) ==
    /\ p.state = q.state /\ p.oomed = q.oomed /\ p.deleting = q.deleting /\ p.limits = q.limits
    /\ AtLeast(p.restarts, q.restarts) /\ AtLeast(p.errors, q.errors)
    /\ AtLeast(p.mem, q.mem) /\ AtLeast(p.cpu, q.cpu)

WorseAgent(a, b) ==
    /\ a.state = b.state /\ a.reason = b.reason
    /\ a.executors = b.executors /\ a.busy = b.busy
    /\ AtLeast(a.mem, b.mem) /\ (a.mem = 100 => b.mem = 100)
    /\ AtLeast(b.disk, a.disk) /\ (a.disk = 0 => b.disk = 0)

WorseJob(j, k) ==
    /\ j.head = k.head /\ j.before = k.before /\ j.hours = k.hours /\ j.console = k.console
    /\ j.params = k.params /\ j.disabled = k.disabled /\ j.polling = k.polling
    /\ j.head \notin {"FAILURE", "SUCCESS"}
    /\ j.failures \in 0..3 /\ k.failures \in 0..3 /\ j.failures >= k.failures
    /\ j.stale \in Nat /\ k.stale \in Nat /\ j.stale >= k.stale
    /\ j.hours \in Nat

WorseBuild(b, c) ==
    AtLeast(b.minutes, c.minutes) /\ AtLeast(b.tenths, c.tenths) /\ AtLeast(b.log, c.log)

WorseNode(n, m) ==
    /\ n.ready = m.ready /\ n.pressure = m.pressure
    /\ AtLeast(n.mem, m.mem) /\ AtLeast(n.cpu, m.cpu)

WorseQueue(q, r) == AtLeast(q.size, r.size) /\ AtLeast(q.stuck, r.stuck)

WorseController(c, d) ==
    /\ c.api = d.api /\ c.quieting = d.quieting /\ c.updates = d.updates
    /\ AtLeast(d.disk, c.disk) /\ AtLeast(d.temp, c.temp)
    /\ AtLeast(c.mem, d.mem) /\ AtLeast(c.response, d.response)

\* Two replicas.
MoreGone(d, e) == d.gone \in 0..2 /\ e.gone \in 0..2 /\ d.gone >= e.gone
WorseDeployment(d, e) == MoreGone(d, e) /\ (e.stuck => d.stuck)

\* What is read in w is no better than what is read in v.
Worse(w, v) ==
    /\ \A p \in ToSet(Pods) : WorsePod(w[p], v[p])
    /\ \A a \in ToSet(Agents) : WorseAgent(w[a], v[a])
    /\ \A j \in ToSet(Jobs) : WorseJob(w[j], v[j])
    /\ \A b \in ToSet(Builds) : WorseBuild(w[b], v[b])
    /\ \A n \in ToSet(Nodes) : WorseNode(w[n], v[n])
    /\ \A s \in {"metrics", "plugin", "credential", "event", "pvc"} : w[s] = v[s]
    /\ WorseQueue(w["queue"], v["queue"])
    /\ WorseController(w["controller"], v["controller"])
    /\ WorseDeployment(w["deployment"], v["deployment"])
    /\ MoreGone(w["stateful"], v["stateful"])
    /\ w["cert"].ready = v["cert"].ready /\ AtLeast(v["cert"].days, w["cert"].days)

LEMMA AsReachable == ASSUME NEW w, NEW v, Worse(w, v)
                     PROVE  (Reachable(w) <=> Reachable(v)) /\ (Metered(w) <=> Metered(v))
<1>1. w["controller"].api = v["controller"].api /\ w["metrics"] = v["metrics"]
  BY DEF Worse, WorseController
<1> QED
  BY <1>1 DEF Reachable, Metered

-----------------------------------------------------------------------------
(* Agents and pods.                                                        *)

LEMMA AgentPodLouder ==
    ASSUME NEW w, NEW v, Worse(w, v)
    PROVE  Louder(AgentPodCheck(w), AgentPodCheck(v))
<1> DEFINE Says(p, sev, symptom) == OnAgent(sev, PodResource(p), symptom)
           Pending(p) == <<Says(p, "warning", "stuck in Pending")>>
           Oom(p, r) == When(r.oomed, Says(p, "critical", "OOMKilled"))
           Crash(p, r) == When(r.state = "CrashLoopBackOff", Says(p, "critical", r.state))
           Image(p, r) == When(r.state = "ImagePullBackOff", Says(p, "warning", r.state))
           Often(p, r) == When(r.restarts >= 5 /\ ~r.oomed, Says(p, "warning", "high_restarts"))
           Stuck(p, r) == When(r.deleting, Says(p, "warning", "stuck terminating"))
           Of(p, r) == IF r.state = "pending" THEN Pending(p)
                       ELSE Oom(p, r) \o Crash(p, r) \o Image(p, r) \o Often(p, r) \o Stuck(p, r)
           ss(u) == [i \in DOMAIN Pods |-> Of(Pods[i], u[Pods[i]])]
<1>1. \A u : AgentPodCheck(u) = FlattenSeq(ss(u))
  BY DEF AgentPodCheck, Each
<1>2. ASSUME NEW p, NEW a, NEW b, WorsePod(a, b)
      PROVE  Louder(Of(p, a), Of(p, b))
  <2>1. /\ a.state = b.state /\ a.oomed = b.oomed /\ a.deleting = b.deleting
        /\ b.restarts >= 5 => a.restarts >= 5
    BY <1>2 DEF WorsePod, AtLeast
  <2>2. Louder(Oom(p, a), Oom(p, b)) /\ Louder(Stuck(p, a), Stuck(p, b))
    BY <2>1, LouderSame, WhenElements
  <2>3. Louder(Crash(p, a), Crash(p, b)) /\ Louder(Image(p, a), Image(p, b))
    BY <2>1, LouderSame, WhenElements
  <2>4. Louder(Often(p, a), Often(p, b))
    <3> DEFINE c == a.restarts >= 5 /\ ~a.oomed
               d == b.restarts >= 5 /\ ~b.oomed
    <3>1. d => c
      BY <2>1
    <3> HIDE DEF c, d
    <3>2. Louder(When(c, Says(p, "warning", "high_restarts")),
                 When(d, Says(p, "warning", "high_restarts")))
      BY <3>1, GraverCases, LouderFinding DEF OnAgent
    <3> QED
      BY <3>2 DEF c, d
  <2>5. Louder(Pending(p), Pending(p))
    BY OneIsSeq, LouderSame
  <2> HIDE DEF Oom, Crash, Image, Often, Stuck, Pending
  <2> QED
    BY <2>1, <2>2, <2>3, <2>4, <2>5, LouderConcat
<1> HIDE DEF Of
<1>3. \A i \in 1..Len(Pods) : Louder(ss(w)[i], ss(v)[i])
  BY <1>2, ListsAreSeqs, IsSeqProperties DEF Worse
<1>4. \A u : ss(u) = [i \in DOMAIN Pods |-> ss(u)[i]]
  OBVIOUS
<1> HIDE DEF ss
<1> QED
  BY <1>1, <1>3, <1>4, ListsAreSeqs, LouderEach

LEMMA AgentResourceLouder ==
    ASSUME NEW w, NEW v, Worse(w, v)
    PROVE  Louder(AgentResourceCheck(w), AgentResourceCheck(v))
<1> DEFINE Usage(p, running, value, symptom) ==
               When(running /\ value > 80,
                    OnAgent(SeverityFor(value, 90), PodResource(p), symptom))
           None(p) == <<OnAgent("warning", PodResource(p), "no limits")>>
           Of(p, r) == IF ~r.limits THEN None(p)
                       ELSE Usage(p, r.state = "running", r.mem, "memory of limit")
                            \o Usage(p, r.state = "running", r.cpu, "cpu of limit")
           ss(u) == [i \in DOMAIN Pods |-> Of(Pods[i], u[Pods[i]])]
<1>1. \A u : AgentResourceCheck(u) = IF ~Metered(u) THEN <<>> ELSE FlattenSeq(ss(u))
  BY DEF AgentResourceCheck, Each
<1>2. ASSUME NEW p, NEW c, NEW x, NEW y, AtLeast(x, y), NEW symptom
      PROVE  Louder(Usage(p, c, x, symptom), Usage(p, c, y, symptom))
  <2> DEFINE s == SeverityFor(x, 90)
             t == SeverityFor(y, 90)
             more == c /\ x > 80
             less == c /\ y > 80
  <2>1. Graver(s, t)
    BY <1>2, SeverityForGrows
  <2>2. less => more
    BY <1>2 DEF AtLeast
  <2> HIDE DEF s, t, more, less
  <2>3. Louder(When(more, OnAgent(s, PodResource(p), symptom)),
               When(less, OnAgent(t, PodResource(p), symptom)))
    BY <2>1, <2>2, LouderFinding DEF OnAgent
  <2> QED
    BY <2>3 DEF s, t, more, less
<1>3. \A p : Louder(None(p), None(p))
  BY OneIsSeq, LouderSame
<1> HIDE DEF Usage, None
<1>4. ASSUME NEW p, NEW a, NEW b, WorsePod(a, b)
      PROVE  Louder(Of(p, a), Of(p, b))
  <2>1. a.state = b.state /\ a.limits = b.limits /\ AtLeast(a.mem, b.mem) /\ AtLeast(a.cpu, b.cpu)
    BY <1>4 DEF WorsePod
  <2> QED
    BY <1>2, <1>3, <2>1, LouderConcat
<1> HIDE DEF Of
<1>5. \A i \in 1..Len(Pods) : Louder(ss(w)[i], ss(v)[i])
  BY <1>4, ListsAreSeqs, IsSeqProperties DEF Worse
<1>6. \A u : ss(u) = [i \in DOMAIN Pods |-> ss(u)[i]]
  OBVIOUS
<1> HIDE DEF ss
<1>7. Louder(FlattenSeq(ss(w)), FlattenSeq(ss(v)))
  BY <1>5, <1>6, ListsAreSeqs, LouderEach
<1> QED
  BY <1>1, <1>7, AsReachable, EmptyIsSeq, LouderSame

LEMMA AgentErrorLouder ==
    ASSUME NEW w, NEW v, Worse(w, v)
    PROVE  Louder(AgentErrorCheck(w), AgentErrorCheck(v))
<1> DEFINE Says(p, sev, symptom) == OnAgent(sev, PodResource(p), symptom)
           Exit(p, r) == When(r.state = "exit1", Says(p, "warning", "container_exit"))
           Killed(p, r) == When(r.state = "exit137",
                                [Says(p, "critical", "container_exit") EXCEPT !.kw = "OOMKilled"])
           Logged(p, r) == When(r.state = "running" /\ r.errors > 0, Says(p, "warning", "N error"))
           Of(p, r) == Exit(p, r) \o Killed(p, r) \o Logged(p, r)
           ss(u) == [i \in DOMAIN Pods |-> Of(Pods[i], u[Pods[i]])]
<1>1. \A u : AgentErrorCheck(u) = FlattenSeq(ss(u))
  BY DEF AgentErrorCheck, Each
<1>2. ASSUME NEW p, NEW a, NEW b, WorsePod(a, b)
      PROVE  Louder(Of(p, a), Of(p, b))
  <2>1. a.state = b.state /\ AtLeast(a.errors, b.errors)
    BY <1>2 DEF WorsePod
  <2>2. Louder(Exit(p, a), Exit(p, b))
    BY <2>1, LouderSame, WhenElements
  <2>3. Louder(Killed(p, a), Killed(p, b))
    BY <2>1, LouderSame, WhenElements
  <2>4. Louder(Logged(p, a), Logged(p, b))
    <3> DEFINE c == a.state = "running" /\ a.errors > 0
               d == b.state = "running" /\ b.errors > 0
    <3>1. d => c
      BY <2>1 DEF AtLeast
    <3> HIDE DEF c, d
    <3>2. Louder(When(c, Says(p, "warning", "N error")), When(d, Says(p, "warning", "N error")))
      BY <3>1, GraverCases, LouderFinding DEF OnAgent
    <3> QED
      BY <3>2 DEF c, d
  <2> HIDE DEF Exit, Killed, Logged
  <2> QED
    BY <2>2, <2>3, <2>4, LouderConcat
<1> HIDE DEF Of
<1>3. \A i \in 1..Len(Pods) : Louder(ss(w)[i], ss(v)[i])
  BY <1>2, ListsAreSeqs, IsSeqProperties DEF Worse
<1>4. \A u : ss(u) = [i \in DOMAIN Pods |-> ss(u)[i]]
  OBVIOUS
<1> HIDE DEF ss
<1> QED
  BY <1>1, <1>3, <1>4, ListsAreSeqs, LouderEach

LEMMA AgentConnectivityLouder ==
    ASSUME NEW w, NEW v, Worse(w, v)
    PROVE  Louder(AgentConnectivityCheck(w), AgentConnectivityCheck(v))
<1> DEFINE Gone == <<Finding("critical", "jenkins_controller", <<"jenkins-controller">>, <<"unreachable">>)>>
           None(x, r) == When(r.busy > 0 /\ r.executors = 0,
                              OnAgent("warning", Node(x), "no executors configured"))
           Mem(x, r) == When(r.mem > 90 /\ r.mem # 100,
                             OnAgent(SeverityFor(r.mem, 95), Node(x), "agent memory"))
           Full(r) == IF r.disk < 1000 THEN "critical" ELSE "warning"
           Disk(x, r) == When(r.disk < 5000 /\ r.disk # 0, OnAgent(Full(r), Node(x), "agent disk"))
           Of(x, r) == IF r.state # "online" THEN <<>> ELSE None(x, r) \o Mem(x, r) \o Disk(x, r)
           ss(u) == [i \in DOMAIN Agents |-> Of(Agents[i], u[Agents[i]])]
<1>1. \A u : AgentConnectivityCheck(u) = IF ~Reachable(u) THEN Gone ELSE FlattenSeq(ss(u))
  BY DEF AgentConnectivityCheck, Each
<1>2. ASSUME NEW x, NEW a, NEW b, WorseAgent(a, b)
      PROVE  Louder(Of(x, a), Of(x, b))
  <2>1. /\ a.state = b.state /\ a.busy = b.busy /\ a.executors = b.executors
        /\ AtLeast(a.mem, b.mem) /\ (a.mem = 100 => b.mem = 100)
        /\ AtLeast(b.disk, a.disk) /\ (a.disk = 0 => b.disk = 0)
    BY <1>2 DEF WorseAgent
  <2>2. Louder(None(x, a), None(x, b))
    BY <2>1, LouderSame, WhenElements
  <2>3. Louder(Mem(x, a), Mem(x, b))
    <3> DEFINE c == a.mem > 90 /\ a.mem # 100
               d == b.mem > 90 /\ b.mem # 100
               s == SeverityFor(a.mem, 95)
               t == SeverityFor(b.mem, 95)
    <3>1. d => c
      BY <2>1 DEF AtLeast
    <3>2. Graver(s, t)
      BY <2>1, SeverityForGrows
    <3> HIDE DEF c, d, s, t
    <3>3. Louder(When(c, OnAgent(s, Node(x), "agent memory")), When(d, OnAgent(t, Node(x), "agent memory")))
      BY <3>1, <3>2, LouderFinding DEF OnAgent
    <3> QED
      BY <3>3 DEF c, d, s, t
  <2>4. Louder(Disk(x, a), Disk(x, b))
    <3> DEFINE c == a.disk < 5000 /\ a.disk # 0
               d == b.disk < 5000 /\ b.disk # 0
    <3>1. d => c
      BY <2>1 DEF AtLeast
    <3>2. Graver(Full(a), Full(b))
      <4>1. b.disk < 1000 => a.disk < 1000
        BY <2>1 DEF AtLeast
      <4> QED
        BY <4>1, GraverCases
    <3> HIDE DEF c, d, Full
    <3>3. Louder(When(c, OnAgent(Full(a), Node(x), "agent disk")),
                 When(d, OnAgent(Full(b), Node(x), "agent disk")))
      BY <3>1, <3>2, LouderFinding DEF OnAgent
    <3>4. Disk(x, a) = When(c, OnAgent(Full(a), Node(x), "agent disk"))
      BY DEF c
    <3>5. Disk(x, b) = When(d, OnAgent(Full(b), Node(x), "agent disk"))
      BY DEF d
    <3> HIDE DEF Disk
    <3> QED
      BY <3>3, <3>4, <3>5
  <2>5. Louder(<<>>, <<>>)
    BY EmptyIsSeq, LouderSame
  <2> HIDE DEF None, Mem, Disk
  <2> QED
    BY <2>1, <2>2, <2>3, <2>4, <2>5, LouderConcat
<1> HIDE DEF Of
<1>3. \A i \in 1..Len(Agents) : Louder(ss(w)[i], ss(v)[i])
  BY <1>2, ListsAreSeqs, IsSeqProperties DEF Worse
<1>4. \A u : ss(u) = [i \in DOMAIN Agents |-> ss(u)[i]]
  OBVIOUS
<1> HIDE DEF ss
<1>5. Louder(FlattenSeq(ss(w)), FlattenSeq(ss(v)))
  BY <1>3, <1>4, ListsAreSeqs, LouderEach
<1>6. Louder(Gone, Gone)
  BY OneIsSeq, LouderSame
<1> HIDE DEF Gone
<1> QED
  BY <1>1, <1>5, <1>6, AsReachable

LEMMA AgentOfflineLouder ==
    ASSUME NEW w, NEW v, Worse(w, v)
    PROVE  Louder(AgentOfflineCheck(w), AgentOfflineCheck(v))
<1> DEFINE Of(x, r, up) ==
               When(up /\ r.state # "online" /\ x \in K3s,
                    Finding(IF r.state = "temporarily" THEN "warning" ELSE "critical",
                            "jenkins_agent", Node(x), <<"agent_offline", r.reason>>))
           ss(u) == [i \in DOMAIN Agents |-> Of(Agents[i], u[Agents[i]], Reachable(u))]
<1>1. \A u : AgentOfflineCheck(u) = FlattenSeq(ss(u))
  BY DEF AgentOfflineCheck, Each
<1>2. ASSUME NEW x, NEW a, NEW b, WorseAgent(a, b), NEW p, NEW q, p <=> q
      PROVE  Louder(Of(x, a, p), Of(x, b, q))
  <2> DEFINE f == Finding(IF a.state = "temporarily" THEN "warning" ELSE "critical",
                          "jenkins_agent", Node(x), <<"agent_offline", a.reason>>)
             g == Finding(IF b.state = "temporarily" THEN "warning" ELSE "critical",
                          "jenkins_agent", Node(x), <<"agent_offline", b.reason>>)
             c == p /\ a.state # "online" /\ x \in K3s
             d == q /\ b.state # "online" /\ x \in K3s
  <2>1. a.state = b.state /\ a.reason = b.reason
    BY <1>2 DEF WorseAgent
  <2>2. f = g /\ (d => c)
    BY <1>2, <2>1
  <2>3. Weighs(g, g)
    BY WeightType DEF Weighs
  <2> HIDE DEF f, g, c, d
  <2>4. Louder(When(c, f), When(d, g))
    BY <2>2, <2>3, LouderWhen
  <2> QED
    BY <2>4 DEF f, g, c, d
<1> HIDE DEF Of
<1>3. \A i \in 1..Len(Agents) : Louder(ss(w)[i], ss(v)[i])
  BY <1>2, AsReachable, ListsAreSeqs, IsSeqProperties DEF Worse
<1>4. \A u : ss(u) = [i \in DOMAIN Agents |-> ss(u)[i]]
  OBVIOUS
<1> HIDE DEF ss
<1> QED
  BY <1>1, <1>3, <1>4, ListsAreSeqs, LouderEach
-----------------------------------------------------------------------------
(* Builds and the queue.                                                   *)

LEMMA JenkinsJobLouder ==
    ASSUME NEW w, NEW v, Worse(w, v)
    PROVE  Louder(JenkinsJobCheck(w), JenkinsJobCheck(v))
<1> DEFINE Res == <<"jenkins-queue">>
           Grave(n) == IF n > 3 THEN "critical" ELSE "warning"
           Waiting(n) == When(n > 0, Finding(Grave(n), "jenkins_queue", Res, <<"N build">>))
           Long(n) == When(n > 20, Finding("warning", "jenkins_queue", Res, <<"congestion">>))
           Of(x, r) == When(r.minutes > 120, OnBuild("warning", x, <<"running for N">>))
           size(u) == u["queue"].size
           stuck(u) == IF u["queue"].stuck < u["queue"].size THEN u["queue"].stuck ELSE u["queue"].size
           ss(u) == [i \in DOMAIN Builds |-> Of(Builds[i], u[Builds[i]])]
           Says(u) == Waiting(stuck(u)) \o Long(size(u)) \o FlattenSeq(ss(u))
<1>1. \A u : JenkinsJobCheck(u) = IF ~Reachable(u) THEN <<>> ELSE Says(u)
  BY DEF JenkinsJobCheck, Each
<1>2. AtLeast(size(w), size(v)) /\ AtLeast(stuck(w), stuck(v))
  BY DEF Worse, WorseQueue, AtLeast
<1>3. ASSUME NEW m, NEW n, AtLeast(m, n)
      PROVE  Louder(Waiting(m), Waiting(n)) /\ Louder(Long(m), Long(n))
  <2> DEFINE many(x) == x > 0
             long(x) == x > 20
  <2>1. (many(n) => many(m)) /\ (long(n) => long(m)) /\ (n > 3 => m > 3)
    BY <1>3 DEF AtLeast
  <2>2. Graver(Grave(m), Grave(n)) /\ Graver("warning", "warning")
    BY <2>1, GraverCases
  <2> HIDE DEF Res, Grave, many, long
  <2>3. Louder(When(many(m), Finding(Grave(m), "jenkins_queue", Res, <<"N build">>)),
               When(many(n), Finding(Grave(n), "jenkins_queue", Res, <<"N build">>)))
    BY <2>1, <2>2, LouderFinding
  <2>4. Louder(When(long(m), Finding("warning", "jenkins_queue", Res, <<"congestion">>)),
               When(long(n), Finding("warning", "jenkins_queue", Res, <<"congestion">>)))
    BY <2>1, <2>2, LouderFinding
  <2> QED
    BY <2>3, <2>4 DEF many, long
<1>4. ASSUME NEW x, NEW a, NEW b, WorseBuild(a, b)
      PROVE  Louder(Of(x, a), Of(x, b))
  <2> DEFINE c == a.minutes > 120
             d == b.minutes > 120
  <2>1. d => c
    BY <1>4 DEF WorseBuild, AtLeast
  <2> HIDE DEF c, d
  <2>2. Louder(When(c, OnBuild("warning", x, <<"running for N">>)),
               When(d, OnBuild("warning", x, <<"running for N">>)))
    BY <2>1, GraverCases, LouderFinding DEF OnBuild
  <2> QED
    BY <2>2 DEF c, d
<1> HIDE DEF Of, Waiting, Long
<1>5. \A i \in 1..Len(Builds) : Louder(ss(w)[i], ss(v)[i])
  BY <1>4, ListsAreSeqs, IsSeqProperties DEF Worse
<1>6. \A u : ss(u) = [i \in DOMAIN Builds |-> ss(u)[i]]
  OBVIOUS
<1> HIDE DEF ss, size, stuck
<1>7. Louder(FlattenSeq(ss(w)), FlattenSeq(ss(v)))
  BY <1>5, <1>6, ListsAreSeqs, LouderEach
<1>8. Louder(Says(w), Says(v))
  BY <1>2, <1>3, <1>7, LouderConcat
<1> HIDE DEF Says
<1> QED
  BY <1>1, <1>8, AsReachable, EmptyIsSeq, LouderSame

\* A build far over a threshold is critical, one over it a warning.
LEMMA BuildLouder ==
    ASSUME NEW x, NEW f1, NEW f2, NEW o1, NEW o2, f2 => f1, o2 => o1,
           NEW a1, NEW a2, NEW b1, NEW b2
    PROVE  Louder(IF f1 THEN <<OnBuild("critical", x, a1)>> ELSE When(o1, OnBuild("warning", x, b1)),
                  IF f2 THEN <<OnBuild("critical", x, a2)>> ELSE When(o2, OnBuild("warning", x, b2)))
<1>1. ASSUME NEW s, NEW t, Graver(s, t), NEW p, NEW q
      PROVE  Louder(<<OnBuild(s, x, p)>>, <<OnBuild(t, x, q)>>)
  <2> DEFINE f == OnBuild(s, x, p)
             g == OnBuild(t, x, q)
  <2>1. f.sev = s /\ g.sev = t /\ f.res = g.res
    BY FindingFields DEF OnBuild
  <2> HIDE DEF f, g
  <2>2. Louder(<<f>>, <<g>>)
    BY <1>1, <2>1, LouderSingle
  <2> QED
    BY <2>2 DEF f, g
<1>2. /\ Louder(<<OnBuild("critical", x, a1)>>, <<OnBuild("critical", x, a2)>>)
      /\ Louder(<<OnBuild("critical", x, a1)>>, <<OnBuild("warning", x, b2)>>)
      /\ Louder(<<OnBuild("warning", x, b1)>>, <<OnBuild("warning", x, b2)>>)
  BY <1>1, GraverCases
<1>3. \A f : Louder(<<f>>, <<>>) /\ Louder(<<>>, <<>>)
  BY OneIsSeq, EmptyIsSeq, LouderThanNothing
<1> QED
  BY <1>2, <1>3 DEF When

LEMMA BuildDurationLouder ==
    ASSUME NEW w, NEW v, Worse(w, v)
    PROVE  Louder(BuildDurationCheck(w), BuildDurationCheck(v))
<1> DEFINE sym(r) == <<"running N.nx", r.tenths % 10>>
           far(r) == r.tenths > 50
           over(r) == r.tenths > 30 /\ r.minutes > 30
           Of(x, r) == IF far(r) THEN <<OnBuild("critical", x, sym(r))>>
                       ELSE When(over(r), OnBuild("warning", x, sym(r)))
           ss(u) == [i \in DOMAIN Builds |-> Of(Builds[i], u[Builds[i]])]
<1>1. \A u : BuildDurationCheck(u) = IF ~Reachable(u) THEN <<>> ELSE FlattenSeq(ss(u))
  BY DEF BuildDurationCheck, Each
<1>2. ASSUME NEW x, NEW a, NEW b, WorseBuild(a, b)
      PROVE  Louder(Of(x, a), Of(x, b))
  <2>1. (far(b) => far(a)) /\ (over(b) => over(a))
    BY <1>2 DEF WorseBuild, AtLeast
  <2> HIDE DEF sym, far, over
  <2> QED
    BY <2>1, BuildLouder
<1> HIDE DEF Of
<1>3. \A i \in 1..Len(Builds) : Louder(ss(w)[i], ss(v)[i])
  BY <1>2, ListsAreSeqs, IsSeqProperties DEF Worse
<1>4. \A u : ss(u) = [i \in DOMAIN Builds |-> ss(u)[i]]
  OBVIOUS
<1> HIDE DEF ss
<1>5. Louder(FlattenSeq(ss(w)), FlattenSeq(ss(v)))
  BY <1>3, <1>4, ListsAreSeqs, LouderEach
<1> QED
  BY <1>1, <1>5, AsReachable, EmptyIsSeq, LouderSame

LEMMA BuildLogSizeLouder ==
    ASSUME NEW w, NEW v, Worse(w, v)
    PROVE  Louder(BuildLogSizeCheck(w), BuildLogSizeCheck(v))
<1> DEFINE far(r) == r.log > 100
           over(r) == r.log > 50
           Of(x, r) == IF far(r) THEN <<OnBuild("critical", x, <<"log spam">>)>>
                       ELSE When(over(r), OnBuild("warning", x, <<"log exceeding N">>))
           ss(u) == [i \in DOMAIN Builds |-> Of(Builds[i], u[Builds[i]])]
<1>1. \A u : BuildLogSizeCheck(u) = IF ~Reachable(u) THEN <<>> ELSE FlattenSeq(ss(u))
  BY DEF BuildLogSizeCheck, Each
<1>2. ASSUME NEW x, NEW a, NEW b, WorseBuild(a, b)
      PROVE  Louder(Of(x, a), Of(x, b))
  <2>1. (far(b) => far(a)) /\ (over(b) => over(a))
    BY <1>2 DEF WorseBuild, AtLeast
  <2> HIDE DEF far, over
  <2> QED
    BY <2>1, BuildLouder
<1> HIDE DEF Of
<1>3. \A i \in 1..Len(Builds) : Louder(ss(w)[i], ss(v)[i])
  BY <1>2, ListsAreSeqs, IsSeqProperties DEF Worse
<1>4. \A u : ss(u) = [i \in DOMAIN Builds |-> ss(u)[i]]
  OBVIOUS
<1> HIDE DEF ss
<1>5. Louder(FlattenSeq(ss(w)), FlattenSeq(ss(v)))
  BY <1>3, <1>4, ListsAreSeqs, LouderEach
<1> QED
  BY <1>1, <1>5, AsReachable, EmptyIsSeq, LouderSame

LEMMA ZombieBuildLouder ==
    ASSUME NEW w, NEW v, Worse(w, v)
    PROVE  Louder(ZombieBuildCheck(w), ZombieBuildCheck(v))
<1> DEFINE F(x, sev, symptom) == [OnBuild(sev, x, <<symptom>>) EXCEPT !.on = RunsOn[x]]
           far(r) == r.minutes > 1440
           over(r) == r.tenths > 40
           long(r) == r.minutes > 480
           Of(x, r) == IF far(r) THEN <<F(x, "critical", "Likely zombie")>>
                       ELSE IF over(r) THEN <<F(x, "warning", "Zombie build")>>
                       ELSE When(long(r), F(x, "warning", "running for N"))
           ss(u) == [i \in DOMAIN Builds |-> Of(Builds[i], u[Builds[i]])]
<1>1. \A u : ZombieBuildCheck(u) = IF ~Reachable(u) THEN <<>> ELSE FlattenSeq(ss(u))
  BY DEF ZombieBuildCheck, Each
<1>2. ASSUME NEW x, NEW a, NEW b, WorseBuild(a, b)
      PROVE  Louder(Of(x, a), Of(x, b))
  <2>1. (far(b) => far(a)) /\ (over(b) => over(a)) /\ (long(b) => long(a))
    BY <1>2 DEF WorseBuild, AtLeast
  <2>2. \A sev, sym : F(x, sev, sym).res = <<"jenkins-build", x>> /\ F(x, sev, sym).sev = sev
    BY DEF OnBuild, Finding
  <2> HIDE DEF F, far, over, long
  <2>3. ASSUME NEW s, NEW t, Graver(s, t), NEW p, NEW q
        PROVE  Louder(<<F(x, s, p)>>, <<F(x, t, q)>>)
    <3> DEFINE f == F(x, s, p)
               g == F(x, t, q)
    <3>1. f.sev = s /\ g.sev = t /\ f.res = g.res
      BY <2>2
    <3> HIDE DEF f, g
    <3>2. Louder(<<f>>, <<g>>)
      BY <2>3, <3>1, LouderSingle
    <3> QED
      BY <3>2 DEF f, g
  <2>4. \A sym, sym2 : /\ Louder(<<F(x, "critical", sym)>>, <<F(x, "critical", sym2)>>)
                       /\ Louder(<<F(x, "critical", sym)>>, <<F(x, "warning", sym2)>>)
                       /\ Louder(<<F(x, "warning", sym)>>, <<F(x, "warning", sym2)>>)
    BY <2>3, GraverCases
  <2>5. \A f : Louder(<<f>>, <<>>) /\ Louder(<<>>, <<>>)
    BY OneIsSeq, EmptyIsSeq, LouderThanNothing
  <2> QED
    BY <2>1, <2>4, <2>5 DEF When
<1> HIDE DEF Of
<1>3. \A i \in 1..Len(Builds) : Louder(ss(w)[i], ss(v)[i])
  BY <1>2, ListsAreSeqs, IsSeqProperties DEF Worse
<1>4. \A u : ss(u) = [i \in DOMAIN Builds |-> ss(u)[i]]
  OBVIOUS
<1> HIDE DEF ss
<1>5. Louder(FlattenSeq(ss(w)), FlattenSeq(ss(v)))
  BY <1>3, <1>4, ListsAreSeqs, LouderEach
<1> QED
  BY <1>1, <1>5, AsReachable, EmptyIsSeq, LouderSame
-----------------------------------------------------------------------------
(* Jobs.                                                                   *)

HeadLength(job) == IF job.head = "none" THEN 0 ELSE 1

\* The build of a job's own state, the failures, the builds before them.
LEMMA ResultsAre ==
    ASSUME NEW job, job.failures \in 0..3
    PROVE  LET h == HeadLength(job)
               n == h + job.failures
               R == Results(job) IN
           /\ IsSeq(R) /\ Len(R) = IF job.before = "none" THEN n ELSE 12
           /\ h = 1 => R[1] = job.head
           /\ \A i \in 1..job.failures : R[h + i] = "FAILURE"
           /\ job.before # "none" =>
                \A i \in 1..(12 - n) :
                    R[n + i] = IF job.before = "mixed" /\ i % 2 = 0 THEN "FAILURE" ELSE "SUCCESS"
<1> DEFINE head == IF job.head = "none" THEN <<>> ELSE <<job.head>>
           row == [i \in 1..job.failures |-> "FAILURE"]
           newest == head \o row
           before == [i \in 1..(History - Len(newest)) |->
                        IF job.before = "mixed" /\ i % 2 = 0 THEN "FAILURE" ELSE "SUCCESS"]
           h == HeadLength(job)
           k == job.failures
           R == Results(job)
<1>1. IsSeq(head) /\ Len(head) = h /\ h \in 0..1 /\ (h = 1 => head[1] = job.head)
  <2>1. CASE job.head = "none"
    BY <2>1, EmptyIsSeq DEF HeadLength
  <2>2. CASE job.head # "none"
    BY <2>2, OneIsSeq DEF HeadLength
  <2> QED
    BY <2>1, <2>2
<1>2. IsSeq(row) /\ Len(row) = k /\ \A i \in 1..k : row[i] = "FAILURE"
  <2>1. row = [i \in 1..k |-> row[i]] /\ k \in Nat /\ \A i \in 1..k : row[i] = "FAILURE"
    OBVIOUS
  <2> HIDE DEF row, k
  <2> QED
    BY <2>1, FunctionIsSeq
<1>3. R = IF job.before = "none" THEN newest ELSE newest \o before
  BY DEF Results
<1>4. k \in 0..3
  OBVIOUS
<1> HIDE DEF head, row, h, k, R
<1>5. /\ IsSeq(newest) /\ Len(newest) = h + k
      /\ \A i \in 1..h : newest[i] = head[i]
      /\ \A i \in 1..k : newest[h + i] = row[i]
  BY <1>1, <1>2, ConcatIsSeq
<1> HIDE DEF newest
<1> DEFINE n == h + k
           m == 12 - n
           Odd(i) == job.before = "mixed" /\ i % 2 = 0
<1>6. m \in Nat /\ n \in Nat /\ n + m = 12
  BY <1>1, <1>4
<1>7. before = [i \in 1..m |-> IF Odd(i) THEN "FAILURE" ELSE "SUCCESS"]
  BY <1>5 DEF History
<1> HIDE DEF before, n, m, Odd
<1>8. /\ IsSeq(before) /\ Len(before) = m
      /\ \A i \in 1..m : before[i] = IF Odd(i) THEN "FAILURE" ELSE "SUCCESS"
  <2>1. before = [i \in 1..m |-> before[i]]
    BY <1>7
  <2> QED
    BY <1>6, <1>7, <2>1, FunctionIsSeq
<1>9. /\ IsSeq(newest \o before) /\ Len(newest \o before) = n + m
      /\ \A i \in 1..n : (newest \o before)[i] = newest[i]
      /\ \A i \in 1..m : (newest \o before)[n + i] = before[i]
  BY <1>5, <1>8, ConcatIsSeq DEF n
<1>10. IsSeq(R) /\ Len(R) = IF job.before = "none" THEN n ELSE 12
  BY <1>3, <1>5, <1>6, <1>9 DEF n
<1>11. \A i \in 1..n : R[i] = newest[i]
  BY <1>3, <1>9
<1>12. h = 1 => R[1] = job.head
  <2> SUFFICES ASSUME h = 1 PROVE R[1] = job.head
    OBVIOUS
  <2>1. 1 \in 1..h /\ 1 \in 1..n
    BY <1>4 DEF n
  <2> QED
    BY <1>1, <1>5, <1>11, <2>1
<1>13. \A i \in 1..k : R[h + i] = "FAILURE"
  <2>1. \A i \in 1..k : h + i \in 1..n
    BY <1>1, <1>4 DEF n
  <2> QED
    BY <1>2, <1>5, <1>11, <2>1
<1>14. job.before # "none" =>
         \A i \in 1..m : R[n + i] = IF Odd(i) THEN "FAILURE" ELSE "SUCCESS"
  BY <1>3, <1>8, <1>9
<1> QED
  BY <1>10, <1>12, <1>13, <1>14 DEF h, k, n, m, R, Odd

\* As many failures: the same builds.
LEMMA SameBuilds ==
    ASSUME NEW a, NEW b, WorseJob(a, b), a.failures = b.failures
    PROVE  /\ Results(a) = Results(b)
           /\ FailedColor(a) <=> FailedColor(b)
           /\ \A o : RecentFailures(a, o) = RecentFailures(b, o)
           /\ \A j, o : PatternsOf(j, a, o) = PatternsOf(j, b, o)
<1>1. /\ a.head = b.head /\ a.before = b.before /\ a.hours = b.hours /\ a.disabled = b.disabled
      /\ a.console = b.console /\ a.params = b.params
  BY DEF WorseJob
<1>2. Results(a) = Results(b)
  BY <1>1 DEF Results
<1>3. FailedColor(a) <=> FailedColor(b)
  BY <1>1, <1>2 DEF FailedColor
<1>4. \A o : RecentFailures(a, o) = RecentFailures(b, o)
  BY <1>1, <1>2 DEF RecentFailures
<1>5. ASSUME NEW j, NEW o PROVE PatternsOf(j, a, o) = PatternsOf(j, b, o)
  BY <1>1, <1>2 DEF PatternsOf
<1> QED
  BY <1>2, <1>3, <1>4, <1>5

\* More of them: the first one stands behind the build of the job's own state.
LEMMA MoreFailures ==
    ASSUME NEW a, NEW b, WorseJob(a, b), a.failures # b.failures
    PROVE  /\ a.failures \in 1..3 /\ b.failures \in 0..2 /\ b.failures < a.failures
           /\ HeadLength(a) = HeadLength(b) /\ HeadLength(a) \in 0..1
           /\ IsSeq(Results(a)) /\ IsSeq(Results(b))
           /\ HeadLength(a) + 1 \in 1..Len(Results(a))
           /\ Results(a)[HeadLength(a) + 1] = "FAILURE"
           /\ HeadLength(a) = 1 => /\ Results(a)[1] = a.head
                                   /\ Len(Results(b)) >= 1 /\ Results(b)[1] = a.head
<1> DEFINE h == HeadLength(a)
           R == Results(a)
           S == Results(b)
<1>1. /\ a.failures \in 0..3 /\ b.failures \in 0..3 /\ a.failures >= b.failures
      /\ a.head = b.head /\ a.before = b.before
  BY DEF WorseJob
<1>2. a.failures \in 1..3 /\ b.failures \in 0..2 /\ b.failures < a.failures
  BY <1>1
<1>3. h = HeadLength(b) /\ h \in 0..1
  BY <1>1 DEF HeadLength
<1> HIDE DEF h, R, S
<1>4. /\ IsSeq(R) /\ Len(R) = IF a.before = "none" THEN h + a.failures ELSE 12
      /\ h = 1 => R[1] = a.head
      /\ \A i \in 1..a.failures : R[h + i] = "FAILURE"
  BY <1>1, ResultsAre DEF h, R
<1>5. /\ IsSeq(S) /\ Len(S) = IF b.before = "none" THEN h + b.failures ELSE 12
      /\ h = 1 => S[1] = b.head
  BY <1>1, <1>3, ResultsAre DEF S
<1>6. h + 1 \in 1..Len(R)
  BY <1>2, <1>3, <1>4
<1>7. 1 \in 1..a.failures
  BY <1>2
<1>8. R[h + 1] = "FAILURE"
  BY <1>4, <1>7
<1>9. h = 1 => Len(S) >= 1
  BY <1>2, <1>3, <1>5
<1> QED
  BY <1>1, <1>2, <1>3, <1>4, <1>5, <1>6, <1>8, <1>9 DEF h, R, S

\* A job of a failed color keeps it.
LEMMA FailedColorStays ==
    ASSUME NEW a, NEW b, WorseJob(a, b), FailedColor(b)
    PROVE  FailedColor(a)
<1>1. CASE a.failures = b.failures
  BY <1>1, SameBuilds
<1>2. CASE a.failures # b.failures
  <2> DEFINE h == HeadLength(a)
             R == Results(a)
             S == Results(b)
  <2>1. /\ h \in 0..1 /\ IsSeq(R) /\ IsSeq(S) /\ h + 1 \in 1..Len(R) /\ R[h + 1] = "FAILURE"
        /\ h = 1 => R[1] = a.head /\ S[1] = a.head
    BY <1>2, MoreFailures
  <2>2. ~a.disabled /\ S[1] \in {"FAILURE", "UNSTABLE"}
    BY DEF FailedColor, WorseJob
  <2> HIDE DEF h, R, S
  <2>3. R # <<>>
    BY <2>1, EmptyIsSeq
  <2>4. R[1] \in {"FAILURE", "UNSTABLE"}
    <3>1. CASE h = 0
      BY <2>1, <3>1
    <3>2. CASE h = 1
      BY <2>1, <2>2, <3>2
    <3> QED
      BY <2>1, <3>1, <3>2
  <2> QED
    BY <2>2, <2>3, <2>4 DEF FailedColor, R
<1> QED
  BY <1>1, <1>2

LEMMA ProductGrows == \A m, n, k \in Nat : m <= n => m * k <= n * k
<1> SUFFICES ASSUME NEW m \in Nat, NEW n \in Nat, NEW k \in Nat, m <= n PROVE m * k <= n * k
  OBVIOUS
<1>1. PICK d \in Nat : n = m + d
  <2>1. n - m \in Nat /\ n = m + (n - m)
    OBVIOUS
  <2> QED
    BY <2>1
<1>2. d * k \in Nat /\ m * k \in Nat /\ n * k = m * k + d * k
  BY <1>1
<1> QED
  BY <1>2

\* A job with a failure in the window and the depth of the scan keeps one.
LEMMA RecentFailuresStay ==
    ASSUME NEW a, NEW b, WorseJob(a, b), NEW o, o.depth \in Nat, o.window \in Nat,
           RecentFailures(b, o) # {}
    PROVE  RecentFailures(a, o) # {}
<1>1. CASE a.failures = b.failures
  BY <1>1, SameBuilds
<1>2. CASE a.failures # b.failures
  <2> DEFINE h == HeadLength(a)
             R == Results(a)
             S == Results(b)
             r == AtMost(o.depth, R)
             s == AtMost(o.depth, S)
  <2>1. /\ h \in 0..1 /\ IsSeq(R) /\ IsSeq(S) /\ h + 1 \in 1..Len(R) /\ R[h + 1] = "FAILURE"
        /\ h = 1 => R[1] = a.head /\ S[1] = a.head
    BY <1>2, MoreFailures
  <2>2. a.hours = b.hours /\ a.hours \in Nat /\ a.head # "FAILURE"
    BY DEF WorseJob
  <2>3. /\ RecentFailures(a, o) = {i \in DOMAIN r : r[i] = "FAILURE" /\ i * a.hours <= o.window}
        /\ RecentFailures(b, o) = {i \in DOMAIN s : s[i] = "FAILURE" /\ i * a.hours <= o.window}
    BY <2>2 DEF RecentFailures
  <2> HIDE DEF h, R, S
  <2>4. /\ IsSeq(r) /\ Len(r) = IF o.depth < Len(R) THEN o.depth ELSE Len(R)
        /\ \A i \in 1..Len(r) : r[i] = R[i]
    BY <2>1, AtMostProperties
  <2>5. /\ IsSeq(s) /\ Len(s) = IF o.depth < Len(S) THEN o.depth ELSE Len(S)
        /\ \A i \in 1..Len(s) : s[i] = S[i]
    BY <2>1, AtMostProperties
  <2> HIDE DEF r, s
  <2>6. /\ DOMAIN r = 1..Len(r) /\ DOMAIN s = 1..Len(s)
        /\ Len(R) \in Nat /\ Len(S) \in Nat
    BY <2>1, <2>4, <2>5, IsSeqProperties
  <2>7. PICK i \in 1..Len(s) : s[i] = "FAILURE" /\ i * a.hours <= o.window
    BY <2>3, <2>6
  <2>8. h + 1 <= i
    <3>1. CASE h = 0
      BY <2>7, <3>1
    <3>2. CASE h = 1
      <4>1. i # 1
        BY <2>1, <2>2, <2>5, <2>7, <3>2
      <4> QED
        BY <2>7, <3>2, <4>1
    <3> QED
      BY <2>1, <3>1, <3>2
  <2>9. h + 1 \in 1..Len(r)
    BY <2>1, <2>4, <2>5, <2>6, <2>7, <2>8
  <2>10. r[h + 1] = "FAILURE"
    BY <2>1, <2>4, <2>9
  <2>11. (h + 1) * a.hours <= o.window
    <3> DEFINE x == (h + 1) * a.hours
               y == i * a.hours
               k == a.hours
    <3>1. h + 1 \in Nat /\ i \in Nat /\ k \in Nat
      BY <2>1, <2>2, <2>7
    <3> HIDE DEF k
    <3>2. (h + 1) * k <= i * k /\ (h + 1) * k \in Nat /\ i * k \in Nat
      BY <2>8, <3>1, ProductGrows
    <3>3. x <= y /\ x \in Nat /\ y \in Nat
      BY <3>2 DEF k
    <3>4. y <= o.window
      BY <2>7
    <3> HIDE DEF x, y
    <3>5. x <= o.window
      BY <3>3, <3>4
    <3> QED
      BY <3>5 DEF x
  <2> QED
    BY <2>3, <2>6, <2>9, <2>10, <2>11
<1> QED
  BY <1>1, <1>2

\* The two kinds of a scan.
Scans == {Regular, Deep}

LEMMA ScanOptions ==
    \A o \in Scans : /\ o.depth \in Nat /\ o.window \in Nat /\ o.history \in Nat /\ o.history >= 10
                     /\ o.streak \in {2, 3}
  BY DEF Scans, Regular, Deep

LEMMA FailingJobsStay ==
    ASSUME NEW w, NEW v, Worse(w, v), NEW o \in Scans
    PROVE  ToSet(FailingJobs(v, o)) \subseteq ToSet(FailingJobs(w, o))
<1> DEFINE I(u) == {i \in 1..Len(Jobs) : /\ Reachable(u) /\ FailedColor(u[Jobs[i]])
                                         /\ RecentFailures(u[Jobs[i]], o) # {}}
<1>1. \A u : ToSet(FailingJobs(u, o)) = {Jobs[i] : i \in I(u)}
  BY FailingJobsChosen DEF Chosen
<1>2. ASSUME NEW i \in I(v) PROVE i \in I(w)
  <2> DEFINE a == w[Jobs[i]]
             b == v[Jobs[i]]
  <2>1. WorseJob(a, b)
    BY ListsAreSeqs, IsSeqProperties DEF Worse
  <2>2. Reachable(w) /\ FailedColor(b) /\ RecentFailures(b, o) # {}
    BY AsReachable
  <2> HIDE DEF a, b
  <2>3. FailedColor(a) /\ RecentFailures(a, o) # {}
    BY <2>1, <2>2, FailedColorStays, RecentFailuresStay, ScanOptions
  <2> QED
    BY <2>2, <2>3 DEF a
<1> HIDE DEF I
<1> QED
  BY <1>1, <1>2

\* The streak of a job without a build of its own state is that of its failures;
\* that of the others is none.
LEMMA StreakOfFailures ==
    ASSUME NEW a, NEW b, WorseJob(a, b), a.failures # b.failures, NEW n \in Nat, n >= 10
    PROVE  LET s == Streak(AtMost(n, Results(b)))
               t == Streak(AtMost(n, Results(a)))
           IN  s \in Nat /\ t \in Nat /\ (s >= 2 => t >= 3)
<1> DEFINE h == HeadLength(a)
           R == Results(a)
           S == Results(b)
           r == AtMost(n, R)
           s == AtMost(n, S)
           k == b.failures
           m == a.failures
<1>1. /\ h \in 0..1 /\ h = HeadLength(b) /\ IsSeq(R) /\ IsSeq(S)
      /\ k \in 0..2 /\ m \in 1..3 /\ k < m
      /\ h = 1 => Len(S) >= 1 /\ S[1] = a.head
  BY MoreFailures
<1>2. a.head # "FAILURE" /\ b.head = a.head /\ k \in 0..3 /\ m \in 0..3
  BY DEF WorseJob
<1> HIDE DEF h, R, S
<1>3. /\ Len(R) = IF a.before = "none" THEN h + m ELSE 12
      /\ \A i \in 1..m : R[h + i] = "FAILURE"
  BY <1>2, ResultsAre DEF R, h
<1>4. /\ Len(S) = IF b.before = "none" THEN h + k ELSE 12
      /\ b.before # "none" =>
           \A i \in 1..(12 - (h + k)) :
              S[h + k + i] = IF b.before = "mixed" /\ i % 2 = 0 THEN "FAILURE" ELSE "SUCCESS"
  BY <1>1, <1>2, ResultsAre DEF S
<1>5. /\ IsSeq(r) /\ Len(r) = IF n < Len(R) THEN n ELSE Len(R)
      /\ \A i \in 1..Len(r) : r[i] = R[i]
  BY <1>1, AtMostProperties
<1>6. /\ IsSeq(s) /\ Len(s) = IF n < Len(S) THEN n ELSE Len(S)
      /\ \A i \in 1..Len(s) : s[i] = S[i]
  BY <1>1, AtMostProperties
<1> HIDE DEF r, s, k, m
<1> DEFINE x == Streak(r)
           y == Streak(s)
<1>7. x \in 0..Len(r) /\ (x < Len(r) => r[x + 1] # "FAILURE")
  BY <1>5, StreakProperties
<1>8. y \in 0..Len(s) /\ \A i \in 1..y : s[i] = "FAILURE"
  BY <1>6, StreakProperties
<1> HIDE DEF x, y
<1>9. Len(R) \in Nat /\ Len(S) \in Nat /\ Len(r) \in Nat /\ Len(s) \in Nat
  BY <1>1, <1>5, <1>6, IsSeqProperties
<1>10. ASSUME y >= 2 PROVE x >= 3
  <2>1. 1 \in 1..y /\ 1 \in 1..Len(s) /\ y \in Nat
    BY <1>8, <1>9, <1>10
  <2>2. S[1] = "FAILURE"
    BY <1>6, <1>8, <2>1
  <2>3. h = 0
    BY <1>1, <1>2, <2>2
  <2>4. y <= k
    <3> SUFFICES ASSUME k < y PROVE FALSE
      BY <1>1, <2>1
    <3>1. k + 1 \in 1..y /\ k + 1 \in 1..Len(s) /\ k + 1 <= Len(S)
      BY <1>1, <1>6, <1>8, <1>9
    <3>2. b.before # "none"
      BY <1>1, <1>4, <2>3, <3>1
    <3>3. 1 \in 1..(12 - (h + k)) /\ 1 % 2 = 1 /\ h + k + 1 = k + 1
      BY <1>1, <2>3
    <3>4. S[k + 1] = "SUCCESS"
      BY <1>4, <3>2, <3>3
    <3> QED
      BY <1>6, <1>8, <3>1, <3>4
  <2>5. m = 3
    BY <1>1, <1>10, <2>1, <2>4
  <2>6. Len(r) >= 3
    BY <1>3, <1>5, <2>3, <2>5
  <2>7. \A i \in 1..3 : r[i] = "FAILURE"
    <3>1. \A i \in 1..3 : R[i] = "FAILURE"
      BY <1>3, <2>3, <2>5
    <3>2. \A i \in 1..3 : i \in 1..Len(r)
      BY <1>9, <2>6
    <3> QED
      BY <1>5, <3>1, <3>2
  <2> SUFFICES ASSUME x < 3 PROVE FALSE
    BY <1>7
  <2>8. x + 1 \in 1..3 /\ x < Len(r)
    BY <1>7, <1>9, <2>6
  <2> QED
    BY <1>7, <2>7, <2>8
<1>11. x \in Nat /\ y \in Nat
  BY <1>7, <1>8
<1> QED
  BY <1>10, <1>11 DEF x, y, r, s, R, S

\* More failures never make a job's streak, class or parameters less of a pattern.
LEMMA PatternsStay ==
    ASSUME NEW j, NEW a, NEW b, WorseJob(a, b), NEW o \in Scans
    PROVE  Outdoes(PatternsOf(j, a, o), PatternsOf(j, b, o))
<1>1. CASE a.failures = b.failures
  BY <1>1, SameBuilds, OutdoesItself
<1>2. CASE a.failures # b.failures
  <2> DEFINE s == PatternsOf(j, b, o)
             t == PatternsOf(j, a, o)
             m == Streak(AtMost(o.history, Results(b)))
             n == Streak(AtMost(o.history, Results(a)))
             Odd == a.params = "empty" \/ FailureClass(a.console) # "unknown"
  <2>1. m \in Nat /\ n \in Nat /\ (m >= 2 => n >= 3)
    BY <1>2, ScanOptions, StreakOfFailures
  <2>2. o.streak \in Nat /\ o.streak >= 2 /\ o.streak <= 3
    BY ScanOptions
  <2>3. a.params = b.params /\ a.console = b.console
    BY DEF WorseJob
  <2>4. /\ \A f \in ToSet(s) : f.res = JobRes(j) /\ f.sev \in {"critical", "warning"}
        /\ m < 2 => /\ \A f \in ToSet(s) : f.sev = "warning"
                    /\ ToSet(s) # {} => Odd
    BY <2>1, <2>2, <2>3, PatternsFound
  <2>5. /\ \A f \in ToSet(t) : f.res = JobRes(j) /\ f.sev \in {"critical", "warning"}
        /\ n >= o.streak => \E f \in ToSet(t) : f.sev = "critical"
        /\ Odd => ToSet(t) # {}
    BY <2>1, <2>2, PatternsFound
  <2>6. \A f, g : \/ g.sev = "critical"
                  \/ f.sev = "warning" /\ g.sev \in {"critical", "warning"}
                  => Weighs(g, f)
    BY DEF Weighs, SeverityWeight
  <2> HIDE DEF s, t, m, n, Odd
  <2>7. Outdoes(t, s)
    <3>1. CASE m < 2
      BY <2>4, <2>5, <2>6, <3>1 DEF Outdoes
    <3>2. CASE ~(m < 2)
      <4>1. n >= o.streak
        BY <2>1, <2>2, <3>2
      <4> QED
        BY <2>4, <2>5, <2>6, <4>1 DEF Outdoes
    <3> QED
      BY <3>1, <3>2
  <2> QED
    BY <2>7 DEF s, t
<1> QED
  BY <1>1, <1>2

LEMMA FailuresLouder ==
    ASSUME NEW w, NEW v, Worse(w, v), NEW o \in Scans
    PROVE  /\ Outdoes(JenkinsFailedBuildCheck(w, o), JenkinsFailedBuildCheck(v, o))
           /\ Outdoes(PipelinePatternCheck(w, o), PipelinePatternCheck(v, o))
<1>1. ToSet(FailingJobs(v, o)) \subseteq ToSet(FailingJobs(w, o))
  BY FailingJobsStay
<1>2. ASSUME NEW j \in ToSet(Jobs)
      PROVE  /\ w[j].console = v[j].console
             /\ Outdoes(PatternsOf(j, w[j], o), PatternsOf(j, v[j], o))
  <2> DEFINE a == w[j]
             b == v[j]
  <2>1. WorseJob(a, b)
    BY DEF Worse
  <2> HIDE DEF a, b
  <2>2. a.console = b.console /\ Outdoes(PatternsOf(j, a, o), PatternsOf(j, b, o))
    BY <2>1, PatternsStay DEF WorseJob
  <2> QED
    BY <2>2 DEF a, b
<1> QED
  BY <1>1, <1>2, FailedBuildLouder, PipelineLouder

LEMMA CountTwo ==
    ASSUME NEW s, IsSeq(s), NEW i \in 1..Len(s), NEW k \in 1..Len(s), i # k,
           NEW result, s[i] = result, s[k] = result
    PROVE  Count(result, s) >= 2
<1> DEFINE C == {x \in DOMAIN s : s[x] = result}
<1>1. DOMAIN s = 1..Len(s) /\ Len(s) \in Nat
  BY IsSeqProperties
<1>2. IsFiniteSet(C) /\ {i, k} \subseteq C
  <2>1. IsFiniteSet(1..Len(s)) /\ C \subseteq 1..Len(s)
    BY <1>1, FS_Interval
  <2> QED
    BY <1>1, <2>1, FS_Subset
<1>3. Cardinality({i, k}) = 2
  <2>1. IsFiniteSet({i}) /\ Cardinality({i}) = 1 /\ k \notin {i}
    BY FS_Singleton
  <2>2. Cardinality({i} \cup {k}) = 2
    <3> DEFINE I == {i}
    <3> HIDE DEF I
    <3>1. IsFiniteSet(I) /\ Cardinality(I) = 1 /\ k \notin I
      BY <2>1 DEF I
    <3>2. Cardinality(I \cup {k}) = 2
      BY <3>1, FS_AddElement
    <3> QED
      BY <3>2 DEF I
  <2>3. {i} \cup {k} = {i, k}
    OBVIOUS
  <2> QED
    BY <2>2, <2>3
<1> HIDE DEF C
<1>4. Cardinality({i, k}) <= Cardinality(C)
  BY <1>2, FS_Subset
<1>5. Cardinality(C) \in Nat
  BY <1>2, FS_CardinalityType
<1>6. Cardinality(C) >= 2
  BY <1>3, <1>4, <1>5
<1> QED
  BY <1>6 DEF Count, C

LEMMA CountNone ==
    ASSUME NEW s, IsSeq(s), NEW result, \A i \in 1..Len(s) : s[i] # result
    PROVE  Count(result, s) = 0
<1>1. {i \in DOMAIN s : s[i] = result} = {}
  BY IsSeqProperties
<1> QED
  BY <1>1, FS_EmptySet DEF Count

\* Successes and failures, two of each, stay so when one more build fails.
LEMMA FlakyStays ==
    ASSUME NEW a, NEW b, WorseJob(a, b),
           Count("SUCCESS", AtMost(10, Results(b))) >= 2, Count("FAILURE", AtMost(10, Results(b))) >= 2
    PROVE  /\ Count("SUCCESS", AtMost(10, Results(a))) >= 2
           /\ Count("FAILURE", AtMost(10, Results(a))) >= 2
<1>1. CASE a.failures = b.failures
  BY <1>1, SameBuilds
<1>2. CASE a.failures # b.failures
  <2> DEFINE h == HeadLength(a)
             R == Results(a)
             S == Results(b)
             r == AtMost(10, R)
             s == AtMost(10, S)
             k == b.failures
             m == a.failures
             Odd(i) == a.before = "mixed" /\ i % 2 = 0
  <2>1. /\ h \in 0..1 /\ h = HeadLength(b) /\ IsSeq(R) /\ IsSeq(S)
        /\ k \in 0..2 /\ m \in 1..3 /\ k < m
        /\ h = 1 => Len(S) >= 1 /\ S[1] = a.head
    BY <1>2, MoreFailures
  <2>2. a.head \notin {"FAILURE", "SUCCESS"} /\ b.before = a.before /\ k \in 0..3 /\ m \in 0..3
    BY DEF WorseJob
  <2> HIDE DEF h, R, S
  <2>3. /\ Len(R) = IF a.before = "none" THEN h + m ELSE 12
        /\ \A i \in 1..m : R[h + i] = "FAILURE"
        /\ a.before # "none" =>
             \A i \in 1..(12 - (h + m)) : R[h + m + i] = IF Odd(i) THEN "FAILURE" ELSE "SUCCESS"
    BY <2>2, ResultsAre DEF R, h
  <2>4. /\ Len(S) = IF a.before = "none" THEN h + k ELSE 12
        /\ \A i \in 1..k : S[h + i] = "FAILURE"
        /\ a.before # "none" =>
             \A i \in 1..(12 - (h + k)) : S[h + k + i] = IF Odd(i) THEN "FAILURE" ELSE "SUCCESS"
    BY <2>1, <2>2, ResultsAre, ZenonT(40) DEF S
  <2>5. /\ IsSeq(r) /\ Len(r) = IF 10 < Len(R) THEN 10 ELSE Len(R)
        /\ \A i \in 1..Len(r) : r[i] = R[i]
    BY <2>1, AtMostProperties
  <2>6. /\ IsSeq(s) /\ Len(s) = IF 10 < Len(S) THEN 10 ELSE Len(S)
        /\ \A i \in 1..Len(s) : s[i] = S[i]
    BY <2>1, AtMostProperties
  <2>7. Count("SUCCESS", s) >= 2 /\ Count("FAILURE", s) >= 2
    BY DEF s, S
  <2> HIDE DEF r, s, k, m
  <2>8. Len(R) \in Nat /\ Len(S) \in Nat /\ Len(r) \in Nat /\ Len(s) \in Nat
    BY <2>1, <2>5, <2>6, IsSeqProperties
  <2>9. a.before # "none"
    <3> SUFFICES ASSUME a.before = "none" PROVE \A i \in 1..Len(s) : s[i] # "SUCCESS"
      BY <2>6, <2>7, CountNone
    <3> TAKE i \in 1..Len(s)
    <3>1. i \in 1..(h + k) /\ s[i] = S[i]
      BY <2>1, <2>4, <2>6, <2>8
    <3>2. CASE h = 1 /\ i = 1
      BY <2>1, <2>2, <3>1, <3>2
    <3>3. CASE ~(h = 1 /\ i = 1)
      <4>1. i - h \in 1..k /\ h + (i - h) = i
        BY <2>1, <3>1, <3>3
      <4> QED
        BY <2>4, <3>1, <4>1
    <3> QED
      BY <3>2, <3>3
  <2>10. Len(R) = 12 /\ Len(S) = 12 /\ Len(r) = 10 /\ Len(s) = 10
    BY <2>3, <2>4, <2>5, <2>6, <2>9
  <2>11. ASSUME NEW i \in 1..3, i % 2 = 1
         PROVE  h + m + i \in 1..Len(r) /\ r[h + m + i] = "SUCCESS"
    <3>1. i \in 1..(12 - (h + m)) /\ ~Odd(i) /\ h + m + i \in 1..10
      BY <2>1, <2>11
    <3>2. R[h + m + i] = "SUCCESS"
      BY <2>3, <2>9, <3>1
    <3> QED
      BY <2>5, <2>10, <3>1, <3>2
  <2>12. Count("SUCCESS", r) >= 2
    <3>1. 1 % 2 = 1 /\ 3 % 2 = 1 /\ h + m + 1 # h + m + 3
      BY <2>1
    <3>2. /\ h + m + 1 \in 1..Len(r) /\ r[h + m + 1] = "SUCCESS"
          /\ h + m + 3 \in 1..Len(r) /\ r[h + m + 3] = "SUCCESS"
      BY <2>11, <3>1
    <3> QED
      BY <2>5, <3>1, <3>2, CountTwo
  <2>13. \A i \in 1..m : h + i \in 1..Len(r) /\ r[h + i] = "FAILURE"
    <3>1. \A i \in 1..m : h + i \in 1..10
      BY <2>1
    <3> QED
      BY <2>3, <2>5, <2>10, <3>1
  <2>14. Count("FAILURE", r) >= 2
    <3>1. CASE m >= 2
      <4>1. 1 \in 1..m /\ 2 \in 1..m /\ h + 1 # h + 2
        BY <2>1, <3>1
      <4>2. /\ h + 1 \in 1..Len(r) /\ r[h + 1] = "FAILURE"
            /\ h + 2 \in 1..Len(r) /\ r[h + 2] = "FAILURE"
        BY <2>13, <4>1
      <4> QED
        BY <2>5, <4>1, <4>2, CountTwo
    <3>2. CASE ~(m >= 2)
      <4>1. m = 1 /\ k = 0
        BY <2>1, <3>2
      <4>2. a.before = "mixed"
        <5> SUFFICES ASSUME a.before # "mixed" PROVE \A i \in 1..Len(s) : s[i] # "FAILURE"
          BY <2>6, <2>7, CountNone
        <5> TAKE i \in 1..Len(s)
        <5>1. i \in 1..10 /\ s[i] = S[i]
          BY <2>6, <2>10
        <5>2. CASE h = 1 /\ i = 1
          BY <2>1, <2>2, <5>1, <5>2
        <5>3. CASE ~(h = 1 /\ i = 1)
          <6>1. i - h \in 1..(12 - (h + k)) /\ h + k + (i - h) = i /\ ~Odd(i - h)
            BY <2>1, <4>1, <5>1, <5>3
          <6>2. S[h + k + (i - h)] = "SUCCESS"
            BY <2>4, <2>9, <6>1
          <6> QED
            BY <5>1, <6>1, <6>2
        <5> QED
          BY <5>2, <5>3
      <4>3. h + m + 2 \in 1..Len(r) /\ r[h + m + 2] = "FAILURE"
        <5>1. 2 \in 1..(12 - (h + m)) /\ Odd(2) /\ h + m + 2 \in 1..10
          BY <2>1, <4>1, <4>2
        <5>2. R[h + m + 2] = "FAILURE"
          BY <2>3, <2>9, <5>1
        <5> QED
          BY <2>5, <2>10, <5>1, <5>2
      <4>4. 1 \in 1..m /\ h + 1 # h + m + 2
        BY <2>1, <4>1
      <4>5. h + 1 \in 1..Len(r) /\ r[h + 1] = "FAILURE"
        BY <2>13, <4>4
      <4> QED
        BY <2>5, <4>3, <4>4, <4>5, CountTwo
    <3> QED
      BY <3>1, <3>2
  <2> QED
    BY <2>12, <2>14 DEF r, R
<1> QED
  BY <1>1, <1>2

LEMMA DisabledJobLouder ==
    ASSUME NEW w, NEW v, Worse(w, v)
    PROVE  Louder(DisabledJobCheck(w), DisabledJobCheck(v))
<1> DEFINE built(r) == r.disabled /\ Results(r) # <<>>
           Of(x, r, up) == When(up /\ r.disabled /\ Results(r) # <<>>,
                                OnJob("warning", "jenkins_job", x, "disabled but built recently"))
           ss(u) == [i \in DOMAIN Jobs |-> Of(Jobs[i], u[Jobs[i]], Reachable(u))]
<1>1. \A u : DisabledJobCheck(u) = FlattenSeq(ss(u))
  BY DEF DisabledJobCheck, Each
<1>2. ASSUME NEW x, NEW a, NEW b, WorseJob(a, b), NEW p, NEW q, p <=> q
      PROVE  Louder(Of(x, a, p), Of(x, b, q))
  <2>1. built(b) => built(a)
    <3>1. a.disabled = b.disabled
      BY <1>2 DEF WorseJob
    <3>2. a.failures = b.failures => Results(a) = Results(b)
      BY <1>2, SameBuilds
    <3>3. a.failures # b.failures => Results(a) # <<>>
      BY <1>2, MoreFailures, EmptyIsSeq
    <3> QED
      BY <3>1, <3>2, <3>3
  <2> DEFINE c == p /\ a.disabled /\ Results(a) # <<>>
             d == q /\ b.disabled /\ Results(b) # <<>>
  <2>2. d => c
    BY <1>2, <2>1
  <2> HIDE DEF c, d
  <2>3. Louder(When(c, OnJob("warning", "jenkins_job", x, "disabled but built recently")),
               When(d, OnJob("warning", "jenkins_job", x, "disabled but built recently")))
    BY <2>2, GraverCases, LouderFinding DEF OnJob
  <2> QED
    BY <2>3 DEF c, d
<1> HIDE DEF Of
<1>3. \A i \in 1..Len(Jobs) : Louder(ss(w)[i], ss(v)[i])
  BY <1>2, AsReachable, ListsAreSeqs, IsSeqProperties DEF Worse
<1>4. \A u : ss(u) = [i \in DOMAIN Jobs |-> ss(u)[i]]
  OBVIOUS
<1> HIDE DEF ss
<1> QED
  BY <1>1, <1>3, <1>4, ListsAreSeqs, LouderEach

LEMMA FlakyTestLouder ==
    ASSUME NEW w, NEW v, Worse(w, v)
    PROVE  Louder(FlakyTestCheck(w), FlakyTestCheck(v))
<1> DEFINE flaky(r) == /\ Count("SUCCESS", AtMost(10, Results(r))) >= 2
                       /\ Count("FAILURE", AtMost(10, Results(r))) >= 2
           Of(x, r, up) == When(/\ up /\ FailedColor(r)
                                /\ Count("SUCCESS", AtMost(10, Results(r))) >= 2
                                /\ Count("FAILURE", AtMost(10, Results(r))) >= 2,
                                OnJob("warning", "jenkins_flaky_test", x, "Flaky job"))
           ss(u) == [i \in DOMAIN Jobs |-> Of(Jobs[i], u[Jobs[i]], Reachable(u))]
<1>1. \A u : FlakyTestCheck(u) = FlattenSeq(ss(u))
  BY DEF FlakyTestCheck, Each
<1>2. ASSUME NEW x, NEW a, NEW b, WorseJob(a, b), NEW p, NEW q, p <=> q
      PROVE  Louder(Of(x, a, p), Of(x, b, q))
  <2>1. (FailedColor(b) => FailedColor(a)) /\ (flaky(b) => flaky(a))
    BY <1>2, FailedColorStays, FlakyStays
  <2> DEFINE c == /\ p /\ FailedColor(a)
                  /\ Count("SUCCESS", AtMost(10, Results(a))) >= 2
                  /\ Count("FAILURE", AtMost(10, Results(a))) >= 2
             d == /\ q /\ FailedColor(b)
                  /\ Count("SUCCESS", AtMost(10, Results(b))) >= 2
                  /\ Count("FAILURE", AtMost(10, Results(b))) >= 2
  <2>2. d => c
    BY <1>2, <2>1
  <2> HIDE DEF c, d
  <2>3. Louder(When(c, OnJob("warning", "jenkins_flaky_test", x, "Flaky job")),
               When(d, OnJob("warning", "jenkins_flaky_test", x, "Flaky job")))
    BY <2>2, GraverCases, LouderFinding DEF OnJob
  <2> QED
    BY <2>3 DEF c, d
<1> HIDE DEF Of
<1>3. \A i \in 1..Len(Jobs) : Louder(ss(w)[i], ss(v)[i])
  BY <1>2, AsReachable, ListsAreSeqs, IsSeqProperties DEF Worse
<1>4. \A u : ss(u) = [i \in DOMAIN Jobs |-> ss(u)[i]]
  OBVIOUS
<1> HIDE DEF ss
<1> QED
  BY <1>1, <1>3, <1>4, ListsAreSeqs, LouderEach

LEMMA SCMPollingLouder ==
    ASSUME NEW w, NEW v, Worse(w, v)
    PROVE  Louder(SCMPollingCheck(w), SCMPollingCheck(v))
<1> DEFINE Of(x, r, up) == When(up /\ r.polling = "errors",
                                OnJob("warning", "jenkins_scm_polling", x, "SCM polling errors"))
           ss(u) == [i \in DOMAIN Jobs |-> Of(Jobs[i], u[Jobs[i]], Reachable(u))]
<1>1. \A u : SCMPollingCheck(u) = FlattenSeq(ss(u))
  BY DEF SCMPollingCheck, Each
<1>2. ASSUME NEW x, NEW a, NEW b, WorseJob(a, b), NEW p, NEW q, p <=> q
      PROVE  Louder(Of(x, a, p), Of(x, b, q))
  <2> DEFINE c == p /\ a.polling = "errors"
             d == q /\ b.polling = "errors"
  <2>1. d => c
    BY <1>2 DEF WorseJob
  <2> HIDE DEF c, d
  <2>2. Louder(When(c, OnJob("warning", "jenkins_scm_polling", x, "SCM polling errors")),
               When(d, OnJob("warning", "jenkins_scm_polling", x, "SCM polling errors")))
    BY <2>1, GraverCases, LouderFinding DEF OnJob
  <2> QED
    BY <2>2 DEF c, d
<1> HIDE DEF Of
<1>3. \A i \in 1..Len(Jobs) : Louder(ss(w)[i], ss(v)[i])
  BY <1>2, AsReachable, ListsAreSeqs, IsSeqProperties DEF Worse
<1>4. \A u : ss(u) = [i \in DOMAIN Jobs |-> ss(u)[i]]
  OBVIOUS
<1> HIDE DEF ss
<1> QED
  BY <1>1, <1>3, <1>4, ListsAreSeqs, LouderEach

\* Branches that were stale are among those that are.
LEMMA StaleBranchLouder ==
    ASSUME NEW w, NEW v, Worse(w, v)
    PROVE  Louder(StaleBranchCheck(w), StaleBranchCheck(v))
<1> DEFINE F(x, i) == Finding("low", "jenkins_stale_branch", <<"jenkins-job", x, i>>, <<"Stale branch">>)
           Branches(x, n) == [i \in 1..n |-> F(x, i)]
           Of(x, n, down_) == IF down_ \/ n <= 5 THEN <<>> ELSE Branches(x, n)
           ss(u) == [i \in DOMAIN Jobs |-> Of(Jobs[i], u[Jobs[i]].stale, ~Reachable(u))]
<1>1. \A u : StaleBranchCheck(u) = FlattenSeq(ss(u))
  BY DEF StaleBranchCheck, Each
<1>2. ASSUME NEW x, NEW m \in Nat PROVE IsSeq(Branches(x, m)) /\ ToSet(Branches(x, m)) = {F(x, i) : i \in 1..m}
  <2> HIDE DEF F
  <2> DEFINE s == Branches(x, m)
  <2>1. s = [i \in 1..m |-> s[i]] /\ \A i \in 1..m : s[i] = F(x, i)
    OBVIOUS
  <2> HIDE DEF s
  <2>2. IsSeq(s) /\ Len(s) = m
    BY <2>1, FunctionIsSeq
  <2>3. ToSet(s) = {F(x, i) : i \in 1..m}
    BY <2>1, <2>2, IsSeqProperties
  <2> QED
    BY <2>2, <2>3 DEF s
<1> HIDE DEF F, Branches
<1>3. ASSUME NEW x, NEW m \in Nat, NEW n \in Nat, n <= m, NEW p, NEW q, p <=> q
      PROVE  Louder(Of(x, m, p), Of(x, n, q))
  <2>1. IsSeq(Branches(x, m)) /\ IsSeq(Branches(x, n))
    BY <1>2
  <2>2. ToSet(Branches(x, n)) \subseteq ToSet(Branches(x, m))
    <3>1. \A i \in 1..n : i \in 1..m
      BY <1>3
    <3> QED
      BY <1>2, <3>1
  <2>3. Louder(Branches(x, m), Branches(x, n))
    BY <2>1, <2>2, OutdoesItself DEF Louder, Outdoes
  <2>4. Louder(Branches(x, m), <<>>) /\ Louder(<<>>, <<>>)
    BY <2>1, EmptyIsSeq, LouderThanNothing
  <2> QED
    BY <1>3, <2>3, <2>4
<1> HIDE DEF Of
<1>4. \A i \in 1..Len(Jobs) : Louder(ss(w)[i], ss(v)[i])
  <2> SUFFICES ASSUME NEW i \in 1..Len(Jobs) PROVE Louder(ss(w)[i], ss(v)[i])
    OBVIOUS
  <2>1. WorseJob(w[Jobs[i]], v[Jobs[i]]) /\ i \in DOMAIN Jobs
    BY ListsAreSeqs, IsSeqProperties DEF Worse
  <2> QED
    BY <1>3, <2>1, AsReachable DEF WorseJob
<1>5. \A u : ss(u) = [i \in DOMAIN Jobs |-> ss(u)[i]]
  OBVIOUS
<1> HIDE DEF ss
<1> QED
  BY <1>1, <1>4, <1>5, ListsAreSeqs, LouderEach

LEMMA ExecutorUtilizationLouder ==
    ASSUME NEW w, NEW v, Worse(w, v)
    PROVE  Louder(ExecutorUtilizationCheck(w), ExecutorUtilizationCheck(v))
<1> DEFINE online(cs) == SelectSeq(cs, LAMBDA c : ~c.offline)
           total(cs) == FoldLeft(LAMBDA n, c : n + c.executors, 0, online(cs))
           busy(cs) == FoldLeft(LAMBDA n, c : n + c.busy, 0, online(cs))
           Says(sev, symptom) == Finding(sev, "jenkins_executor", <<"jenkins-executors">>, <<symptom>>)
           one == <<Says("critical", "No executors available")>>
           All(cs, size) == When(busy(cs) = total(cs) /\ size > 0, Says("critical", "All executors busy"))
           Most(cs) == When(busy(cs) * 100 > total(cs) * 90, Says("warning", "pool utilization"))
           Of(cs, size) == IF total(cs) = 0 THEN one ELSE All(cs, size) \o Most(cs)
<1>1. \A u : ExecutorUtilizationCheck(u) =
               IF ~Reachable(u) THEN <<>> ELSE Of(Computers(u), u["queue"].size)
  BY DEF ExecutorUtilizationCheck
<1> HIDE DEF total, busy, Says
<1>2. Computers(w) = Computers(v)
  <2>1. \A i \in DOMAIN Agents : WorseAgent(w[Agents[i]], v[Agents[i]])
    BY ListsAreSeqs, IsSeqProperties DEF Worse
  <2> QED
    BY <2>1 DEF Computers, WorseAgent
<1>3. ASSUME NEW cs, NEW m, NEW n, AtLeast(m, n)
      PROVE  Louder(All(cs, m), All(cs, n)) /\ Louder(Most(cs), Most(cs)) /\ Louder(one, one)
  <2> DEFINE c == busy(cs) = total(cs) /\ m > 0
             d == busy(cs) = total(cs) /\ n > 0
             f == Says("critical", "All executors busy")
  <2>1. d => c
    BY <1>3 DEF AtLeast
  <2>2. Weighs(f, f)
    BY WeighsItself
  <2> HIDE DEF c, d, f
  <2>3. Louder(When(c, f), When(d, f))
    BY <2>1, <2>2, LouderWhen
  <2>4. Louder(Most(cs), Most(cs)) /\ Louder(one, one)
    BY LouderSame, WhenElements, OneIsSeq
  <2> QED
    BY <2>3, <2>4 DEF c, d, f
<1> HIDE DEF All, Most, one
<1>4. AtLeast(w["queue"].size, v["queue"].size)
  BY DEF Worse, WorseQueue
<1>5. Louder(Of(Computers(w), w["queue"].size), Of(Computers(v), v["queue"].size))
  BY <1>2, <1>3, <1>4, LouderConcat
<1> HIDE DEF Of
<1> QED
  BY <1>1, <1>5, AsReachable, EmptyIsSeq, LouderSame

-----------------------------------------------------------------------------
(* The controller and the cluster.                                         *)

LEMMA ControllerLouder ==
    ASSUME NEW w, NEW v, Worse(w, v)
    PROVE  Louder(ControllerHealthCheck(w), ControllerHealthCheck(v))
<1> DEFINE Says(sev, symptom) ==
               <<Finding(sev, "jenkins_controller", <<"jenkins-controller">>, <<symptom>>)>>
           Quiet(c) == IF c.quieting THEN Says("warning", "quiet-down") ELSE <<>>
           Disk(x) == CASE x < 2 -> Says("critical", "disk critically low")
                        [] x \in 2..9 -> Says("warning", "disk space low")
                        [] OTHER -> <<>>
           Temp(x) == IF x < 2 THEN Says("warning", "temp space low") ELSE <<>>
           Mem(x) == CASE x > 95 -> Says("critical", "memory critically high")
                       [] x \in 91..95 -> Says("warning", "memory high")
                       [] OTHER -> <<>>
           Slow(x) == IF x > 5000 THEN Says("warning", "slow") ELSE <<>>
           Of(c) == Quiet(c) \o Disk(c.disk) \o Temp(c.temp) \o Mem(c.mem) \o Slow(c.response)
           a == w["controller"]
           b == v["controller"]
<1>1. \A u : ControllerHealthCheck(u) = IF ~Reachable(u) THEN <<>> ELSE Of(u["controller"])
  BY DEF ControllerHealthCheck
<1>2. ASSUME NEW s, NEW t, Graver(s, t), NEW p, NEW q PROVE Louder(Says(s, p), Says(t, q))
  <2> DEFINE f == Finding(s, "jenkins_controller", <<"jenkins-controller">>, <<p>>)
             g == Finding(t, "jenkins_controller", <<"jenkins-controller">>, <<q>>)
  <2>1. f.sev = s /\ g.sev = t /\ f.res = g.res
    BY FindingFields
  <2> HIDE DEF f, g
  <2>2. Louder(<<f>>, <<g>>)
    BY <1>2, <2>1, LouderSingle
  <2> QED
    BY <2>2 DEF f, g
<1>3. \A s, p : Louder(Says(s, p), <<>>) /\ Louder(<<>>, <<>>)
  BY OneIsSeq, EmptyIsSeq, LouderThanNothing
<1> HIDE DEF Says
<1>4. \A p, q : /\ Louder(Says("critical", p), Says("critical", q))
                /\ Louder(Says("critical", p), Says("warning", q))
                /\ Louder(Says("warning", p), Says("warning", q))
  BY <1>2, GraverCases
<1>5. /\ WorseController(a, b)
  BY DEF Worse
<1> HIDE DEF a, b
<1>6. Louder(Quiet(a), Quiet(b))
  BY <1>3, <1>4, <1>5 DEF WorseController
<1>7. ASSUME NEW x, NEW y, AtLeast(x, y)
      PROVE  Louder(Disk(y), Disk(x)) /\ Louder(Temp(y), Temp(x))
  <2> DEFINE one == Says("critical", "disk critically low")
             two == Says("warning", "disk space low")
             temp == Says("warning", "temp space low")
             far(z) == z < 2
             over(z) == z \in 2..9
  <2>1. Louder(one, two) /\ Louder(one, one) /\ Louder(two, two) /\ Louder(temp, temp)
    BY <1>4
  <2>2. ASSUME NEW z \in Int
        PROVE  Disk(z) = Steps(far(z), over(z), one, two) /\ Temp(z) = Steps(far(z), FALSE, temp, temp)
    <3>1. ~(far(z) /\ over(z))
      OBVIOUS
    <3>2. Disk(z) = CASE far(z) -> one [] over(z) -> two [] OTHER -> <<>>
      OBVIOUS
    <3>3. Temp(z) = Steps(far(z), FALSE, temp, temp)
      BY DEF Steps
    <3> DEFINE f == far(z)
               o == over(z)
    <3> HIDE DEF f, o, one, two, temp, Disk, Temp
    <3>4. (CASE f -> one [] o -> two [] OTHER -> <<>>) = Steps(f, o, one, two)
      <4>1. ~(f /\ o)
        BY <3>1 DEF f, o
      <4> QED
        BY <4>1, CaseSteps
    <3>5. Disk(z) = Steps(f, o, one, two)
      BY <3>2, <3>4 DEF f, o
    <3> QED
      BY <3>3, <3>5 DEF f, o
  <2>3. (far(x) => far(y)) /\ (over(x) => far(y) \/ over(y))
    BY <1>7 DEF AtLeast
  <2>4. x \in Int /\ y \in Int
    BY <1>7 DEF AtLeast
  <2> HIDE DEF Disk, Temp, one, two, temp, far, over
  <2> QED
    BY <2>1, <2>2, <2>3, <2>4, LouderSteps
<1>8. ASSUME NEW x, NEW y, AtLeast(x, y)
      PROVE  Louder(Mem(x), Mem(y)) /\ Louder(Slow(x), Slow(y))
  <2> DEFINE one == Says("critical", "memory critically high")
             two == Says("warning", "memory high")
             slow == Says("warning", "slow")
             far(z) == z > 95
             over(z) == z \in 91..95
             long(z) == z > 5000
  <2>1. Louder(one, two) /\ Louder(one, one) /\ Louder(two, two) /\ Louder(slow, slow)
    BY <1>4
  <2>2. ASSUME NEW z \in Int
        PROVE  Mem(z) = Steps(far(z), over(z), one, two) /\ Slow(z) = Steps(long(z), FALSE, slow, slow)
    <3>1. ~(far(z) /\ over(z))
      OBVIOUS
    <3>2. Mem(z) = CASE far(z) -> one [] over(z) -> two [] OTHER -> <<>>
      OBVIOUS
    <3>3. Slow(z) = Steps(long(z), FALSE, slow, slow)
      BY DEF Steps
    <3> DEFINE f == far(z)
               o == over(z)
    <3> HIDE DEF f, o, one, two, slow, Mem, Slow
    <3>4. (CASE f -> one [] o -> two [] OTHER -> <<>>) = Steps(f, o, one, two)
      <4>1. ~(f /\ o)
        BY <3>1 DEF f, o
      <4> QED
        BY <4>1, CaseSteps
    <3>5. Mem(z) = Steps(f, o, one, two)
      BY <3>2, <3>4 DEF f, o
    <3> QED
      BY <3>3, <3>5 DEF f, o
  <2>3. (far(y) => far(x)) /\ (over(y) => far(x) \/ over(x)) /\ (long(y) => long(x))
    BY <1>8 DEF AtLeast
  <2>4. x \in Int /\ y \in Int
    BY <1>8 DEF AtLeast
  <2> HIDE DEF Mem, Slow, one, two, slow, far, over, long
  <2> QED
    BY <2>1, <2>2, <2>3, <2>4, LouderSteps
<1> HIDE DEF Quiet, Disk, Temp, Mem, Slow
<1>9. Louder(Of(a), Of(b))
  BY <1>5, <1>6, <1>7, <1>8, LouderConcat DEF WorseController
<1> HIDE DEF Of
<1> QED
  BY <1>1, <1>9, AsReachable, EmptyIsSeq, LouderSame DEF a, b

LEMMA PluginLouder ==
    ASSUME NEW w, NEW v, Worse(w, v)
    PROVE  Louder(PluginHealthCheck(w), PluginHealthCheck(v))
<1>1. PluginHealthCheck(w) = PluginHealthCheck(v)
  BY AsReachable DEF PluginHealthCheck, Worse, WorseController
<1> QED
  BY <1>1, PluginRaw, LouderSame DEF Raws

LEMMA CredentialLouder ==
    ASSUME NEW w, NEW v, Worse(w, v)
    PROVE  Louder(CredentialHealthCheck(w), CredentialHealthCheck(v))
<1>1. CredentialHealthCheck(w) = CredentialHealthCheck(v)
  BY AsReachable DEF CredentialHealthCheck, Worse
<1>2. IsSeq(CredentialHealthCheck(v))
  BY WhenElements DEF CredentialHealthCheck
<1> QED
  BY <1>1, <1>2, LouderSame

\* What the cluster's checks say of a usage in percent.
Usage(c, x, cat, res, sym) == When(c /\ x > 85, Finding(SeverityFor(x, 95), cat, res, sym))

LEMMA UsageLouder ==
    ASSUME NEW x, NEW y, AtLeast(x, y), NEW c, NEW cat, NEW res, NEW sym
    PROVE  Louder(Usage(c, x, cat, res, sym), Usage(c, y, cat, res, sym))
<1> DEFINE s == SeverityFor(x, 95)
           t == SeverityFor(y, 95)
           more == c /\ x > 85
           less == c /\ y > 85
<1>1. Graver(s, t)
  BY SeverityForGrows
<1>2. less => more
  BY DEF AtLeast
<1> HIDE DEF s, t, more, less
<1>3. Louder(When(more, Finding(s, cat, res, sym)), When(less, Finding(t, cat, res, sym)))
  BY <1>1, <1>2, LouderFinding
<1> QED
  BY <1>3 DEF s, t, more, less, Usage

LEMMA NodeCheckLouder ==
    ASSUME NEW w, NEW v, Worse(w, v)
    PROVE  Louder(NodeCheck(w), NodeCheck(v))
<1> DEFINE Says(n, sev, symptom) == Finding(sev, "k8s_node", <<"node", n>>, <<symptom>>)
           Of(up, n, value, symptom) == Usage(up, value, "k8s_node", <<"node", n>>, <<symptom>>)
           Severity(r) == IF r.pressure = "MemoryPressure" THEN "critical" ELSE "warning"
           Ready(n, r) == When(~r.ready, Says(n, "critical", "Node NotReady"))
           Pressure(n, r) == When(r.pressure # "none", Says(n, Severity(r), r.pressure))
           State(n, r) == Ready(n, r) \o Pressure(n, r)
           Used(up, n, r) == Of(up, n, r.cpu, "CPU of allocatable")
                             \o Of(up, n, r.mem, "Memory of allocatable")
           a(u) == [i \in DOMAIN Nodes |-> State(Nodes[i], u[Nodes[i]])]
           b(u) == [i \in DOMAIN Nodes |-> Used(Metered(u), Nodes[i], u[Nodes[i]])]
<1>1. \A u : NodeCheck(u) = FlattenSeq(a(u)) \o FlattenSeq(b(u))
  BY DEF NodeCheck, Each, Usage
<1>2. ASSUME NEW n, NEW x, NEW y, AtLeast(x, y), NEW c, NEW symptom
      PROVE  Louder(Of(c, n, x, symptom), Of(c, n, y, symptom))
  BY <1>2, UsageLouder
<1>3. ASSUME NEW n, NEW r, NEW q, WorseNode(r, q) PROVE Louder(State(n, r), State(n, q))
  <2>1. r.ready = q.ready /\ r.pressure = q.pressure
    BY <1>3 DEF WorseNode
  <2>2. Louder(Ready(n, r), Ready(n, q)) /\ Louder(Pressure(n, r), Pressure(n, q))
    BY <2>1, LouderSame, WhenElements
  <2> HIDE DEF Ready, Pressure
  <2> QED
    BY <2>2, LouderConcat
<1> HIDE DEF Of, State
<1>4. ASSUME NEW n, NEW r, NEW q, WorseNode(r, q), NEW c PROVE Louder(Used(c, n, r), Used(c, n, q))
  BY <1>2, <1>4, LouderConcat DEF WorseNode
<1> HIDE DEF Used
<1>5. DOMAIN Nodes = 1..Len(Nodes) /\ \A i \in 1..Len(Nodes) : WorseNode(w[Nodes[i]], v[Nodes[i]])
  BY ListsAreSeqs, IsSeqProperties DEF Worse
<1>6. Metered(w) = Metered(v)
  BY DEF Worse, Metered
<1>7. \A i \in 1..Len(Nodes) : Louder(a(w)[i], a(v)[i]) /\ Louder(b(w)[i], b(v)[i])
  BY <1>3, <1>4, <1>5, <1>6
<1>8. \A u : a(u) = [i \in DOMAIN Nodes |-> a(u)[i]] /\ b(u) = [i \in DOMAIN Nodes |-> b(u)[i]]
  OBVIOUS
<1> HIDE DEF a, b
<1>9. Louder(FlattenSeq(a(w)), FlattenSeq(a(v)))
  BY <1>7, <1>8, ListsAreSeqs, LouderEach
<1>10. Louder(FlattenSeq(b(w)), FlattenSeq(b(v)))
  BY <1>7, <1>8, ListsAreSeqs, LouderEach
<1> QED
  BY <1>1, <1>9, <1>10, LouderConcat

LEMMA WorkloadLouder ==
    ASSUME NEW w, NEW v, Worse(w, v)
    PROVE  Louder(WorkloadCheck(w), WorkloadCheck(v))
<1> DEFINE Says(sev, name, symptom) == Finding(sev, "k8s_workload", <<Namespace, name>>, <<symptom>>)
           Severity(gone) == IF gone = 2 THEN "critical" ELSE "warning"
           Gone(d, name, symptom) == When(d.gone > 0, Says(Severity(d.gone), name, symptom))
           Stuck(d) == When(d.stuck, Says("warning", "deployment", "rollout stuck"))
           Of(d, s) == Gone(d, "deployment", "unavailable replicas") \o Stuck(d)
                       \o Gone(s, "stateful", "ready replicas")
<1>1. \A u : WorkloadCheck(u) = Of(u["deployment"], u["stateful"])
  BY DEF WorkloadCheck
<1>2. ASSUME NEW d, NEW e, MoreGone(d, e), NEW name, NEW symptom
      PROVE  Louder(Gone(d, name, symptom), Gone(e, name, symptom))
  <2> DEFINE more == d.gone > 0
             less == e.gone > 0
             s == Severity(d.gone)
             t == Severity(e.gone)
  <2>1. less => more
    BY <1>2 DEF MoreGone
  <2>2. e.gone = 2 => d.gone = 2
    BY <1>2 DEF MoreGone
  <2>3. Graver(s, t)
    BY <2>2, GraverCases
  <2> HIDE DEF more, less, s, t
  <2>4. Louder(When(more, Says(s, name, symptom)), When(less, Says(t, name, symptom)))
    BY <2>1, <2>3, LouderFinding
  <2> QED
    BY <2>4 DEF more, less, s, t
<1>3. ASSUME NEW d, NEW e, e.stuck => d.stuck PROVE Louder(Stuck(d), Stuck(e))
  <2>1. Graver("warning", "warning")
    BY GraverCases
  <2> QED
    BY <1>3, <2>1, LouderFinding
<1> HIDE DEF Gone, Stuck
<1>4. /\ MoreGone(w["deployment"], v["deployment"]) /\ MoreGone(w["stateful"], v["stateful"])
      /\ v["deployment"].stuck => w["deployment"].stuck
  BY DEF Worse, WorseDeployment
<1>5. Louder(Of(w["deployment"], w["stateful"]), Of(v["deployment"], v["stateful"]))
  BY <1>2, <1>3, <1>4, LouderConcat
<1> HIDE DEF Of
<1> QED
  BY <1>1, <1>5

LEMMA EventsLouder ==
    ASSUME NEW w, NEW v, Worse(w, v)
    PROVE  Louder(EventsCheck(w), EventsCheck(v))
<1>1. EventsCheck(w) = EventsCheck(v)
  BY DEF EventsCheck, Worse
<1>2. IsSeq(EventsCheck(v))
  BY WhenElements DEF EventsCheck
<1> QED
  BY <1>1, <1>2, LouderSame

LEMMA CertLouder ==
    ASSUME NEW w, NEW v, Worse(w, v)
    PROVE  Louder(CertCheck(w), CertCheck(v))
<1> DEFINE Says(sev, symptom) == Finding(sev, "cert", <<Namespace, "cert", "cert">>, <<symptom>>)
           Severity(days) == IF days < 3 THEN "critical" ELSE "warning"
           Ready(c) == When(~c.ready, Says("warning", "not ready"))
           Soon(days) == When(days < 14, Says(Severity(days), "expires"))
           Expired == <<Says("critical", "EXPIRED")>>
           Days(days) == IF days < 0 THEN Expired ELSE Soon(days)
           a == w["cert"]
           b == v["cert"]
<1>1. \A u : CertCheck(u) = Ready(u["cert"]) \o Days(u["cert"].days)
  BY DEF CertCheck
<1>2. a.ready = b.ready /\ AtLeast(b.days, a.days)
  BY DEF Worse
<1>3. Louder(Ready(a), Ready(b))
  BY <1>2, LouderSame, WhenElements
<1>4. ASSUME NEW x, NEW y, AtLeast(x, y)
      PROVE  Louder(Soon(y), Soon(x))
  <2> DEFINE more == y < 14
             less == x < 14
             s == Severity(y)
             t == Severity(x)
  <2>1. less => more
    BY <1>4 DEF AtLeast
  <2>2. x < 3 => y < 3
    BY <1>4 DEF AtLeast
  <2>3. Graver(s, t)
    BY <2>2, GraverCases
  <2> HIDE DEF more, less, s, t
  <2>4. Louder(When(more, Says(s, "expires")), When(less, Says(t, "expires")))
    BY <2>1, <2>3, LouderFinding
  <2> QED
    BY <2>4 DEF more, less, s, t
<1>5. ASSUME NEW x PROVE Louder(Expired, Soon(x)) /\ Louder(Expired, Expired)
  <2> DEFINE c == x < 14
             t == Severity(x)
             Yes == TRUE
  <2>1. Graver("critical", t) /\ Graver("critical", "critical")
    BY GraverCases
  <2> HIDE DEF c, t
  <2>2. Louder(When(TRUE, Says("critical", "EXPIRED")), When(c, Says(t, "expires")))
    BY <2>1, LouderFinding
  <2>3. When(TRUE, Says("critical", "EXPIRED")) = Expired
    BY DEF When
  <2>4. Louder(Expired, Expired)
    BY OneIsSeq, LouderSame
  <2> HIDE DEF Expired, Says
  <2> QED
    BY <2>2, <2>3, <2>4 DEF c, t
<1> HIDE DEF Soon, Expired
<1>6. Louder(Days(a.days), Days(b.days))
  <2>1. b.days < 0 => a.days < 0
    BY <1>2 DEF AtLeast
  <2> QED
    BY <1>2, <1>4, <1>5, <2>1
<1> HIDE DEF Ready, Days
<1>7. Louder(Ready(a) \o Days(a.days), Ready(b) \o Days(b.days))
  BY <1>3, <1>6, LouderConcat
<1> QED
  BY <1>1, <1>7

LEMMA PodResourceLouder ==
    ASSUME NEW w, NEW v, Worse(w, v)
    PROVE  Louder(PodResourceCheck(w), PodResourceCheck(v))
<1> DEFINE Used(p, c, value, symptom) ==
               Usage(c, value, "pod_resource", <<Namespace, p>>, <<symptom>>)
           Runs(r) == r.state = "running" /\ r.limits
           Of(p, r) == Used(p, Runs(r), r.mem, "Memory of limit")
                       \o Used(p, Runs(r), r.cpu, "CPU of limit")
           ss(u) == [i \in DOMAIN Pods |-> Of(Pods[i], u[Pods[i]])]
<1>1. \A u : PodResourceCheck(u) = IF ~Metered(u) THEN <<>> ELSE FlattenSeq(ss(u))
  <2>1. \A p, r, value : (r.state = "running" /\ r.limits /\ value > 85) = (Runs(r) /\ value > 85)
    OBVIOUS
  <2> QED
    BY <2>1 DEF PodResourceCheck, Each, Usage
<1>2. ASSUME NEW p, NEW c, NEW x, NEW y, AtLeast(x, y), NEW symptom
      PROVE  Louder(Used(p, c, x, symptom), Used(p, c, y, symptom))
  BY <1>2, UsageLouder
<1> HIDE DEF Used
<1>3. ASSUME NEW p, NEW a, NEW b, WorsePod(a, b)
      PROVE  Louder(Of(p, a), Of(p, b))
  <2>1. Runs(a) = Runs(b) /\ AtLeast(a.mem, b.mem) /\ AtLeast(a.cpu, b.cpu)
    BY <1>3 DEF WorsePod
  <2> HIDE DEF Runs
  <2> QED
    BY <1>2, <2>1, LouderConcat
<1> HIDE DEF Of
<1>4. \A i \in 1..Len(Pods) : Louder(ss(w)[i], ss(v)[i])
  BY <1>3, ListsAreSeqs, IsSeqProperties DEF Worse
<1>5. \A u : ss(u) = [i \in DOMAIN Pods |-> ss(u)[i]]
  OBVIOUS
<1> HIDE DEF ss
<1>6. Louder(FlattenSeq(ss(w)), FlattenSeq(ss(v)))
  BY <1>4, <1>5, ListsAreSeqs, LouderEach
<1> QED
  BY <1>1, <1>6, AsReachable, EmptyIsSeq, LouderSame

LEMMA PVCLouder ==
    ASSUME NEW w, NEW v, Worse(w, v)
    PROVE  Louder(PVCCheck(w), PVCCheck(v))
<1>1. PVCCheck(w) = PVCCheck(v)
  BY DEF PVCCheck, Worse
<1> QED
  BY <1>1, PVCRaw, LouderSame DEF Raws

-----------------------------------------------------------------------------
(* One notch.                                                              *)

\* Two readings by a scale: the same, or one and what is a notch better.
Unmoved(sc, x, y) == x = y /\ x \in ToSet(sc)
Moved(sc, x, y) == \E k \in DOMAIN sc : k - 1 \in DOMAIN sc /\ x = sc[k] /\ y = sc[k - 1]
OneNotch(sc, x, y) == Unmoved(sc, x, y) \/ Moved(sc, x, y)

Rising(sc) == \A i \in DOMAIN sc : i \in Int /\ sc[i] \in Int /\ (i - 1 \in DOMAIN sc => sc[i] >= sc[i - 1])
Falling(sc) == \A i \in DOMAIN sc : i \in Int /\ sc[i] \in Int /\ (i - 1 \in DOMAIN sc => sc[i] <= sc[i - 1])

LEMMA NotchRises ==
    ASSUME NEW sc, NEW x, NEW y, OneNotch(sc, x, y)
    PROVE  (Rising(sc) => AtLeast(x, y)) /\ (Falling(sc) => AtLeast(y, x))
<1>1. CASE Unmoved(sc, x, y)
  <2>1. PICK i \in DOMAIN sc : x = sc[i]
    BY <1>1 DEF ToSet, Unmoved
  <2> QED
    BY <1>1, <2>1 DEF Rising, Falling, AtLeast, Unmoved
<1>2. CASE Moved(sc, x, y)
  <2>1. PICK k \in DOMAIN sc : k - 1 \in DOMAIN sc /\ x = sc[k] /\ y = sc[k - 1]
    BY <1>2 DEF Moved
  <2> QED
    BY <2>1 DEF Rising, Falling, AtLeast
<1> QED
  BY <1>1, <1>2 DEF OneNotch

LEMMA NotchOnScale ==
    ASSUME NEW sc, NEW x, NEW y, OneNotch(sc, x, y)
    PROVE  x \in ToSet(sc) /\ y \in ToSet(sc)
BY DEF OneNotch, Unmoved, Moved, ToSet

\* Two readings of a subject, field by field.
Notched(scale, r, q) ==
    \A f \in DOMAIN scale :
        Unmoved(scale[f], r[f], q[f]) \/ (f \in Measures /\ Moved(scale[f], r[f], q[f]))

LEMMA NotchedFields ==
    ASSUME NEW scale, NEW r, NEW q, Notched(scale, r, q)
    PROVE  \A f \in DOMAIN scale : /\ OneNotch(scale[f], r[f], q[f])
                                   /\ f \notin Measures => r[f] = q[f] /\ r[f] \in ToSet(scale[f])
BY DEF Notched, OneNotch, Unmoved

LEMMA ScalesRise ==
    /\ Rising(Percent) /\ Rising(Brief) /\ Rising(Percent \o <<100>>)
    /\ Rising(<<0, 6>>)
    /\ Rising(<<0, 2>>)
    /\ Rising(<<0, 1, 2, 3>>)
    /\ Rising(<<0, 5, 6>>)
    /\ Rising(<<20, 180, 600, 1500>>)
    /\ Rising(<<10, 35, 42, 60>>)
    /\ Rising(<<10, 60, 120>>)
    /\ Rising(<<0, 2, 25>>)
    /\ Rising(<<0, 1, 4>>)
    /\ Rising(<<100, 6000>>)
    /\ Rising(<<0, 1, 2>>)
    /\ Falling(<<20000, 3000, 500, 0>>)
    /\ Falling(<<50, 5, 0>>)
    /\ Falling(<<10, 1>>)
    /\ Falling(<<90, 10, 2, -1>>)
<1>1. Rising(Percent)
  BY DEF Percent, Rising
<1>2. Rising(Brief)
  BY DEF Brief, Rising
<1>3. Rising(Percent \o <<100>>)
  BY DEF Percent, Rising
<1>4. Rising(<<0, 6>>)
  BY DEF Rising
<1>5. Rising(<<0, 2>>)
  BY DEF Rising
<1>6. Rising(<<0, 1, 2, 3>>)
  BY DEF Rising
<1>7. Rising(<<0, 5, 6>>)
  BY DEF Rising
<1>8. Rising(<<20, 180, 600, 1500>>)
  BY DEF Rising
<1>9. Rising(<<10, 35, 42, 60>>)
  BY DEF Rising
<1>10. Rising(<<10, 60, 120>>)
  BY DEF Rising
<1>11. Rising(<<0, 2, 25>>)
  BY DEF Rising
<1>12. Rising(<<0, 1, 4>>)
  BY DEF Rising
<1>13. Rising(<<100, 6000>>)
  BY DEF Rising
<1>14. Rising(<<0, 1, 2>>)
  BY DEF Rising
<1>15. Falling(<<20000, 3000, 500, 0>>)
  BY DEF Falling
<1>16. Falling(<<50, 5, 0>>)
  BY DEF Falling
<1>17. Falling(<<10, 1>>)
  BY DEF Falling
<1>18. Falling(<<90, 10, 2, -1>>)
  BY DEF Falling
<1> QED
  BY <1>1, <1>2, <1>3, <1>4, <1>5, <1>6, <1>7, <1>8, <1>9, <1>10, <1>11, <1>12, <1>13, <1>14, <1>15, <1>16, <1>17, <1>18

LEMMA PodWorse ==
    ASSUME NEW r, NEW q, Notched(PodScale, r, q)
    PROVE  WorsePod(r, q)
<1>1. /\ {"state", "oomed", "restarts", "deleting", "limits", "mem", "cpu", "errors"} = DOMAIN PodScale
      /\ PodScale["mem"] = Percent /\ PodScale["cpu"] = Brief
      /\ PodScale["restarts"] = <<0, 6>> /\ PodScale["errors"] = <<0, 2>>
  BY DEF PodScale
<1>2. {"state", "oomed", "deleting", "limits"} \cap Measures = {}
  BY DEF Measures
<1>3. \A f \in {"state", "oomed", "deleting", "limits"} : r[f] = q[f]
  BY <1>1, <1>2, NotchedFields
<1>4. /\ OneNotch(Percent, r["mem"], q["mem"]) /\ OneNotch(Brief, r["cpu"], q["cpu"])
      /\ OneNotch(<<0, 6>>, r["restarts"], q["restarts"])
      /\ OneNotch(<<0, 2>>, r["errors"], q["errors"])
  BY <1>1, NotchedFields
<1>5. /\ AtLeast(r["mem"], q["mem"]) /\ AtLeast(r["cpu"], q["cpu"])
      /\ AtLeast(r["restarts"], q["restarts"]) /\ AtLeast(r["errors"], q["errors"])
  BY <1>4, NotchRises, ScalesRise
<1> QED
  BY <1>3, <1>5 DEF WorsePod

LEMMA AgentScales ==
    /\ DOMAIN AgentScale = {"state", "reason", "executors", "busy", "mem", "disk"}
    /\ AgentScale["mem"] = Percent \o <<100>>
    /\ AgentScale["disk"] = <<20000, 3000, 500, 0>>
<1> DEFINE p == Percent \o <<100>>
           d == <<20000, 3000, 500, 0>>
<1>1. DOMAIN AgentScale = {"state", "reason", "executors", "busy", "mem", "disk"}
  BY DEF AgentScale
<1>2. AgentScale["mem"] = p /\ AgentScale["disk"] = d
  BY DEF AgentScale
<1> QED
  BY <1>1, <1>2

LEMMA AgentWorse ==
    ASSUME NEW r, NEW q, Notched(AgentScale, r, q),
           r["mem"] = 100 => q["mem"] = 100, r["disk"] = 0 => q["disk"] = 0
    PROVE  WorseAgent(r, q)
<1> DEFINE p == Percent \o <<100>>
           d == <<20000, 3000, 500, 0>>
<1> HIDE DEF p, d
<1>2. {"state", "reason", "executors", "busy"} \cap Measures = {}
  BY DEF Measures
<1>3. \A f \in {"state", "reason", "executors", "busy"} : r[f] = q[f]
  BY <1>2, AgentScales, NotchedFields
<1>4. OneNotch(p, r["mem"], q["mem"]) /\ OneNotch(d, r["disk"], q["disk"])
  <2>1. {"mem", "disk"} \subseteq DOMAIN AgentScale /\ AgentScale["mem"] = p /\ AgentScale["disk"] = d
    BY AgentScales DEF p, d
  <2> QED
    BY <2>1, NotchedFields
<1>5. AtLeast(r["mem"], q["mem"]) /\ AtLeast(q["disk"], r["disk"])
  <2>1. Rising(p) /\ Falling(d)
    BY ScalesRise DEF p, d
  <2> QED
    BY <1>4, <2>1, NotchRises
<1> QED
  BY <1>3, <1>5 DEF WorseAgent

LEMMA JobWorse ==
    ASSUME NEW r, NEW q, Notched(JobScale, r, q)
    PROVE  WorseJob(r, q)
<1> DEFINE F == {"head", "before", "hours", "console", "params", "disabled", "polling"}
<1>1. /\ F \cup {"failures", "stale"} = DOMAIN JobScale
      /\ JobScale["failures"] = <<0, 1, 2, 3>> /\ JobScale["stale"] = <<0, 5, 6>>
      /\ JobScale["head"] = <<"none", "running", "UNSTABLE">> /\ JobScale["hours"] = <<1, 5, 30>>
  BY DEF JobScale
<1>2. F \cap Measures = {}
  BY DEF Measures
<1>3. \A f \in F : r[f] = q[f] /\ r[f] \in ToSet(JobScale[f])
  BY <1>1, <1>2, NotchedFields
<1>4. /\ OneNotch(<<0, 1, 2, 3>>, r["failures"], q["failures"])
      /\ OneNotch(<<0, 5, 6>>, r["stale"], q["stale"])
  BY <1>1, NotchedFields
<1>5. AtLeast(r["failures"], q["failures"]) /\ AtLeast(r["stale"], q["stale"])
  BY <1>4, NotchRises, ScalesRise
<1>6. /\ r["failures"] \in ToSet(<<0, 1, 2, 3>>) /\ q["failures"] \in ToSet(<<0, 1, 2, 3>>)
      /\ r["stale"] \in ToSet(<<0, 5, 6>>) /\ q["stale"] \in ToSet(<<0, 5, 6>>)
  BY <1>4, NotchOnScale
<1>7. r["failures"] \in 0..3 /\ q["failures"] \in 0..3
  BY <1>6 DEF ToSet
<1>8. r["stale"] \in Nat /\ q["stale"] \in Nat
  BY <1>6 DEF ToSet
<1>9. r["head"] \notin {"FAILURE", "SUCCESS"}
  BY <1>1, <1>3 DEF ToSet
<1>10. r["hours"] \in Nat
  BY <1>1, <1>3 DEF ToSet
<1> HIDE DEF F
<1>11. \A f \in {"head", "before", "hours", "console", "params", "disabled", "polling"} : r[f] = q[f]
  BY <1>3 DEF F
<1> QED
  BY <1>5, <1>7, <1>8, <1>9, <1>10, <1>11 DEF WorseJob, AtLeast

LEMMA BuildWorse ==
    ASSUME NEW r, NEW q, Notched(BuildScale, r, q)
    PROVE  WorseBuild(r, q)
<1>1. /\ {"minutes", "tenths", "log"} = DOMAIN BuildScale
      /\ BuildScale["minutes"] = <<20, 180, 600, 1500>> /\ BuildScale["tenths"] = <<10, 35, 42, 60>>
      /\ BuildScale["log"] = <<10, 60, 120>>
  BY DEF BuildScale
<1>2. /\ OneNotch(<<20, 180, 600, 1500>>, r["minutes"], q["minutes"])
      /\ OneNotch(<<10, 35, 42, 60>>, r["tenths"], q["tenths"])
      /\ OneNotch(<<10, 60, 120>>, r["log"], q["log"])
  BY <1>1, NotchedFields
<1> QED
  BY <1>2, NotchRises, ScalesRise DEF WorseBuild

LEMMA NodeWorse ==
    ASSUME NEW r, NEW q, Notched(NodeScale, r, q)
    PROVE  WorseNode(r, q)
<1>1. /\ {"ready", "pressure", "mem", "cpu"} = DOMAIN NodeScale
      /\ NodeScale["mem"] = Percent /\ NodeScale["cpu"] = Brief
  BY DEF NodeScale
<1>2. {"ready", "pressure"} \cap Measures = {}
  BY DEF Measures
<1>3. \A f \in {"ready", "pressure"} : r[f] = q[f]
  BY <1>1, <1>2, NotchedFields
<1>4. OneNotch(Percent, r["mem"], q["mem"]) /\ OneNotch(Brief, r["cpu"], q["cpu"])
  BY <1>1, NotchedFields
<1>5. AtLeast(r["mem"], q["mem"]) /\ AtLeast(r["cpu"], q["cpu"])
  BY <1>4, NotchRises, ScalesRise
<1> QED
  BY <1>3, <1>5 DEF WorseNode

LEMMA QueueWorse ==
    ASSUME NEW r, NEW q, Notched(OtherScale["queue"], r, q)
    PROVE  WorseQueue(r, q)
<1> DEFINE sc == OtherScale["queue"]
<1>1. {"size", "stuck"} = DOMAIN sc /\ sc["size"] = <<0, 2, 25>> /\ sc["stuck"] = <<0, 1, 4>>
  BY DEF OtherScale
<1> HIDE DEF sc
<1>2. OneNotch(<<0, 2, 25>>, r["size"], q["size"]) /\ OneNotch(<<0, 1, 4>>, r["stuck"], q["stuck"])
  BY <1>1, NotchedFields DEF sc
<1> QED
  BY <1>2, NotchRises, ScalesRise DEF WorseQueue

LEMMA ControllerWorse ==
    ASSUME NEW r, NEW q, Notched(OtherScale["controller"], r, q)
    PROVE  WorseController(r, q)
<1> DEFINE sc == OtherScale["controller"]
<1>1. /\ {"api", "quieting", "disk", "temp", "mem", "response", "updates"} = DOMAIN sc
      /\ sc["disk"] = <<50, 5, 0>> /\ sc["temp"] = <<10, 1>> /\ sc["mem"] = Percent
      /\ sc["response"] = <<100, 6000>>
  BY DEF OtherScale
<1> HIDE DEF sc
<1>2. {"api", "quieting", "updates"} \cap Measures = {}
  BY DEF Measures
<1>3. \A f \in {"api", "quieting", "updates"} : r[f] = q[f]
  BY <1>1, <1>2, NotchedFields DEF sc
<1>4. /\ OneNotch(<<50, 5, 0>>, r["disk"], q["disk"]) /\ OneNotch(<<10, 1>>, r["temp"], q["temp"])
      /\ OneNotch(Percent, r["mem"], q["mem"]) /\ OneNotch(<<100, 6000>>, r["response"], q["response"])
  BY <1>1, NotchedFields DEF sc
<1>5. /\ AtLeast(q["disk"], r["disk"]) /\ AtLeast(q["temp"], r["temp"])
      /\ AtLeast(r["mem"], q["mem"]) /\ AtLeast(r["response"], q["response"])
  BY <1>4, NotchRises, ScalesRise
<1> QED
  BY <1>3, <1>5 DEF WorseController

LEMMA GoneWorse ==
    ASSUME NEW r, NEW q, OneNotch(<<0, 1, 2>>, r["gone"], q["gone"])
    PROVE  MoreGone(r, q)
<1>1. AtLeast(r["gone"], q["gone"])
  BY NotchRises, ScalesRise
<1>2. r["gone"] \in ToSet(<<0, 1, 2>>) /\ q["gone"] \in ToSet(<<0, 1, 2>>)
  BY NotchOnScale
<1>3. r["gone"] \in 0..2 /\ q["gone"] \in 0..2
  BY <1>2 DEF ToSet
<1> QED
  BY <1>1, <1>3 DEF MoreGone, AtLeast

LEMMA WorkloadsWorse ==
    ASSUME NEW r, NEW q, Notched(OtherScale["deployment"], r, q),
           NEW s, NEW t, Notched(OtherScale["stateful"], s, t)
    PROVE  WorseDeployment(r, q) /\ MoreGone(s, t)
<1> DEFINE d == OtherScale["deployment"]
           e == OtherScale["stateful"]
           b == <<FALSE, TRUE>>
<1>1. /\ {"gone", "stuck"} = DOMAIN d /\ d["gone"] = <<0, 1, 2>> /\ d["stuck"] = <<FALSE, TRUE>>
      /\ {"gone"} = DOMAIN e /\ e["gone"] = <<0, 1, 2>>
  <2>1. d = [gone |-> <<0, 1, 2>>, stuck |-> <<FALSE, TRUE>>]
    BY DEF OtherScale
  <2>2. e = [gone |-> <<0, 1, 2>>]
    BY DEF OtherScale
  <2> HIDE DEF d, e
  <2> QED
    BY <2>1, <2>2
<1>2. d["stuck"] = b
  BY <1>1
<1>3. DOMAIN b = 1..2 /\ b[1] = FALSE /\ b[2] = TRUE
  OBVIOUS
<1> HIDE DEF d, e, b
<1>4. OneNotch(<<0, 1, 2>>, r["gone"], q["gone"]) /\ OneNotch(<<0, 1, 2>>, s["gone"], t["gone"])
  BY <1>1, NotchedFields DEF d, e
<1>5. OneNotch(b, r["stuck"], q["stuck"])
  BY <1>1, <1>2, NotchedFields DEF d
<1>6. MoreGone(r, q) /\ MoreGone(s, t)
  BY <1>4, GoneWorse
<1>7. q["stuck"] => r["stuck"]
  <2>1. CASE Unmoved(b, r["stuck"], q["stuck"])
    BY <2>1 DEF Unmoved
  <2>2. CASE Moved(b, r["stuck"], q["stuck"])
    <3>1. PICK k \in 1..2 : k - 1 \in 1..2 /\ r["stuck"] = b[k] /\ q["stuck"] = b[k - 1]
      BY <1>3, <2>2 DEF Moved
    <3>2. k = 2
      BY <3>1
    <3> QED
      BY <1>3, <3>1, <3>2
  <2> QED
    BY <1>5, <2>1, <2>2 DEF OneNotch
<1> QED
  BY <1>6, <1>7 DEF WorseDeployment

LEMMA CertWorse ==
    ASSUME NEW r, NEW q, Notched(OtherScale["cert"], r, q)
    PROVE  r["ready"] = q["ready"] /\ AtLeast(q["days"], r["days"])
<1> DEFINE sc == OtherScale["cert"]
<1>1. {"ready", "days"} = DOMAIN sc /\ sc["days"] = <<90, 10, 2, -1>>
  BY DEF OtherScale
<1> HIDE DEF sc
<1>2. r["ready"] = q["ready"]
  BY <1>1, NotchedFields DEF sc, Measures
<1>3. OneNotch(<<90, 10, 2, -1>>, r["days"], q["days"])
  BY <1>1, NotchedFields DEF sc
<1> QED
  BY <1>2, <1>3, NotchRises, ScalesRise

\* What is read a notch worse, of any subject, is no better read.
LEMMA NotchWorse ==
    ASSUME NEW w, NEW v, \A s \in Subjects : Notched(Scale[s], w[s], v[s]),
           \A a \in ToSet(Agents) : /\ w[a]["mem"] = 100 => v[a]["mem"] = 100
                                    /\ w[a]["disk"] = 0 => v[a]["disk"] = 0,
           \A s \in {"metrics", "plugin", "credential", "event", "pvc"} : w[s] = v[s]
    PROVE  Worse(w, v)
<1>1. {"queue", "controller", "deployment", "stateful", "cert"} \subseteq Others
  BY DEF Others, OtherScale
<1> HIDE DEF Others, Subjects, Scale
<1>2. \A p \in ToSet(Pods) : WorsePod(w[p], v[p])
  BY ScaleOf, PodWorse
<1>3. \A a \in ToSet(Agents) : WorseAgent(w[a], v[a])
  BY ScaleOf, AgentWorse
<1>4. \A j \in ToSet(Jobs) : WorseJob(w[j], v[j])
  BY ScaleOf, JobWorse
<1>5. \A b \in ToSet(Builds) : WorseBuild(w[b], v[b])
  BY ScaleOf, BuildWorse
<1>6. \A n \in ToSet(Nodes) : WorseNode(w[n], v[n])
  BY ScaleOf, NodeWorse
<1>7. \A s \in {"queue", "controller", "deployment", "stateful", "cert"} :
        Notched(OtherScale[s], w[s], v[s])
  BY <1>1, ScaleOf
<1>8. /\ WorseQueue(w["queue"], v["queue"]) /\ WorseController(w["controller"], v["controller"])
      /\ WorseDeployment(w["deployment"], v["deployment"])
      /\ MoreGone(w["stateful"], v["stateful"])
  BY <1>7, QueueWorse, ControllerWorse, WorkloadsWorse
<1>9. w["cert"]["ready"] = v["cert"]["ready"] /\ AtLeast(v["cert"]["days"], w["cert"]["days"])
  BY <1>7, CertWorse
<1> QED
  BY <1>2, <1>3, <1>4, <1>5, <1>6, <1>8, <1>9 DEF Worse

\* No measure of what else there is.
LEMMA Unmeasured ==
    ASSUME NEW s \in {"metrics", "plugin", "credential", "event", "pvc"}
    PROVE  s \in Subjects /\ DOMAIN Scale[s] \cap Measures = {}
<1>1. s \in Others
  BY DEF Others, OtherScale
<1>2. DOMAIN OtherScale[s] \cap Measures = {}
  <2>1. CASE s = "metrics"
    BY <2>1 DEF OtherScale, Measures
  <2>2. CASE s = "plugin"
    BY <2>2 DEF OtherScale, Measures
  <2>3. CASE s = "credential"
    BY <2>3 DEF OtherScale, Measures
  <2>4. CASE s = "event"
    BY <2>4 DEF OtherScale, Measures
  <2>5. CASE s = "pvc"
    BY <2>5 DEF OtherScale, Measures
  <2> QED
    BY <2>1, <2>2, <2>3, <2>4, <2>5
<1> HIDE DEF Others, Subjects, Scale
<1> QED
  BY <1>1, <1>2, ScaleOf

\* What Better makes of a measure that departs from its healthy value is the
\* value a notch before it.
LEMMA BetterIsANotch ==
    ASSUME NEW w, OnScale(w), NEW s \in Subjects, NEW f \in DOMAIN Scale[s],
           w[s][f] # Scale[s][f][1]
    PROVE  Moved(Scale[s][f], w[s][f], Better(w, s, f)[s][f])
<1> DEFINE sc == Scale[s][f]
           x == w[s][f]
           I == {i \in 1..Len(sc) : sc[i] = x}
           here == SelectInSeq(sc, LAMBDA u : u = x)
<1>1. Len(sc) \in Nat /\ DOMAIN sc = 1..Len(sc)
  BY ScalesListed DEF Listed
<1>2. s \in DOMAIN w /\ f \in DOMAIN w[s] /\ x \in ToSet(sc)
  BY DEF OnScale
<1>3. here = IF I # {} THEN Min(I) ELSE 0
  BY DEF SelectInSeq
<1>4. Better(w, s, f) = [w EXCEPT ![s][f] = sc[here - 1]]
  BY DEF Better
<1>5. Better(w, s, f)[s][f] = sc[here - 1]
  <2> HIDE DEF sc, here
  <2> QED
    BY <1>2, <1>4
<1>6. x # sc[1]
  OBVIOUS
<1> HIDE DEF sc, here, x
<1>7. I # {} /\ I \in SUBSET Nat
  BY <1>1, <1>2 DEF ToSet
<1>8. here \in I
  <2> HIDE DEF I
  <2> QED
    BY <1>3, <1>7, MinProperties
<1>9. here \in DOMAIN sc /\ here - 1 \in DOMAIN sc /\ x = sc[here]
  BY <1>1, <1>6, <1>8
<1>10. Moved(sc, x, Better(w, s, f)[s][f])
  BY <1>5, <1>9 DEF Moved
<1> QED
  BY <1>10 DEF sc, x

LEMMA BetterElsewhere ==
    ASSUME NEW w, OnScale(w), NEW s \in Subjects, NEW f \in DOMAIN Scale[s],
           NEW t \in Subjects, NEW g \in DOMAIN Scale[t], t # s \/ g # f
    PROVE  Better(w, s, f)[t][g] = w[t][g]
<1>1. PICK y : Better(w, s, f) = [w EXCEPT ![s][f] = y]
  BY DEF Better
<1>2. t \in DOMAIN w /\ g \in DOMAIN w[t]
  BY DEF OnScale
<1> QED
  BY <1>1, <1>2

LEMMA BetterNotched ==
    ASSUME NEW w, OnScale(w), NEW s \in Subjects, NEW f \in DOMAIN Scale[s],
           f \in Measures, w[s][f] # Scale[s][f][1]
    PROVE  /\ OnScale(Better(w, s, f))
           /\ \A t \in Subjects : Notched(Scale[t], w[t], Better(w, s, f)[t])
<1> DEFINE v == Better(w, s, f)
<1>1. ASSUME NEW t \in Subjects, NEW g \in DOMAIN Scale[t]
      PROVE  \/ Unmoved(Scale[t][g], w[t][g], v[t][g])
             \/ g \in Measures /\ Moved(Scale[t][g], w[t][g], v[t][g])
  <2>1. CASE t = s /\ g = f
    BY <2>1, BetterIsANotch
  <2>2. CASE t # s \/ g # f
    BY <2>2, BetterElsewhere DEF OnScale, Unmoved
  <2> QED
    BY <2>1, <2>2
<1>2. DOMAIN v = Subjects /\ \A t \in Subjects : DOMAIN v[t] = DOMAIN Scale[t]
  BY DEF Better, OnScale
<1> HIDE DEF v
<1>3. \A t \in Subjects : \A g \in DOMAIN Scale[t] : v[t][g] \in ToSet(Scale[t][g])
  BY <1>1, NotchOnScale DEF OneNotch
<1>4. OnScale(v) /\ \A t \in Subjects : Notched(Scale[t], w[t], v[t])
  BY <1>1, <1>2, <1>3 DEF OnScale, Notched
<1> QED
  BY <1>4 DEF v

LEMMA BetterElsewhereSame ==
    ASSUME NEW w, OnScale(w), NEW s \in Subjects, NEW f, NEW t \in Subjects, t # s
    PROVE  Better(w, s, f)[t] = w[t]
BY DEF Better, OnScale

\* A reading a notch better of a measure is no worse a reading.
LEMMA BetterIsBetter ==
    ASSUME NEW w, OnScale(w), NEW s \in Subjects, NEW f \in DOMAIN Scale[s], f \in Measures,
           w[s][f] # Scale[s][f][1],
           s \in ToSet(Agents) => <<f, w[s][f]>> \notin {<<"mem", 100>>, <<"disk", 0>>}
    PROVE  Worse(w, Better(w, s, f))
<1> DEFINE v == Better(w, s, f)
<1>1. \A t \in Subjects : Notched(Scale[t], w[t], v[t])
  BY BetterNotched
<1>2. ASSUME NEW a \in ToSet(Agents)
      PROVE  (w[a]["mem"] = 100 => v[a]["mem"] = 100) /\ (w[a]["disk"] = 0 => v[a]["disk"] = 0)
  <2>1. a \in Subjects /\ "mem" \in DOMAIN Scale[a] /\ "disk" \in DOMAIN Scale[a]
    <3>1. a \in Subjects /\ Scale[a] = AgentScale
      BY ScaleOf
    <3> QED
      BY <3>1, AgentScales
  <2>2. \A g \in {"mem", "disk"} : a # s \/ g # f => v[a][g] = w[a][g]
    BY <2>1, BetterElsewhere
  <2> HIDE DEF v
  <2>3. CASE a = s /\ f = "mem"
    BY <2>2, <2>3
  <2>4. CASE a = s /\ f = "disk"
    BY <2>2, <2>4
  <2>5. CASE a # s \/ f \notin {"mem", "disk"}
    BY <2>2, <2>5
  <2> QED
    BY <2>3, <2>4, <2>5
<1>3. ASSUME NEW t \in {"metrics", "plugin", "credential", "event", "pvc"} PROVE w[t] = v[t]
  <2>1. t \in Subjects /\ t # s
    BY Unmeasured
  <2> QED
    BY <2>1, BetterElsewhereSame
<1> HIDE DEF v
<1>4. Worse(w, v)
  BY <1>1, <1>2, <1>3, NotchWorse
<1> QED
  BY <1>4 DEF v

-----------------------------------------------------------------------------
(* What a report says of a worse measure.                                  *)

\* What every check makes of what is read worse outdoes what it makes of the rest.
LEMMA WorseAnswers ==
    ASSUME NEW w, NEW v, Worse(w, v), NEW o \in Scans
    PROVE  AnswersOutdo(w, o, v, o)
<1> DEFINE A(u) == Answers(u, o)
<1>1. \A i \in 1..25 : A(w)[i][1] = A(v)[i][1]
  BY DEF Answers
<1>2. \A u : /\ A(u)[1][2] = AgentPodCheck(u)
           /\ A(u)[2][2] = AgentResourceCheck(u)
           /\ A(u)[3][2] = AgentErrorCheck(u)
           /\ A(u)[4][2] = AgentConnectivityCheck(u)
           /\ A(u)[5][2] = AgentOfflineCheck(u)
  BY DEF Answers
<1>3. \A u : /\ A(u)[6][2] = JenkinsJobCheck(u)
           /\ A(u)[7][2] = JenkinsFailedBuildCheck(u, o)
           /\ A(u)[8][2] = PipelinePatternCheck(u, o)
  BY DEF Answers
<1>4. \A u : /\ A(u)[9][2] = ExecutorUtilizationCheck(u)
           /\ A(u)[10][2] = BuildDurationCheck(u)
           /\ A(u)[11][2] = BuildLogSizeCheck(u)
           /\ A(u)[12][2] = ZombieBuildCheck(u)
  BY DEF Answers
<1>5. \A u : /\ A(u)[13][2] = DisabledJobCheck(u)
           /\ A(u)[14][2] = FlakyTestCheck(u)
           /\ A(u)[15][2] = SCMPollingCheck(u)
           /\ A(u)[16][2] = StaleBranchCheck(u)
  BY DEF Answers
<1>6. \A u : /\ A(u)[17][2] = ControllerHealthCheck(u)
           /\ A(u)[18][2] = PluginHealthCheck(u)
           /\ A(u)[19][2] = CredentialHealthCheck(u)
           /\ A(u)[20][2] = NodeCheck(u)
  BY DEF Answers
<1>7. \A u : /\ A(u)[21][2] = WorkloadCheck(u)
           /\ A(u)[22][2] = EventsCheck(u)
           /\ A(u)[23][2] = CertCheck(u)
           /\ A(u)[24][2] = PodResourceCheck(u)
           /\ A(u)[25][2] = PVCCheck(u)
  BY DEF Answers
<1> HIDE DEF A
<1>8. /\ Outdoes(A(w)[1][2], A(v)[1][2])
      /\ Outdoes(A(w)[2][2], A(v)[2][2])
      /\ Outdoes(A(w)[3][2], A(v)[3][2])
      /\ Outdoes(A(w)[4][2], A(v)[4][2])
      /\ Outdoes(A(w)[5][2], A(v)[5][2])
  BY <1>2, AgentPodLouder, AgentResourceLouder, AgentErrorLouder,
     AgentConnectivityLouder, AgentOfflineLouder DEF Louder
<1>9. /\ Outdoes(A(w)[6][2], A(v)[6][2])
      /\ Outdoes(A(w)[7][2], A(v)[7][2])
      /\ Outdoes(A(w)[8][2], A(v)[8][2])
  BY <1>3, JenkinsJobLouder, FailuresLouder DEF Louder
<1>10. /\ Outdoes(A(w)[9][2], A(v)[9][2])
      /\ Outdoes(A(w)[10][2], A(v)[10][2])
      /\ Outdoes(A(w)[11][2], A(v)[11][2])
      /\ Outdoes(A(w)[12][2], A(v)[12][2])
  BY <1>4, ExecutorUtilizationLouder, BuildDurationLouder, BuildLogSizeLouder,
     ZombieBuildLouder DEF Louder
<1>11. /\ Outdoes(A(w)[13][2], A(v)[13][2])
      /\ Outdoes(A(w)[14][2], A(v)[14][2])
      /\ Outdoes(A(w)[15][2], A(v)[15][2])
      /\ Outdoes(A(w)[16][2], A(v)[16][2])
  BY <1>5, DisabledJobLouder, FlakyTestLouder, SCMPollingLouder,
     StaleBranchLouder DEF Louder
<1>12. /\ Outdoes(A(w)[17][2], A(v)[17][2])
      /\ Outdoes(A(w)[18][2], A(v)[18][2])
      /\ Outdoes(A(w)[19][2], A(v)[19][2])
      /\ Outdoes(A(w)[20][2], A(v)[20][2])
  BY <1>6, ControllerLouder, PluginLouder, CredentialLouder, NodeCheckLouder
     DEF Louder
<1>13. /\ Outdoes(A(w)[21][2], A(v)[21][2])
      /\ Outdoes(A(w)[22][2], A(v)[22][2])
      /\ Outdoes(A(w)[23][2], A(v)[23][2])
      /\ Outdoes(A(w)[24][2], A(v)[24][2])
      /\ Outdoes(A(w)[25][2], A(v)[25][2])
  BY <1>7, WorkloadLouder, EventsLouder, CertLouder, PodResourceLouder,
     PVCLouder DEF Louder
<1>14. \A i \in 1..25 : Outdoes(A(w)[i][2], A(v)[i][2])
  BY <1>8, <1>9, <1>10, <1>11, <1>12, <1>13
<1> QED
  BY <1>1, <1>14 DEF A, AnswersOutdo

\* A measure gone worse drops no subject from the report and makes none less severe.
THEOREM WorseIsNotQuieterHolds ==
    ASSUME PoolsApart
    PROVE  Spec => []WorseIsNotQuieter
<1>1. ASSUME WorldInv PROVE WorseIsNotQuieter
  <2> SUFFICES ASSUME dismissed = {}, NEW d \in Departures(world), d[2] \in Measures,
                      ~NoReading(d[1], d[2]),
                      NEW i \in DOMAIN Report(Better(world, d[1], d[2]), Options, down, {})
               PROVE  Said(Report(Better(world, d[1], d[2]), Options, down, {})[i], Reported)
    BY DEF WorseIsNotQuieter
  <2> DEFINE s == d[1]
             f == d[2]
             v == Better(world, s, f)
  <2>1. /\ s \in Subjects /\ f \in DOMAIN Scale[s] /\ world[s][f] # Healthy[s][f]
        /\ Healthy[s][f] = Scale[s][f][1]
    BY DEF Departures, Healthy
  <2>2. f \in Measures
    OBVIOUS
  <2>3. s \in ToSet(Agents) => <<f, world[s][f]>> \notin {<<"mem", 100>>, <<"disk", 0>>}
    BY DEF NoReading
  <2>4. Options \in Scans
    BY DEF Options, Scans
  <2> HIDE DEF s, f
  <2>5. OnScale(world) /\ OnScale(v) /\ Worse(world, v)
    BY <1>1, <2>1, <2>2, <2>3, BetterNotched, BetterIsBetter DEF WorldInv
  <2> HIDE DEF v
  <2>6. WellRead(world) /\ WellRead(v)
    BY <2>5, OnScaleWellRead
  <2>7. AnswersOutdo(world, Options, v, Options)
    BY <2>4, <2>5, WorseAnswers
  <2>8. \A k \in DOMAIN Report(v, Options, down, {}) :
          Said(Report(v, Options, down, {})[k], Report(world, Options, down, {}))
    BY <2>6, <2>7, ReportLouder
  <2> QED
    BY <2>8 DEF v, s, f, Reported
<1> QED
  BY <1>1, AlwaysOnScale, PTL

=============================================================================
