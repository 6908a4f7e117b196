--------------------------- MODULE SequenceLemmas ---------------------------
(***************************************************************************)
(* Induction on the natural numbers, stated of a set instead of a          *)
(* predicate, and what follows from it of the sequences of these modules.  *)
(***************************************************************************)
EXTENDS Integers, Sequences, SequencesExt, WellFoundedInduction, TLAPS

LEMMA Least == ASSUME NEW T \in SUBSET Nat, T # {} PROVE \E x \in T : \A y \in T : x <= y
<1> DEFINE R == {ss \in Nat \X Nat : ss[1] < ss[2]}
<1>1. OpToRel(<, Nat) = R
  BY Zenon DEF OpToRel
<1>2. IsWellFoundedOn(R, Nat)
  BY <1>1, NatLessThanWellFounded, Zenon
<1>3. \E x \in T : \A y \in T : ~ (<<y, x>> \in R)
  <2> HIDE DEF R
  <2> QED
    BY <1>2, WFMin
<1>4. \A x, y \in Nat : y < x => <<y, x>> \in R
  OBVIOUS
<1> HIDE DEF R
<1>5. PICK x \in T : \A y \in T : ~ (<<y, x>> \in R)
  BY <1>3
<1>6. \A y \in T : ~ (y < x)
  BY <1>4, <1>5
<1> QED
  BY <1>6

LEMMA Induct == ASSUME NEW S, 0 \in S, \A m \in Nat : m \in S => m + 1 \in S PROVE Nat \subseteq S
<1> DEFINE T == Nat \ S
<1> SUFFICES ASSUME T # {} PROVE FALSE
  OBVIOUS
<1>1. PICK x \in T : \A y \in T : x <= y
  BY Least
<1>2. x # 0 /\ x - 1 \in Nat /\ x - 1 \notin T
  BY <1>1
<1>3. x - 1 + 1 \in S
  BY <1>2
<1> QED
  BY <1>1, <1>3

(* What sequences are made of. *)
LEMMA ToSetOf == ASSUME NEW S, NEW s \in Seq(S) PROVE ToSet(s) \subseteq S
  BY DEF ToSet

LEMMA ToSetConcat ==
  ASSUME NEW S, NEW s \in Seq(S), NEW t \in Seq(S)
  PROVE  s \o t \in Seq(S) /\ ToSet(s \o t) = ToSet(s) \cup ToSet(t)
<1>1. \A j \in 1 .. Len(t) : (s \o t)[Len(s) + j] = t[j] /\ Len(s) + j \in 1 .. Len(s \o t)
  OBVIOUS
<1>2. \A j \in 1 .. Len(s) : (s \o t)[j] = s[j] /\ j \in 1 .. Len(s \o t)
  OBVIOUS
<1>3. \A j \in 1 .. Len(s \o t) : j \in 1 .. Len(s) \/ (j - Len(s) \in 1 .. Len(t) /\ (s \o t)[j] = t[j - Len(s)])
  OBVIOUS
<1>4. DOMAIN s = 1 .. Len(s) /\ DOMAIN t = 1 .. Len(t) /\ DOMAIN (s \o t) = 1 .. Len(s \o t) /\ s \o t \in Seq(S)
  OBVIOUS
<1>5. ASSUME NEW x \in ToSet(s \o t) PROVE x \in ToSet(s) \cup ToSet(t)
  <2>1. PICK j \in 1 .. Len(s \o t) : x = (s \o t)[j]
    BY <1>4, <1>5 DEF ToSet
  <2> QED
    BY <1>2, <1>3, <1>4, <2>1 DEF ToSet
<1>6. ASSUME NEW x \in ToSet(s) \cup ToSet(t) PROVE x \in ToSet(s \o t)
  <2>1. CASE x \in ToSet(s)
    BY <1>2, <1>4, <2>1 DEF ToSet
  <2>2. CASE x \in ToSet(t)
    BY <1>1, <1>4, <2>2 DEF ToSet
  <2> QED
    BY <1>6, <2>1, <2>2
<1> QED
  BY <1>4, <1>5, <1>6

LEMMA ToSetConcat3 ==
  ASSUME NEW S, NEW s \in Seq(S), NEW t \in Seq(S), NEW u \in Seq(S)
  PROVE  s \o t \o u \in Seq(S) /\ ToSet(s \o t \o u) = ToSet(s) \cup ToSet(t) \cup ToSet(u)
<1> DEFINE st == s \o t
<1>1. st \in Seq(S) /\ ToSet(st) = ToSet(s) \cup ToSet(t)
  BY ToSetConcat
<1> HIDE DEF st
<1>2. st \o u \in Seq(S) /\ ToSet(st \o u) = ToSet(st) \cup ToSet(u)
  BY <1>1, ToSetConcat
<1> QED
  BY <1>1, <1>2 DEF st

LEMMA ToSetConcat4 ==
  ASSUME NEW S, NEW s \in Seq(S), NEW t \in Seq(S), NEW u \in Seq(S), NEW v \in Seq(S)
  PROVE  /\ s \o t \o u \o v \in Seq(S)
         /\ ToSet(s \o t \o u \o v) = ToSet(s) \cup ToSet(t) \cup ToSet(u) \cup ToSet(v)
<1> DEFINE stu == s \o t \o u
<1>1. stu \in Seq(S) /\ ToSet(stu) = ToSet(s) \cup ToSet(t) \cup ToSet(u)
  BY ToSetConcat3
<1> HIDE DEF stu
<1>2. stu \o v \in Seq(S) /\ ToSet(stu \o v) = ToSet(stu) \cup ToSet(v)
  BY <1>1, ToSetConcat
<1> QED
  BY <1>1, <1>2 DEF stu

LEMMA ToSetAppend ==
  ASSUME NEW S, NEW s \in Seq(S), NEW e \in S
  PROVE  Append(s, e) \in Seq(S) /\ ToSet(Append(s, e)) = ToSet(s) \cup {e}
<1>1. \A j \in 1 .. Len(s) : Append(s, e)[j] = s[j] /\ j \in 1 .. Len(Append(s, e))
  OBVIOUS
<1>2. Append(s, e)[Len(s) + 1] = e /\ DOMAIN Append(s, e) = 1 .. Len(s) + 1
  OBVIOUS
<1> QED
  BY <1>1, <1>2 DEF ToSet

LEMMA ToSetTail ==
  ASSUME NEW S, NEW s \in Seq(S), s # <<>>
  PROVE  Tail(s) \in Seq(S) /\ ToSet(s) = {Head(s)} \cup ToSet(Tail(s))
<1>1. \A j \in 1 .. Len(Tail(s)) : Tail(s)[j] = s[j + 1] /\ j + 1 \in 1 .. Len(s)
  OBVIOUS
<1>2. \A j \in 1 .. Len(s) : j = 1 \/ (j - 1 \in 1 .. Len(Tail(s)) /\ s[j] = Tail(s)[j - 1])
  OBVIOUS
<1>3. Head(s) = s[1] /\ 1 \in 1 .. Len(s)
  OBVIOUS
<1>4. DOMAIN s = 1 .. Len(s) /\ DOMAIN Tail(s) = 1 .. Len(Tail(s)) /\ Tail(s) \in Seq(S)
  OBVIOUS
<1>5. ASSUME NEW x \in ToSet(s) PROVE x \in {Head(s)} \cup ToSet(Tail(s))
  <2>1. PICK j \in 1 .. Len(s) : x = s[j]
    BY <1>4, <1>5 DEF ToSet
  <2> QED
    BY <1>2, <1>3, <1>4, <2>1 DEF ToSet
<1>6. ASSUME NEW x \in {Head(s)} \cup ToSet(Tail(s)) PROVE x \in ToSet(s)
  BY <1>1, <1>3, <1>4, <1>6 DEF ToSet
<1> QED
  BY <1>4, <1>5, <1>6

(* A concatenation of sequences: FlattenSeq is a recursive function, which has a value because one can be built
   for every length. *)
LEMMA Flattened ==
  ASSUME NEW S, NEW ss \in Seq(Seq(S))
  PROVE  FlattenSeq(ss) \in Seq(S) /\ ToSet(FlattenSeq(ss)) = UNION {ToSet(ss[j]) : j \in DOMAIN ss}
<1> DEFINE N == Len(ss)
<1> DEFINE Upto(m) == {g \in [1 .. m -> Seq(S)] : \A j \in 1 .. m : g[j] = IF j = 1 THEN ss[j] ELSE g[j - 1] \o ss[j]}
<1>1. CASE N = 0
  <2>1. FlattenSeq(ss) = ss
    <3>1. Len(ss) = 0
      BY <1>1
    <3> QED
      BY <3>1, Zenon DEF FlattenSeq
  <2>2. ss = <<>>
    BY <1>1
  <2> QED
    BY <2>1, <2>2 DEF ToSet
<1>2. CASE N # 0
  <2> DEFINE Built == {m \in Nat : 1 <= m /\ m <= N => Upto(m) # {}}
  <2>1. 0 \in Built
    OBVIOUS
  <2>2. ASSUME NEW m \in Nat, m \in Built PROVE m + 1 \in Built
    <3> SUFFICES ASSUME m + 1 <= N PROVE Upto(m + 1) # {}
      <4> HIDE DEF Upto, N
      <4> QED
        OBVIOUS
    <3>0. m # 0 => Upto(m) # {}
      <4> HIDE DEF Upto
      <4> QED
        BY <2>2
    <3>1. CASE m = 0
      <4> DEFINE one == [j \in 1 .. 1 |-> ss[1]]
      <4>1. one \in Upto(1)
        BY <3>1
      <4> QED
        BY <3>1, <4>1
    <3>2. CASE m # 0
      <4>1. PICK g \in Upto(m) : TRUE
        BY <3>0, <3>2
      <4> DEFINE last == g[m] \o ss[m + 1]
      <4> DEFINE more == [j \in 1 .. m + 1 |-> IF j = m + 1 THEN last ELSE g[j]]
      <4>2. last \in Seq(S)
        BY <3>2, <4>1
      <4>5. \A j \in 1 .. m : g[j] \in Seq(S) /\ g[j] = IF j = 1 THEN ss[j] ELSE g[j - 1] \o ss[j]
        BY <4>1
      <4> HIDE DEF last, Upto, Built
      <4>3. more \in [1 .. m + 1 -> Seq(S)]
        BY <4>2, <4>5
      <4>4. \A j \in 1 .. m + 1 : more[j] = IF j = 1 THEN ss[j] ELSE more[j - 1] \o ss[j]
        <5>1. \A j \in 1 .. m : more[j] = g[j]
          OBVIOUS
        <5>2. more[m + 1] = last
          OBVIOUS
        <5>3. ASSUME NEW j \in 1 .. m PROVE more[j] = IF j = 1 THEN ss[j] ELSE more[j - 1] \o ss[j]
          <6> HIDE DEF more
          <6>1. j # 1 => more[j - 1] = g[j - 1]
            BY <5>1
          <6>2. more[j] = g[j]
            BY <5>1
          <6> QED
            BY <4>5, <6>1, <6>2
        <5>4. more[m + 1] = more[m] \o ss[m + 1]
          <6>1. more[m] = g[m]
            BY <3>2, <5>1
          <6> HIDE DEF more
          <6> QED
            BY <5>2, <6>1, Zenon DEF last
        <5> HIDE DEF more, N
        <5>5. ASSUME NEW j \in 1 .. m + 1 PROVE more[j] = IF j = 1 THEN ss[j] ELSE more[j - 1] \o ss[j]
          <6>1. CASE j \in 1 .. m
            BY <5>3, <6>1
          <6>2. CASE j = m + 1
            <7>1. j # 1 /\ j - 1 = m
              BY <3>2, <6>2
            <7>2. more[j] = more[j - 1] \o ss[j]
              BY <5>4, <6>2, <7>1, Zenon
            <7> QED
              BY <7>1, <7>2
          <6> QED
            BY <6>1, <6>2
        <5> QED
          BY <5>5
      <4> HIDE DEF more
      <4> USE DEF Upto
      <4> QED
        BY <4>3, <4>4
    <3> QED
      BY <3>1, <3>2
  <2>3. N \in Built
    <3> HIDE DEF Built
    <3>1. Nat \subseteq Built
      BY <2>1, <2>2, Induct
    <3> QED
      BY <3>1
  <2>4. PICK g \in Upto(N) : TRUE
    BY <2>3, <1>2, SMTT(30)
  <2>5. g = [j \in 1 .. Len(ss) |-> IF j = 1 THEN ss[j] ELSE g[j - 1] \o ss[j]]
    BY <2>4
  <2> DEFINE f == CHOOSE h : h = [j \in 1 .. Len(ss) |-> IF j = 1 THEN ss[j] ELSE h[j - 1] \o ss[j]]
  <2>6. f = [j \in 1 .. Len(ss) |-> IF j = 1 THEN ss[j] ELSE f[j - 1] \o ss[j]]
    BY <2>5, Zenon
  <2> HIDE DEF f
  <2>0. \A j \in 1 .. N : f[j] = IF j = 1 THEN ss[j] ELSE f[j - 1] \o ss[j]
    BY <2>6, Zenon
  <2>13. \A j \in 1 .. N : j # 1 => f[j] = f[j - 1] \o ss[j]
    BY <2>0
  <2> USE DEF f
  <2>7. FlattenSeq(ss) = f[N]
    BY <1>2, Zenon DEF FlattenSeq
  <2> HIDE DEF f
  <2> DEFINE Made == {m \in Nat : 1 <= m /\ m <= N =>
                        f[m] \in Seq(S) /\ ToSet(f[m]) = UNION {ToSet(ss[j]) : j \in 1 .. m}}
  <2>8. 0 \in Made
    OBVIOUS
  <2>9. ASSUME NEW m \in Nat, m \in Made PROVE m + 1 \in Made
    <3> SUFFICES ASSUME m + 1 <= N
                 PROVE  f[m + 1] \in Seq(S) /\ ToSet(f[m + 1]) = UNION {ToSet(ss[j]) : j \in 1 .. m + 1}
      OBVIOUS
    <3>1. CASE m = 0
      <4>1. f[1] = ss[1]
        BY <2>0, <3>1
      <4> QED
        BY <3>1, <4>1
    <3>2. CASE m # 0
      <4>1. f[m + 1] = f[m] \o ss[m + 1]
        <5> HIDE DEF N, Made, Built, Upto
        <5>1. PICK j \in 1 .. N : j = m + 1 /\ j # 1 /\ j - 1 = m
          BY <3>2
        <5>2. f[j] = f[j - 1] \o ss[j]
          BY <2>13, <5>1
        <5> QED
          BY <5>1, <5>2, Zenon
      <4>2. f[m] \in Seq(S) /\ ToSet(f[m]) = UNION {ToSet(ss[j]) : j \in 1 .. m} /\ ss[m + 1] \in Seq(S)
        BY <2>9, <3>2
      <4>3. f[m + 1] \in Seq(S) /\ ToSet(f[m + 1]) = ToSet(f[m]) \cup ToSet(ss[m + 1])
        BY <4>1, <4>2, ToSetConcat
      <4>4. UNION {ToSet(ss[j]) : j \in 1 .. m + 1} = (UNION {ToSet(ss[j]) : j \in 1 .. m}) \cup ToSet(ss[m + 1])
        <5>1. 1 .. m + 1 = (1 .. m) \cup {m + 1}
          OBVIOUS
        <5> QED
          BY <5>1
      <4> QED
        BY <4>2, <4>3, <4>4
    <3> QED
      BY <3>1, <3>2
  <2>10. N \in Made
    <3> HIDE DEF Made
    <3>1. Nat \subseteq Made
      BY <2>8, <2>9, Induct
    <3> QED
      BY <3>1
  <2>11. f[N] \in Seq(S) /\ ToSet(f[N]) = UNION {ToSet(ss[j]) : j \in 1 .. N}
    BY <2>10, <1>2
  <2>12. 1 .. N = DOMAIN ss
    OBVIOUS
  <2> QED
    BY <2>7, <2>11, <2>12, Zenon
<1> QED
  BY <1>1, <1>2
=============================================================================
