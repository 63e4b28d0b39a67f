--------------------------- MODULE StartUp_proofs ---------------------------
(***************************************************************************)
(* For any configuration file, any log calls and any threads that log: the *)
(* settings are what the file says; a proxy starts only with, and the      *)
(* process ends only without, all that is asked for and an address the     *)
(* host lets it listen on; the targets are those of the settings, in the   *)
(* order of their numbers; every line that is                              *)
(* logged is its text with the arguments in place, and none is missing in  *)
(* the file of all levels unless the write to it has failed.               *)
(***************************************************************************)
EXTENDS StartUp, FiniteSetTheorems, TLAPS

IsSequence(s) == \E S : s \in Seq(S)

LEMMA AppendToSequence ==
  ASSUME NEW s, IsSequence(s), NEW e
  PROVE  /\ IsSequence(Append(s, e))
         /\ Len(s) \in Nat /\ Len(Append(s, e)) = Len(s) + 1
         /\ DOMAIN s = 1 .. Len(s) /\ DOMAIN Append(s, e) = 1 .. Len(s) + 1
         /\ Append(s, e)[Len(s) + 1] = e
         /\ \A i \in 1 .. Len(s) : Append(s, e)[i] = s[i]
<1>1. PICK S : s \in Seq(S)
  BY DEF IsSequence
<1>2. PICK T : T = S \union {e}
  OBVIOUS
<1>3. s \in Seq(T) /\ e \in T
  BY <1>1, <1>2
<1>4. Append(s, e) \in Seq(T)
  BY <1>3
<1>5. IsSequence(Append(s, e))
  BY <1>4 DEF IsSequence
<1> QED
  BY <1>3, <1>5

LEMMA EmptyIsSequence == IsSequence(<<>>)
<1>1. <<>> \in Seq({})
  OBVIOUS
<1> QED
  BY <1>1 DEF IsSequence

-----------------------------------------------------------------------------
(* Induction over numbers, for a set of numbers.                           *)

\* A set of numbers that is not empty has a least one.
LEMMA LeastNumber ==
  ASSUME NEW T, T \subseteq Nat, T # {}
  PROVE  \E k \in T : \A j \in T : k <= j
<1> DEFINE below(k) == {j \in T : j <= k}
           family == {below(k) : k \in T}
<1>1. IsWellFoundedOn(StrictSubsetOrdering(T), FiniteSubsetsOf(T))
  BY FS_StrictSubsetOrderingWellFounded
<1>2. family \subseteq FiniteSubsetsOf(T) /\ family # {}
  <2>1. ASSUME NEW k \in T PROVE IsFiniteSet(below(k))
    <3>1. below(k) \in SUBSET Nat /\ k \in Nat /\ \A s \in below(k) : s <= k
      OBVIOUS
    <3> QED
      BY <3>1, FS_BoundedSetOfNaturals
  <2> QED
    BY <2>1 DEF FiniteSubsetsOf
<1>3. PICK m \in family : \A s \in family : <<s, m>> \notin StrictSubsetOrdering(T)
  <2> HIDE DEF family
  <2> QED
    BY <1>1, <1>2, WFMin
<1>4. PICK k \in T : m = below(k)
  BY <1>3
<1>5. ASSUME NEW j \in T, ~(k <= j) PROVE FALSE
  <2>0. j \in Nat /\ k \in Nat /\ j < k
    BY <1>5
  <2>1. /\ \A s \in below(j) : s \in below(k)
        /\ k \in below(k) /\ k \notin below(j) /\ below(j) \subseteq T /\ below(k) \subseteq T
    <3>1. \A s \in T : s \in Nat /\ (s <= j => s <= k)
      BY <2>0
    <3> QED
      BY <2>0, <3>1
  <2>2. <<below(j), below(k)>> \in StrictSubsetOrdering(T)
    BY <2>1 DEF StrictSubsetOrdering
  <2> QED
    BY <1>3, <1>4, <2>2
<1> QED
  BY <1>5

\* Induction up to n, for the set of the numbers of which something holds.
LEMMA CountingUp ==
  ASSUME NEW n \in Nat, NEW T, 0 \in T, \A k \in 0 .. n - 1 : k \in T => k + 1 \in T
  PROVE  \A k \in 0 .. n : k \in T
<1> DEFINE missing == {k \in 0 .. n : k \notin T}
<1> SUFFICES ASSUME missing # {} PROVE FALSE
  OBVIOUS
<1>1. PICK k \in missing : \A j \in missing : k <= j
  <2>1. missing \subseteq Nat
    OBVIOUS
  <2> HIDE DEF missing
  <2> QED
    BY <2>1, LeastNumber
<1>2. k # 0 /\ k - 1 \in 0 .. n - 1 /\ (k - 1) + 1 = k
  OBVIOUS
<1>3. k - 1 \notin missing
  BY <1>1, <1>2
<1> QED
  BY <1>2, <1>3

-----------------------------------------------------------------------------
(* What split() makes of a line.                                           *)

Ends(str) == {i \in 1 .. Len(str) + 1 : i > Len(str) \/ str[i] = "="}

\* Where the token that begins at i ends.
EndOf(str, i) == CHOOSE e \in Ends(str) : e >= i /\ \A f \in Ends(str) : f >= i => e <= f

\* What split() returns from i on, if p says what it returns from later characters on.
PartsFrom(str, p, i) ==
  IF i > Len(str) THEN <<>>
  ELSE IF str[i] = "=" THEN p[i + 1]
  ELSE <<SubSeq(str, i, EndOf(str, i) - 1)>> \o p[EndOf(str, i)]

SplitFrom(str) == CHOOSE p : p = [i \in 1 .. Len(str) + 1 |-> PartsFrom(str, p, i)]

\* The recursive function in split() under a name of its own.
LEMMA SplitIsFrom == \A str : Split(str) = SplitFrom(str)[1]
BY DEF Split, SplitFrom, PartsFrom, EndOf, Ends

\* A token ends before the next delimiter, or with the line.
LEMMA TokenEnds ==
  ASSUME NEW str, Len(str) \in Nat, NEW i \in 1 .. Len(str), str[i] # "="
  PROVE  /\ EndOf(str, i) \in i + 1 .. Len(str) + 1
         /\ EndOf(str, i) <= Len(str) => str[EndOf(str, i)] = "="
         /\ \A j \in i .. EndOf(str, i) - 1 : str[j] # "="
<1> DEFINE later == {e \in Ends(str) : e >= i}
<1>1. PICK e \in later : \A f \in later : e <= f
  <2>1. later \subseteq Nat /\ Len(str) + 1 \in later
    BY DEF Ends
  <2> HIDE DEF later
  <2> QED
    BY <2>1, LeastNumber
<1>2. e \in Ends(str) /\ e >= i /\ \A f \in Ends(str) : f >= i => e <= f
  BY <1>1
<1>3. PICK d : d = EndOf(str, i)
  OBVIOUS
<1>4. d \in Ends(str) /\ d >= i /\ \A f \in Ends(str) : f >= i => d <= f
  BY <1>2, <1>3 DEF EndOf
<1>5. d # i
  BY <1>4 DEF Ends
<1>6. ASSUME NEW j \in i .. d - 1 PROVE str[j] # "="
  BY <1>4 DEF Ends
<1> QED
  BY <1>3, <1>4, <1>5, <1>6 DEF Ends

\* split() is defined: what it returns from a character on follows from what it
\* returns from those behind.
LEMMA SplitDefined ==
  ASSUME NEW str, Len(str) \in Nat
  PROVE  \A i \in 1 .. Len(str) + 1 : SplitFrom(str)[i] = PartsFrom(str, SplitFrom(str), i)
<1> DEFINE n == Len(str) + 1
           solved(k) == \E p : \A i \in n + 1 - k .. n : p[i] = PartsFrom(str, p, i)
           numbers == {k \in 0 .. n : solved(k)}
<1>1. \A p, q : \A i \in 1 .. n :
        (\A j \in i + 1 .. n : p[j] = q[j]) => PartsFrom(str, p, i) = PartsFrom(str, q, i)
  <2> SUFFICES ASSUME NEW p, NEW q, NEW i \in 1 .. n, \A j \in i + 1 .. n : p[j] = q[j]
               PROVE  PartsFrom(str, p, i) = PartsFrom(str, q, i)
    OBVIOUS
  <2>1. CASE i > Len(str)
    BY <2>1 DEF PartsFrom
  <2>2. CASE i \in 1 .. Len(str) /\ str[i] = "="
    BY <2>2 DEF PartsFrom
  <2>3. CASE i \in 1 .. Len(str) /\ str[i] # "="
    BY <2>3, TokenEnds DEF PartsFrom
  <2> QED
    BY <2>1, <2>2, <2>3
<1>2. n \in Nat
  OBVIOUS
<1>3. 0 \in numbers
  OBVIOUS
<1>4. ASSUME NEW k \in 0 .. n - 1, k \in numbers PROVE k + 1 \in numbers
  <2>1. PICK p : \A i \in n + 1 - k .. n : p[i] = PartsFrom(str, p, i)
    BY <1>4
  <2> DEFINE q == [i \in 1 .. n |-> IF i = n - k THEN PartsFrom(str, p, i) ELSE p[i]]
  <2>2. \A i \in n + 1 - k .. n : q[i] = p[i]
    BY <1>2
  <2>3. n - k \in 1 .. n /\ q[n - k] = PartsFrom(str, p, n - k)
    BY <1>2
  <2> HIDE DEF q, n
  <2>4. \A i \in n - k .. n : PartsFrom(str, q, i) = PartsFrom(str, p, i)
    <3> SUFFICES ASSUME NEW i \in n - k .. n
                 PROVE  PartsFrom(str, q, i) = PartsFrom(str, p, i)
      OBVIOUS
    <3>1. i \in 1 .. n /\ \A j \in i + 1 .. n : q[j] = p[j]
      BY <1>2, <2>2
    <3> QED
      BY <1>1, <3>1
  <2>5. \A i \in n + 1 - (k + 1) .. n : q[i] = PartsFrom(str, q, i)
    <3>1. \A i \in n + 1 - (k + 1) .. n : i \in n - k .. n /\ (i = n - k \/ i \in n + 1 - k .. n)
      BY <1>2
    <3> QED
      BY <2>1, <2>2, <2>3, <2>4, <3>1
  <2> QED
    BY <1>2, <2>5
<1>5. n \in numbers
  <2> HIDE DEF n, numbers
  <2>1. \A k \in 0 .. n : k \in numbers
    BY <1>2, <1>3, <1>4, CountingUp
  <2> QED
    BY <1>2, <2>1
<1>6. PICK p : \A i \in 1 .. n : p[i] = PartsFrom(str, p, i)
  BY <1>5
<1> DEFINE q == [i \in 1 .. n |-> p[i]]
<1>7. q = [i \in 1 .. n |-> PartsFrom(str, q, i)]
  <2>1. \A i \in 1 .. n : PartsFrom(str, q, i) = PartsFrom(str, p, i)
    <3> HIDE DEF n
    <3>1. \A i \in 1 .. n : \A j \in i + 1 .. n : q[j] = p[j]
      BY <1>2
    <3> QED
      BY <1>1, <3>1
  <2> QED
    BY <1>6, <2>1
<1>8. PICK s : s = SplitFrom(str)
  OBVIOUS
<1>9. s = [i \in 1 .. n |-> PartsFrom(str, s, i)]
  <2> HIDE DEF q
  <2> QED
    BY <1>7, <1>8 DEF SplitFrom
<1> QED
  BY <1>8, <1>9

\* The three cases of split().
LEMMA SplitCases ==
  ASSUME NEW str, Len(str) \in Nat, NEW i \in 1 .. Len(str) + 1
  PROVE  /\ i = Len(str) + 1 => SplitFrom(str)[i] = <<>>
         /\ i # Len(str) + 1 /\ str[i] = "=" => SplitFrom(str)[i] = SplitFrom(str)[i + 1]
         /\ i # Len(str) + 1 /\ str[i] # "=" =>
              SplitFrom(str)[i] = <<SubSeq(str, i, EndOf(str, i) - 1)>> \o SplitFrom(str)[EndOf(str, i)]
<1>1. PICK p : p = SplitFrom(str)
  OBVIOUS
<1>2. p[i] = PartsFrom(str, p, i)
  BY <1>1, SplitDefined
<1>3. i > Len(str) <=> i = Len(str) + 1
  OBVIOUS
<1>4. i = Len(str) + 1 => p[i] = <<>>
  BY <1>2, <1>3 DEF PartsFrom
<1>5. i # Len(str) + 1 /\ str[i] = "=" => p[i] = p[i + 1]
  BY <1>2, <1>3 DEF PartsFrom
<1>6. i # Len(str) + 1 /\ str[i] # "=" =>
        p[i] = <<SubSeq(str, i, EndOf(str, i) - 1)>> \o p[EndOf(str, i)]
  BY <1>2, <1>3, Zenon DEF PartsFrom
<1> QED
  BY <1>1, <1>4, <1>5, <1>6

\* The first token at or behind i is from j to e - 1.
TokenAt(str, i, j, e) ==
  /\ j \in i .. Len(str) /\ e \in j + 1 .. Len(str) + 1
  /\ \A k \in i .. j - 1 : str[k] = "="
  /\ \A k \in j .. e - 1 : str[k] # "="
  /\ e <= Len(str) => str[e] = "="

Blank(str, i) == \A k \in i .. Len(str) : str[k] = "="

\* There is only one first token.
LEMMA OneToken ==
  ASSUME NEW str, Len(str) \in Nat, NEW i \in 1 .. Len(str) + 1, NEW j, NEW e, TokenAt(str, i, j, e)
  PROVE  /\ ~Blank(str, i)
         /\ \A k, f : TokenAt(str, i, k, f) => k = j /\ f = e
<1>1. j \in i .. Len(str) /\ e \in j + 1 .. Len(str) + 1 /\ str[j] # "="
  BY DEF TokenAt
<1>2. ~Blank(str, i)
  BY <1>1 DEF Blank
<1>3. ASSUME NEW k, NEW f, TokenAt(str, i, k, f) PROVE k = j /\ f = e
  <2>1. k \in i .. Len(str) /\ f \in k + 1 .. Len(str) + 1 /\ str[k] # "="
    BY <1>3 DEF TokenAt
  <2>2. ~(k < j) /\ ~(j < k)
    BY <1>1, <1>3, <2>1 DEF TokenAt
  <2>3. k = j
    BY <1>1, <2>1, <2>2
  <2>4. ~(f < e)
    BY <1>1, <1>3, <2>1, <2>3 DEF TokenAt
  <2>5. ~(e < f)
    BY <1>1, <1>3, <2>1, <2>3 DEF TokenAt
  <2> QED
    BY <1>1, <2>1, <2>3, <2>4, <2>5
<1> QED
  BY <1>2, <1>3

\* split() skips what is "=" and goes on behind the token it finds.
LEMMA SplitSkips ==
  ASSUME NEW str, Len(str) \in Nat, NEW i \in 1 .. Len(str) + 1, NEW j \in i .. Len(str) + 1,
         \A k \in i .. j - 1 : str[k] = "="
  PROVE  SplitFrom(str)[i] = SplitFrom(str)[j]
<1> DEFINE same == {k \in 0 .. j - i : SplitFrom(str)[i + k] = SplitFrom(str)[i]}
<1>1. 0 \in same /\ j - i \in Nat
  OBVIOUS
<1>2. ASSUME NEW k \in 0 .. j - i - 1, k \in same PROVE k + 1 \in same
  <2>1. i + k \in 1 .. Len(str) + 1 /\ i + k # Len(str) + 1 /\ str[i + k] = "="
    OBVIOUS
  <2>2. SplitFrom(str)[i + k] = SplitFrom(str)[(i + k) + 1]
    <3> HIDE DEF same
    <3> QED
      BY <2>1, SplitCases
  <2>3. (i + k) + 1 = i + (k + 1)
    OBVIOUS
  <2> QED
    BY <1>2, <2>2, <2>3
<1>3. \A k \in 0 .. j - i : k \in same
  <2> HIDE DEF same
  <2> QED
    BY <1>1, <1>2, CountingUp
<1>4. j - i \in 0 .. j - i /\ i + (j - i) = j
  OBVIOUS
<1> QED
  BY <1>3, <1>4

\* split() returns the first token and then what follows it, nothing if there is none.
LEMMA SplitToken ==
  ASSUME NEW str, Len(str) \in Nat, NEW i \in 1 .. Len(str) + 1
  PROVE  /\ Blank(str, i) => SplitFrom(str)[i] = <<>>
         /\ ~Blank(str, i) => \E j, e : TokenAt(str, i, j, e)
         /\ \A j, e : TokenAt(str, i, j, e) =>
              SplitFrom(str)[i] = <<SubSeq(str, j, e - 1)>> \o SplitFrom(str)[e]
<1>1. ASSUME Blank(str, i) PROVE SplitFrom(str)[i] = <<>>
  <2>1. SplitFrom(str)[i] = SplitFrom(str)[Len(str) + 1]
    BY <1>1, SplitSkips DEF Blank
  <2>2. Len(str) + 1 \in 1 .. Len(str) + 1
    OBVIOUS
  <2>3. SplitFrom(str)[Len(str) + 1] = <<>>
    BY <2>2, SplitCases
  <2> QED
    BY <2>1, <2>3
<1>2. ASSUME ~Blank(str, i) PROVE \E j, e : TokenAt(str, i, j, e)
  <2> DEFINE tokens == {k \in i .. Len(str) : str[k] # "="}
  <2>1. PICK j \in tokens : \A k \in tokens : j <= k
    <3>1. tokens \subseteq Nat /\ tokens # {}
      BY <1>2 DEF Blank
    <3> HIDE DEF tokens
    <3> QED
      BY <3>1, LeastNumber
  <2>2. j \in 1 .. Len(str) /\ j \in i .. Len(str) /\ str[j] # "="
    OBVIOUS
  <2>3. \A k \in i .. j - 1 : str[k] = "="
    BY <2>1, <2>2
  <2>4. TokenAt(str, i, j, EndOf(str, j))
    BY <2>2, <2>3, TokenEnds DEF TokenAt
  <2> QED
    BY <2>4
<1>3. ASSUME NEW j, NEW e, TokenAt(str, i, j, e)
      PROVE  SplitFrom(str)[i] = <<SubSeq(str, j, e - 1)>> \o SplitFrom(str)[e]
  <2>1. j \in 1 .. Len(str) /\ j \in i .. Len(str) + 1 /\ str[j] # "="
        /\ \A k \in i .. j - 1 : str[k] = "="
    BY <1>3 DEF TokenAt
  <2>2. SplitFrom(str)[i] = SplitFrom(str)[j]
    BY <2>1, SplitSkips
  <2>3. SplitFrom(str)[j] = <<SubSeq(str, j, EndOf(str, j) - 1)>> \o SplitFrom(str)[EndOf(str, j)]
    <3>1. j \in 1 .. Len(str) + 1 /\ j # Len(str) + 1
      BY <2>1
    <3> QED
      BY <2>1, <3>1, SplitCases
  <2>4. TokenAt(str, i, j, EndOf(str, j))
    <3>1. /\ EndOf(str, j) \in j + 1 .. Len(str) + 1
          /\ EndOf(str, j) <= Len(str) => str[EndOf(str, j)] = "="
          /\ \A k \in j .. EndOf(str, j) - 1 : str[k] # "="
      BY <2>1, TokenEnds
    <3> QED
      BY <2>1, <3>1 DEF TokenAt
  <2>5. EndOf(str, j) = e
    BY <1>3, <2>4, OneToken
  <2> QED
    BY <2>2, <2>3, <2>5
<1> QED
  BY <1>1, <1>2, <1>3

\* split() returns pieces of the line.
LEMMA SplitType ==
  ASSUME NEW S, NEW str \in Seq(S)
  PROVE  \A i \in 1 .. Len(str) + 1 : SplitFrom(str)[i] \in Seq(Seq(S))
<1> DEFINE n == Len(str) + 1
           p == SplitFrom(str)
           numbers == {k \in 0 .. n : \A i \in n + 1 - k .. n : p[i] \in Seq(Seq(S))}
<1>1. n \in Nat /\ Len(str) \in Nat /\ Len(str) = n - 1
  OBVIOUS
<1>2. 0 \in numbers
  OBVIOUS
<1>3. \A i \in 1 .. n : 
        /\ i = n => p[i] = <<>>
        /\ i # n /\ str[i] = "=" => p[i] = p[i + 1]
        /\ i # n /\ str[i] # "=" => p[i] = <<SubSeq(str, i, EndOf(str, i) - 1)>> \o p[EndOf(str, i)]
  BY SplitCases
<1> HIDE DEF n, p
<1>4. ASSUME NEW k \in 0 .. n - 1, k \in numbers PROVE k + 1 \in numbers
  <2> DEFINE i == n - k
  <2>1. i \in 1 .. n /\ \A j \in i + 1 .. n : p[j] \in Seq(Seq(S))
    BY <1>1, <1>4
  <2>2. \A j \in n + 1 - (k + 1) .. n : j = i \/ j \in i + 1 .. n
    BY <1>1
  <2>3. k + 1 \in 0 .. n
    BY <1>1
  <2> HIDE DEF i
  <2>4. p[i] \in Seq(Seq(S))
    <3>1. CASE i = n
      <4>1. p[i] = <<>>
        BY <1>3, <2>1, <3>1
      <4> QED
        BY <4>1
    <3>2. CASE i # n /\ str[i] = "="
      <4>1. p[i] = p[i + 1]
        BY <1>3, <2>1, <3>2
      <4>2. i + 1 \in i + 1 .. n
        BY <1>1, <2>1, <3>2
      <4> QED
        BY <2>1, <4>1, <4>2
    <3>3. CASE i # n /\ str[i] # "="
      <4>1. PICK e : e = EndOf(str, i)
        OBVIOUS
      <4>2. e \in i + 1 .. n
        <5>1. i \in 1 .. Len(str) /\ str[i] # "=" /\ Len(str) + 1 = n
          BY <1>1, <2>1, <3>3
        <5> QED
          BY <1>1, <4>1, <5>1, TokenEnds
      <4>3. p[e] \in Seq(Seq(S)) /\ SubSeq(str, i, e - 1) \in Seq(S)
        BY <1>1, <2>1, <3>3, <4>2
      <4>4. p[i] = <<SubSeq(str, i, e - 1)>> \o p[e]
        BY <1>3, <2>1, <3>3, <4>1
      <4> QED
        BY <4>3, <4>4
    <3> QED
      BY <1>1, <2>1, <3>1, <3>2, <3>3
  <2> QED
    BY <2>1, <2>2, <2>3, <2>4
<1>5. \A k \in 0 .. n : k \in numbers
  <2> HIDE DEF numbers
  <2> QED
    BY <1>1, <1>2, <1>4, CountingUp
<1>6. n \in numbers
  BY <1>1, <1>5
<1> QED
  BY <1>1, <1>6 DEF p, n

Ones(n) == Repeat("=", n)

Joined(s, t) == s \o t

\* Two sequences, one after the other.
LEMMA JoinedType ==
  ASSUME NEW T, NEW s \in Seq(T), NEW t \in Seq(T)
  PROVE  /\ Joined(s, t) \in Seq(T) /\ Len(Joined(s, t)) = Len(s) + Len(t)
         /\ Len(s) \in Nat /\ Len(t) \in Nat
         /\ \A i \in 1 .. Len(s) : Joined(s, t)[i] = s[i]
         /\ \A i \in Len(s) + 1 .. Len(s) + Len(t) : Joined(s, t)[i] = t[i - Len(s)]
BY DEF Joined

\* A run of delimiters.
LEMMA OnesType ==
  ASSUME NEW T, "=" \in T, NEW n \in Nat
  PROVE  Ones(n) \in Seq(T) /\ Len(Ones(n)) = n /\ \A i \in 1 .. n : Ones(n)[i] = "="
BY DEF Ones, Repeat

\* The line is made of key from h on and value from j on, and of delimiters.
MadeOf(line, key, value, h, i, j, k, n) ==
  /\ Len(line) = n
  /\ \A l \in 1 .. h - 1 : line[l] = "="
  /\ \A l \in h .. i - 1 : line[l] = key[l - (h - 1)]
  /\ \A l \in i .. j - 1 : line[l] = "="
  /\ \A l \in j .. k - 1 : line[l] = value[l - (j - 1)]
  /\ \A l \in k .. n : line[l] = "="

LineOf(a, key, m, value, b) == Ones(a) \o key \o Ones(m) \o value \o Ones(b)

\* Where the parts are of a line that is put together of a key and a value.
LEMMA LineParts ==
  ASSUME NEW S, NEW key \in Seq(S), NEW value \in Seq(S),
         NEW a \in Nat, NEW m \in Nat, NEW b \in Nat
  PROVE  /\ LineOf(a, key, m, value, b) \in Seq(S \union {"="})
         /\ \A h, i, j, k, n :
              /\ h = a + 1 /\ i = h + Len(key) /\ j = i + m /\ k = j + Len(value) /\ n = k + b - 1
              => MadeOf(LineOf(a, key, m, value, b), key, value, h, i, j, k, n)
<1>1. PICK T : T = S \union {"="}
  OBVIOUS
<1>2. key \in Seq(T) /\ value \in Seq(T) /\ Len(key) \in Nat /\ Len(value) \in Nat
  BY <1>1
<1>3. PICK x, y, z : x = Ones(a) /\ y = Ones(m) /\ z = Ones(b)
  OBVIOUS
<1>4. /\ x \in Seq(T) /\ Len(x) = a /\ \A i \in 1 .. a : x[i] = "="
      /\ y \in Seq(T) /\ Len(y) = m /\ \A i \in 1 .. m : y[i] = "="
      /\ z \in Seq(T) /\ Len(z) = b /\ \A i \in 1 .. b : z[i] = "="
  BY <1>1, <1>3, OnesType
<1>5. PICK j, k, l : j = a + Len(key) /\ k = j + m /\ l = k + Len(value)
  OBVIOUS
<1>6. j \in Nat /\ k \in Nat /\ l \in Nat /\ a <= j /\ j <= k /\ k <= l
  BY <1>2, <1>5
<1>7. PICK c : c = Joined(x, key)
  OBVIOUS
<1>8. /\ c \in Seq(T) /\ Len(c) = j
      /\ \A i \in 1 .. a : c[i] = "="
      /\ \A i \in a + 1 .. j : c[i] = key[i - a]
  <2>1. /\ c \in Seq(T) /\ Len(c) = Len(x) + Len(key)
        /\ \A i \in 1 .. Len(x) : c[i] = x[i]
        /\ \A i \in Len(x) + 1 .. Len(x) + Len(key) : c[i] = key[i - Len(x)]
    <3>1. x \in Seq(T) /\ key \in Seq(T)
      BY <1>2, <1>4
    <3> QED
      BY <1>7, <3>1, JoinedType, Zenon
  <2> QED
    BY <1>2, <1>4, <1>5, <1>6, <2>1
<1>9. PICK d : d = Joined(c, y)
  OBVIOUS
<1>10. /\ d \in Seq(T) /\ Len(d) = k
       /\ \A i \in 1 .. j : d[i] = c[i]
       /\ \A i \in j + 1 .. k : d[i] = "="
  <2>1. /\ d \in Seq(T) /\ Len(d) = Len(c) + Len(y)
        /\ \A i \in 1 .. Len(c) : d[i] = c[i]
        /\ \A i \in Len(c) + 1 .. Len(c) + Len(y) : d[i] = y[i - Len(c)]
    <3>1. c \in Seq(T) /\ y \in Seq(T)
      BY <1>4, <1>8
    <3> QED
      BY <1>9, <3>1, JoinedType, Zenon
  <2>2. \A i \in j + 1 .. k : i - j \in 1 .. m
    BY <1>5, <1>6
  <2> QED
    BY <1>4, <1>5, <1>6, <1>8, <2>1, <2>2
<1>11. PICK e : e = Joined(d, value)
  OBVIOUS
<1>12. /\ e \in Seq(T) /\ Len(e) = l
       /\ \A i \in 1 .. k : e[i] = d[i]
       /\ \A i \in k + 1 .. l : e[i] = value[i - k]
  <2>1. /\ e \in Seq(T) /\ Len(e) = Len(d) + Len(value)
        /\ \A i \in 1 .. Len(d) : e[i] = d[i]
        /\ \A i \in Len(d) + 1 .. Len(d) + Len(value) : e[i] = value[i - Len(d)]
    <3>1. d \in Seq(T) /\ value \in Seq(T)
      BY <1>2, <1>10
    <3> QED
      BY <1>11, <3>1, JoinedType, Zenon
  <2> QED
    BY <1>2, <1>5, <1>6, <1>10, <2>1
<1>13. PICK line : line = Joined(e, z)
  OBVIOUS
<1>14. /\ line \in Seq(T) /\ Len(line) = l + b
       /\ \A i \in 1 .. l : line[i] = e[i]
       /\ \A i \in l + 1 .. l + b : line[i] = "="
  <2>1. /\ line \in Seq(T) /\ Len(line) = Len(e) + Len(z)
        /\ \A i \in 1 .. Len(e) : line[i] = e[i]
        /\ \A i \in Len(e) + 1 .. Len(e) + Len(z) : line[i] = z[i - Len(e)]
    <3>1. e \in Seq(T) /\ z \in Seq(T)
      BY <1>4, <1>12
    <3> QED
      BY <1>13, <3>1, JoinedType, Zenon
  <2>2. \A i \in l + 1 .. l + b : i - l \in 1 .. b
    BY <1>6
  <2> QED
    BY <1>4, <1>6, <1>12, <2>1, <2>2
<1>15. \A i \in 1 .. k : line[i] = d[i]
  BY <1>6, <1>12, <1>14
<1>16. \A i \in 1 .. j : line[i] = c[i]
  BY <1>6, <1>10, <1>15
<1>17. \A i \in 1 .. a : line[i] = "="
  BY <1>6, <1>8, <1>16
<1>18. \A i \in a + 1 .. j : line[i] = key[i - a]
  BY <1>6, <1>8, <1>16
<1>19. \A i \in j + 1 .. k : line[i] = "="
  BY <1>6, <1>10, <1>15
<1>20. \A i \in k + 1 .. l : line[i] = value[i - k]
  BY <1>6, <1>12, <1>14
<1>21. line = LineOf(a, key, m, value, b)
  BY <1>3, <1>7, <1>9, <1>11, <1>13 DEF Joined, LineOf
<1>22. /\ MadeOf(line, key, value, a + 1, j + 1, k + 1, l + 1, l + b) 
       /\ a + 1 + Len(key) = j + 1 /\ (j + 1) + m = k + 1 /\ (k + 1) + Len(value) = l + 1
       /\ (l + 1) + b - 1 = l + b
  <2>1. (a + 1) - 1 = a /\ (j + 1) - 1 = j /\ (k + 1) - 1 = k /\ (l + 1) - 1 = l
        /\ (l + 1) + b - 1 = l + b
    BY <1>6
  <2>2. a + 1 + Len(key) = j + 1 /\ (j + 1) + m = k + 1 /\ (k + 1) + Len(value) = l + 1
    BY <1>2, <1>5, <1>6
  <2> QED
    BY <1>14, <1>17, <1>18, <1>19, <1>20, <2>1, <2>2 DEF MadeOf
<1> QED
  BY <1>1, <1>14, <1>21, <1>22, Zenon

\* The line has two tokens, from h to i - 1 and from j to k - 1.
TwoTokens(str, h, i, j, k) == TokenAt(str, 1, h, i) /\ TokenAt(str, i, j, k) /\ Blank(str, k)

\* Where the delimiters are of a line of two tokens.
LEMMA TwoTokensShape ==
  ASSUME NEW str, Len(str) \in Nat, NEW h, NEW i, NEW j, NEW k, TwoTokens(str, h, i, j, k)
  PROVE  /\ h \in 1 .. Len(str) /\ i \in h + 1 .. Len(str) /\ j \in i + 1 .. Len(str)
         /\ k \in j + 1 .. Len(str) + 1
         /\ \A n \in 1 .. h - 1 : str[n] = "="
         /\ \A n \in h .. i - 1 : str[n] # "="
         /\ \A n \in i .. j - 1 : str[n] = "="
         /\ \A n \in j .. k - 1 : str[n] # "="
         /\ \A n \in k .. Len(str) : str[n] = "="
<1>1. /\ h \in 1 .. Len(str) /\ i \in h + 1 .. Len(str) + 1
      /\ j \in i .. Len(str) /\ k \in j + 1 .. Len(str) + 1
  BY DEF TwoTokens, TokenAt
<1>2. i <= Len(str) /\ str[i] = "="
  BY <1>1 DEF TwoTokens, TokenAt
<1>3. j # i
  BY <1>1, <1>2 DEF TwoTokens, TokenAt
<1> QED
  BY <1>1, <1>2, <1>3 DEF TwoTokens, TokenAt, Blank

\* What split() returns for a line of two tokens, and for no other line, are two parts.
LEMMA SplitInTwo ==
  ASSUME NEW S, NEW str \in Seq(S)
  PROVE  /\ \A h, i, j, k : TwoTokens(str, h, i, j, k) =>
              /\ Len(Split(str)) = 2
              /\ Split(str)[1] = SubSeq(str, h, i - 1)
              /\ Split(str)[2] = SubSeq(str, j, k - 1)
         /\ Len(Split(str)) = 2 => \E h, i, j, k : TwoTokens(str, h, i, j, k)
<1>1. PICK n, p : n = Len(str) + 1 /\ p = SplitFrom(str)
  OBVIOUS
<1>2. n \in Nat /\ 1 \in 1 .. n /\ Len(str) \in Nat /\ Len(str) = n - 1
  BY <1>1
<1>3. \A i \in 1 .. n : \A j, e : TokenAt(str, i, j, e) => j \in 1 .. n - 1 /\ e \in j + 1 .. n /\ e \in 1 .. n
  BY <1>2 DEF TokenAt
<1>4. Split(str) = p[1]
  BY <1>1, SplitIsFrom
<1>5. \A i \in 1 .. n : p[i] \in Seq(Seq(S))
  BY <1>1, SplitType
<1> DEFINE size(i) == Len(p[i])
<1>6. \A i \in 1 .. n : Blank(str, i) => size(i) = 0
  BY <1>1, <1>2, SplitToken
<1>7. \A i \in 1 .. n : ~Blank(str, i) => \E j, e : TokenAt(str, i, j, e)
  BY <1>1, <1>2, SplitToken
<1>8. ASSUME NEW i \in 1 .. n, NEW j, NEW e, TokenAt(str, i, j, e)
      PROVE  /\ size(e) \in Nat /\ size(i) = size(e) + 1
             /\ p[i][1] = SubSeq(str, j, e - 1)
             /\ size(e) = 1 => p[i][2] = p[e][1]
  <2>1. ASSUME NEW x \in Seq(S), NEW y \in Seq(Seq(S))
        PROVE  /\ Len(y) \in Nat /\ Len(Joined(<<x>>, y)) = Len(y) + 1
               /\ Joined(<<x>>, y)[1] = x
               /\ Len(y) = 1 => Joined(<<x>>, y)[2] = y[1]
    BY DEF Joined
  <2>2. PICK x : x = SubSeq(str, j, e - 1)
    OBVIOUS
  <2>3. x \in Seq(S)
    <3>1. j \in 1 .. Len(str) /\ e - 1 \in 1 .. Len(str)
      BY <1>2, <1>3, <1>8
    <3> QED
      BY <2>2, <3>1
  <2>4. p[i] = Joined(<<x>>, p[e])
    BY <1>1, <1>2, <1>8, <2>2, SplitToken DEF Joined
  <2>5. p[e] \in Seq(Seq(S))
    BY <1>3, <1>5, <1>8
  <2>6. PICK y, z : y = p[e] /\ z = p[i]
    OBVIOUS
  <2>7. z = Joined(<<x>>, y) /\ y \in Seq(Seq(S))
    BY <2>4, <2>5, <2>6
  <2>8. Len(y) \in Nat /\ Len(z) = Len(y) + 1 /\ z[1] = x /\ (Len(y) = 1 => z[2] = y[1])
    BY <2>1, <2>3, <2>7, Zenon
  <2> QED
    BY <2>2, <2>6, <2>8, Zenon
<1> HIDE DEF size
<1>9. ASSUME NEW h, NEW i, NEW j, NEW k, TwoTokens(str, h, i, j, k)
      PROVE  /\ size(1) = 2
             /\ p[1][1] = SubSeq(str, h, i - 1)
             /\ p[1][2] = SubSeq(str, j, k - 1)
  <2>1. TokenAt(str, 1, h, i) /\ TokenAt(str, i, j, k) /\ Blank(str, k)
    BY <1>9 DEF TwoTokens
  <2>2. i \in 1 .. n
    BY <1>2, <1>3, <2>1
  <2>3. k \in 1 .. n
    BY <1>3, <2>1, <2>2
  <2>4. size(k) = 0
    BY <1>6, <2>1, <2>3
  <2>5. size(i) = 1 /\ p[i][1] = SubSeq(str, j, k - 1)
    <3>1. size(i) = size(k) + 1 /\ p[i][1] = SubSeq(str, j, k - 1)
      BY <1>8, <2>1, <2>2
    <3> QED
      BY <2>4, <3>1
  <2>6. size(1) = 2 /\ p[1][1] = SubSeq(str, h, i - 1) /\ p[1][2] = p[i][1]
    <3>1. size(1) = size(i) + 1 /\ p[1][1] = SubSeq(str, h, i - 1) /\ (size(i) = 1 => p[1][2] = p[i][1])
      BY <1>2, <1>8, <2>1
    <3> QED
      BY <2>5, <3>1
  <2> QED
    BY <2>5, <2>6
<1>10. ASSUME size(1) = 2 PROVE \E h, i, j, k : TwoTokens(str, h, i, j, k)
  <2>1. ~Blank(str, 1)
    BY <1>2, <1>6, <1>10
  <2>2. PICK h, i : TokenAt(str, 1, h, i)
    BY <1>2, <1>7, <2>1
  <2>3. i \in 1 .. n
    BY <1>2, <1>3, <2>2
  <2>4. size(i) = 1
    <3>1. size(1) = size(i) + 1 /\ size(i) \in Nat
      BY <1>2, <1>8, <2>2
    <3> QED
      BY <1>10, <3>1
  <2>5. PICK j, k : TokenAt(str, i, j, k)
    <3>1. ~Blank(str, i)
      BY <1>6, <2>3, <2>4
    <3> QED
      BY <1>7, <2>3, <3>1
  <2>6. k \in 1 .. n
    BY <1>3, <2>3, <2>5
  <2>7. size(k) = 0
    <3>1. size(i) = size(k) + 1 /\ size(k) \in Nat
      BY <1>8, <2>3, <2>5
    <3> QED
      BY <2>4, <3>1
  <2>8. ASSUME ~Blank(str, k) PROVE FALSE
    <3>1. PICK l, m : TokenAt(str, k, l, m)
      BY <1>7, <2>6, <2>8
    <3>2. size(m) \in Nat /\ size(k) = size(m) + 1
      BY <1>8, <2>6, <3>1
    <3> QED
      BY <2>7, <3>2
  <2> QED
    BY <2>2, <2>5, <2>8 DEF TwoTokens
<1> QED
  BY <1>4, <1>9, <1>10 DEF size

\* Sequences with the same elements are equal.
LEMMA SameSequence ==
  ASSUME NEW S, NEW s \in Seq(S), NEW T, NEW t \in Seq(T), Len(s) = Len(t),
         \A i \in 1 .. Len(s) : s[i] = t[i]
  PROVE  s = t
<1>1. s = [i \in 1 .. Len(s) |-> s[i]] /\ t = [i \in 1 .. Len(t) |-> t[i]]
  OBVIOUS
<1> QED
  BY <1>1

Part(str, i, j) == SubSeq(str, i, j)

\* A part of a sequence.
LEMMA PartType ==
  ASSUME NEW S, NEW str \in Seq(S), NEW i \in 1 .. Len(str), NEW j \in i .. Len(str)
  PROVE  /\ Part(str, i, j) \in Seq(S) /\ Len(Part(str, i, j)) = j - i + 1
         /\ \A n \in 1 .. j - i + 1 : Part(str, i, j)[n] = str[n + i - 1]
<1>1. j - i + 1 \in Nat /\ \A n \in 1 .. j - i + 1 : n + i - 1 \in 1 .. Len(str)
  OBVIOUS
<1> QED
  BY <1>1 DEF Part

\* What is in a sequence from a place on is a part of it.
LEMMA PartIs ==
  ASSUME NEW S, NEW str \in Seq(S), NEW T, NEW part \in Seq(T), NEW a \in Nat,
         Len(part) >= 1, a + Len(part) <= Len(str),
         \A i \in a + 1 .. a + Len(part) : str[i] = part[i - a]
  PROVE  Part(str, a + 1, a + Len(part)) = part
<1>1. PICK s, l : s = Part(str, a + 1, a + Len(part)) /\ l = Len(part)
  OBVIOUS
<1>2. l \in Nat /\ a + 1 \in 1 .. Len(str) /\ a + l \in a + 1 .. Len(str)
  BY <1>1
<1>3. s \in Seq(S) /\ Len(s) = (a + l) - (a + 1) + 1
      /\ \A n \in 1 .. (a + l) - (a + 1) + 1 : s[n] = str[n + (a + 1) - 1]
  BY <1>1, <1>2, PartType
<1>4. (a + l) - (a + 1) + 1 = l /\ \A n \in 1 .. l : n + (a + 1) - 1 = a + n /\ a + n \in a + 1 .. a + l /\ (a + n) - a = n
  BY <1>2
<1>5. \A n \in 1 .. l : s[n] = part[n]
  BY <1>1, <1>3, <1>4
<1> QED
  BY <1>1, <1>3, <1>4, <1>5, SameSequence

\* Whether a line adds a setting.
Adds(str) == ~contains(str, "#") /\ contains(str, "=") /\ Len(Split(str)) = 2

\* A line with two tokens that sets a key to a value.
LEMMA TokensSet ==
  ASSUME NEW S, NEW str \in Seq(S), ~contains(str, "#"),
         NEW h, NEW i, NEW j, NEW k, TwoTokens(str, h, i, j, k)
  PROVE  Sets(str, Part(str, h, i - 1), Part(str, j, k - 1)) /\ contains(str, "=")
<1>1. /\ h \in 1 .. Len(str) /\ i \in h + 1 .. Len(str) /\ j \in i + 1 .. Len(str)
      /\ k \in j + 1 .. Len(str) + 1
      /\ \A n \in 1 .. h - 1 : str[n] = "="
      /\ \A n \in h .. i - 1 : str[n] # "="
      /\ \A n \in i .. j - 1 : str[n] = "="
      /\ \A n \in j .. k - 1 : str[n] # "="
      /\ \A n \in k .. Len(str) : str[n] = "="
  BY TwoTokensShape
<1>2. PICK key, value : key = Part(str, h, i - 1) /\ value = Part(str, j, k - 1)
  OBVIOUS
<1>3. /\ key \in Seq(S) /\ Len(key) = i - h /\ \A n \in 1 .. i - h : key[n] = str[n + h - 1]
      /\ value \in Seq(S) /\ Len(value) = k - j /\ \A n \in 1 .. k - j : value[n] = str[n + j - 1]
  <2>1. i - 1 \in h .. Len(str) /\ (i - 1) - h + 1 = i - h
    BY <1>1
  <2>2. j \in 1 .. Len(str) /\ k - 1 \in j .. Len(str) /\ (k - 1) - j + 1 = k - j
    BY <1>1
  <2>3. /\ key \in Seq(S) /\ Len(key) = (i - 1) - h + 1
        /\ \A n \in 1 .. (i - 1) - h + 1 : key[n] = str[n + h - 1]
    <3>1. h \in 1 .. Len(str) /\ i - 1 \in h .. Len(str)
      BY <1>1, <2>1
    <3> QED
      BY <1>2, <3>1, PartType, Zenon
  <2>4. /\ value \in Seq(S) /\ Len(value) = (k - 1) - j + 1
        /\ \A n \in 1 .. (k - 1) - j + 1 : value[n] = str[n + j - 1]
    BY <1>2, <2>2, PartType, Zenon
  <2> QED
    BY <2>1, <2>2, <2>3, <2>4
<1>4. PICK a, m, b : a = h - 1 /\ m = j - i /\ b = Len(str) + 1 - k
  OBVIOUS
<1>5. a \in Nat /\ m \in Nat /\ b \in Nat /\ m > 0
  BY <1>1, <1>4
<1>6. PICK line : line = LineOf(a, key, m, value, b)
  OBVIOUS
<1>7. /\ line \in Seq(S \union {"="})
      /\ Len(line) = Len(str)
      /\ MadeOf(line, key, value, h, i, j, k, Len(str))
  <2>1. h = a + 1 /\ i = h + Len(key) /\ j = i + m /\ k = j + Len(value) /\ Len(str) = k + b - 1
    BY <1>1, <1>3, <1>4
  <2>0. a \in Nat /\ m \in Nat /\ b \in Nat
    BY <1>5
  <2>2. line \in Seq(S \union {"="}) /\ Len(line) = Len(str) /\ MadeOf(line, key, value, h, i, j, k, Len(str))
    <3>1. key \in Seq(S) /\ value \in Seq(S)
      BY <1>3
    <3>2. MadeOf(line, key, value, h, i, j, k, Len(str))
      BY <1>6, <2>0, <2>1, <3>1, LineParts, Zenon
    <3>4. line \in Seq(S \union {"="})
      BY <1>6, <2>0, <3>1, LineParts, Zenon
    <3> QED
      BY <3>2, <3>4 DEF MadeOf
  <2> QED
    BY <2>2
<1>8. \A n \in 1 .. Len(str) : line[n] = str[n]
  <2> SUFFICES ASSUME NEW n \in 1 .. Len(str) PROVE line[n] = str[n]
    OBVIOUS
  <2>1. CASE n \in 1 .. h - 1 \/ n \in i .. j - 1 \/ n \in k .. Len(str)
    BY <1>1, <1>7, <2>1 DEF MadeOf
  <2>2. CASE n \in h .. i - 1
    <3>1. n - (h - 1) \in 1 .. i - h /\ (n - (h - 1)) + h - 1 = n
      BY <1>1, <2>2
    <3> QED
      BY <1>3, <1>7, <2>2, <3>1 DEF MadeOf
  <2>3. CASE n \in j .. k - 1
    <3>1. n - (j - 1) \in 1 .. k - j /\ (n - (j - 1)) + j - 1 = n
      BY <1>1, <2>3
    <3> QED
      BY <1>3, <1>7, <2>3, <3>1 DEF MadeOf
  <2> QED
    BY <1>1, <2>1, <2>2, <2>3
<1>9. str = line
  BY <1>7, <1>8, SameSequence
<1>10. contains(str, "=")
  BY <1>1 DEF contains
<1>11. key # <<>> /\ value # <<>>
  BY <1>1, <1>3
<1>12. \A n \in DOMAIN (key \o value) : (key \o value)[n] \notin {"=", "#"}
  <2>1. PICK s : s = Joined(key, value)
    OBVIOUS
  <2>2. /\ s \in Seq(S) /\ Len(s) = Len(key) + Len(value)
        /\ \A n \in 1 .. Len(key) : s[n] = key[n]
        /\ \A n \in Len(key) + 1 .. Len(key) + Len(value) : s[n] = value[n - Len(key)]
    BY <1>3, <2>1, JoinedType, Zenon
  <2>3. \A n \in 1 .. Len(str) : str[n] # "#"
    BY DEF contains
  <2>4. ASSUME NEW n \in 1 .. i - h PROVE key[n] \notin {"=", "#"}
    <3>1. n + h - 1 \in 1 .. Len(str) /\ n + h - 1 \in h .. i - 1
      BY <1>1
    <3>2. key[n] = str[n + h - 1]
      BY <1>3
    <3>3. str[n + h - 1] # "="
      BY <1>1, <3>1
    <3> QED
      BY <2>3, <3>1, <3>2, <3>3
  <2>5. ASSUME NEW n \in 1 .. k - j PROVE value[n] \notin {"=", "#"}
    <3>1. n + j - 1 \in 1 .. Len(str) /\ n + j - 1 \in j .. k - 1
      BY <1>1
    <3>2. value[n] = str[n + j - 1]
      BY <1>3
    <3>3. str[n + j - 1] # "="
      BY <1>1, <3>1
    <3> QED
      BY <2>3, <3>1, <3>2, <3>3
  <2>6. DOMAIN s = 1 .. (i - h) + (k - j)
    BY <1>1, <1>3, <2>2
  <2>7. ASSUME NEW n \in 1 .. (i - h) + (k - j) PROVE s[n] \notin {"=", "#"}
    <3>1. CASE n \in 1 .. i - h
      BY <1>3, <2>2, <2>4, <3>1
    <3>2. CASE n \in (i - h) + 1 .. (i - h) + (k - j)
      <4>1. n - (i - h) \in 1 .. k - j
        BY <1>1, <3>2
      <4> QED
        BY <1>3, <2>2, <2>5, <3>2, <4>1
    <3> QED
      BY <1>1, <3>1, <3>2
  <2>8. \A n \in DOMAIN s : s[n] \notin {"=", "#"}
    BY <2>6, <2>7
  <2> QED
    BY <2>1, <2>8 DEF Joined
<1>13. \E c, d \in 0 .. Len(str) - Len(key) - Len(value) :
         /\ c + d < Len(str) - Len(key) - Len(value)
         /\ str = LineOf(c, key, (Len(str) - Len(key) - Len(value)) - c - d, value, d)
  <2>1. PICK pads : pads = Len(str) - Len(key) - Len(value)
    OBVIOUS
  <2>2. a \in 0 .. pads /\ b \in 0 .. pads /\ a + b < pads /\ pads - a - b = m
    BY <1>1, <1>3, <1>4, <2>1
  <2>3. str = LineOf(a, key, pads - a - b, value, b)
    BY <1>6, <1>9, <2>2
  <2> QED
    BY <2>1, <2>2, <2>3, Zenon
<1> QED
  BY <1>2, <1>10, <1>11, <1>12, <1>13, Zenon DEF Sets, Ones, LineOf

\* A line that sets a key to a value has two tokens, the two.
LEMMA SetTokens ==
  ASSUME NEW S, NEW str \in Seq(S), NEW key \in Seq(S), NEW value \in Seq(S),
         Sets(str, key, value)
  PROVE  /\ ~contains(str, "#") /\ contains(str, "=")
         /\ \E h, i, j, k : TwoTokens(str, h, i, j, k) /\ key = Part(str, h, i - 1)
                                                       /\ value = Part(str, j, k - 1)
<1>1. PICK pads : pads = Len(str) - Len(key) - Len(value)
  OBVIOUS
<1>2. PICK a, b \in 0 .. pads :
        a + b < pads /\ str = LineOf(a, key, pads - a - b, value, b)
  BY <1>1 DEF Sets, Ones, LineOf
<1>3. key # <<>> /\ value # <<>> /\ \A n \in DOMAIN (key \o value) : (key \o value)[n] \notin {"=", "#"}
  BY DEF Sets
<1>4. PICK v, w : v = Len(key) /\ w = Len(value)
  OBVIOUS
<1>5. v \in Nat /\ w \in Nat /\ v > 0 /\ w > 0 /\ Len(str) \in Nat
  BY <1>3, <1>4
<1>6. PICK m : m = pads - a - b
  OBVIOUS
<1>7. a \in Nat /\ b \in Nat /\ m \in Nat /\ m > 0 /\ Len(str) = a + v + m + w + b
  <2>1. a \in 0 .. pads /\ b \in 0 .. pads /\ a + b < pads
    BY <1>2, Zenon
  <2>2. pads = Len(str) - v - w
    BY <1>1, <1>4, Zenon
  <2> QED
    BY <1>5, <1>6, <2>1, <2>2
<1>8. PICK h, i, j, k : h = a + 1 /\ i = h + v /\ j = i + m /\ k = j + w
  OBVIOUS
<1>9. MadeOf(str, key, value, h, i, j, k, Len(str))
  <2>1. str = LineOf(a, key, m, value, b)
    BY <1>2, <1>6
  <2>2. h = a + 1 /\ i = h + Len(key) /\ j = i + m /\ k = j + Len(value) /\ Len(str) = k + b - 1
    BY <1>4, <1>5, <1>7, <1>8
  <2>3. a \in Nat /\ b \in Nat /\ m \in Nat
    BY <1>7
  <2> QED
    BY <2>1, <2>2, <2>3, LineParts, Zenon
<1>10. /\ h \in 1 .. Len(str) /\ i \in h + 1 .. Len(str) /\ j \in i + 1 .. Len(str)
       /\ k \in j + 1 .. Len(str) + 1
       /\ h \in Nat /\ i \in Nat /\ j \in Nat /\ k \in Nat /\ k = j + w
  BY <1>5, <1>7, <1>8
<1>11. /\ \A n \in 1 .. v : key[n] \notin {"=", "#"}
       /\ \A n \in 1 .. w : value[n] \notin {"=", "#"}
  <2>1. PICK s : s = Joined(key, value)
    OBVIOUS
  <2>2. /\ s \in Seq(S) /\ Len(s) = Len(key) + Len(value)
        /\ \A n \in 1 .. Len(key) : s[n] = key[n]
        /\ \A n \in Len(key) + 1 .. Len(key) + Len(value) : s[n] = value[n - Len(key)]
    BY <2>1, JoinedType, Zenon
  <2>3. \A n \in 1 .. v + w : s[n] \notin {"=", "#"}
    <3>1. \A n \in DOMAIN s : s[n] \notin {"=", "#"}
      BY <1>3, <2>1, Zenon DEF Joined
    <3>2. DOMAIN s = 1 .. Len(s)
      BY <2>2
    <3>3. Len(s) = v + w
      BY <1>4, <2>2, Zenon
    <3> QED
      BY <3>1, <3>2, <3>3, Zenon
  <2>4. \A n \in 1 .. v : n \in 1 .. v + w /\ s[n] = key[n]
    BY <1>4, <1>5, <2>2
  <2>5. \A n \in 1 .. w : n + v \in 1 .. v + w /\ s[n + v] = value[n]
    <3>1. \A n \in 1 .. w : n + v \in v + 1 .. v + w /\ n + v \in 1 .. v + w /\ (n + v) - v = n
      BY <1>5
    <3> QED
      BY <1>4, <2>2, <3>1
  <2> QED
    BY <2>3, <2>4, <2>5
<1>12. /\ \A n \in 1 .. h - 1 : str[n] = "="
       /\ \A n \in h .. i - 1 : str[n] = key[n - a] /\ str[n] \notin {"=", "#"}
       /\ \A n \in i .. j - 1 : str[n] = "="
       /\ \A n \in j .. k - 1 : str[n] = value[n - (j - 1)] /\ str[n] \notin {"=", "#"}
       /\ \A n \in k .. Len(str) : str[n] = "="
  <2>1. h - 1 = a /\ \A n \in h .. i - 1 : n - a \in 1 .. v
    BY <1>7, <1>8, <1>5
  <2>2. \A n \in j .. k - 1 : n - (j - 1) \in 1 .. w
    BY <1>5, <1>10
  <2> QED
    BY <1>9, <1>11, <2>1, <2>2 DEF MadeOf
<1>13. TwoTokens(str, h, i, j, k)
  <2>1. TokenAt(str, 1, h, i)
    BY <1>10, <1>12 DEF TokenAt
  <2>2. TokenAt(str, i, j, k)
    BY <1>10, <1>12 DEF TokenAt
  <2> QED
    BY <1>12, <2>1, <2>2 DEF TwoTokens, Blank
<1>14. key = Part(str, h, i - 1)
  <2>1. i - 1 = a + v /\ h = a + 1 /\ a + v <= Len(str)
    BY <1>5, <1>7, <1>8
  <2>2. \A n \in a + 1 .. a + v : str[n] = key[n - a]
    BY <1>12, <2>1
  <2>3. Len(key) >= 1 /\ a + Len(key) <= Len(str) /\ a \in Nat
        /\ \A n \in a + 1 .. a + Len(key) : str[n] = key[n - a]
    BY <1>4, <1>5, <1>7, <2>1, <2>2
  <2>4. Part(str, a + 1, a + Len(key)) = key
    BY <2>3, PartIs, Zenon
  <2> QED
    BY <1>4, <2>1, <2>4, Zenon
<1>15. value = Part(str, j, k - 1)
  <2>1. PICK c : c = j - 1
    OBVIOUS
  <2>2. c \in Nat /\ c + 1 = j /\ c + w = k - 1 /\ c + w <= Len(str)
    BY <1>5, <1>10, <2>1
  <2>3. \A n \in c + 1 .. c + w : str[n] = value[n - c]
    BY <1>12, <2>1, <2>2
  <2>4. Len(value) >= 1 /\ c + Len(value) <= Len(str) /\ c \in Nat
        /\ \A n \in c + 1 .. c + Len(value) : str[n] = value[n - c]
    BY <1>4, <1>5, <2>2, <2>3
  <2>5. Part(str, c + 1, c + Len(value)) = value
    BY <2>4, PartIs, Zenon
  <2> QED
    BY <1>4, <2>2, <2>5, Zenon
<1>16. \A n \in 1 .. Len(str) : str[n] # "#"
  <2>1. \A n \in 1 .. Len(str) : n \in 1 .. h - 1 \/ n \in h .. i - 1 \/ n \in i .. j - 1
                                   \/ n \in j .. k - 1 \/ n \in k .. Len(str)
    BY <1>10
  <2> QED
    BY <1>12, <2>1
<1>17. contains(str, "=") /\ ~contains(str, "#")
  <2>1. i \in i .. j - 1 /\ i \in DOMAIN str
    BY <1>10
  <2> QED
    BY <1>12, <1>16, <2>1 DEF contains
<1> QED
  BY <1>13, <1>14, <1>15, <1>17

\* What a line says is what adding the line to the settings does.
LEMMA AddsSets ==
  ASSUME NEW S, NEW str \in Seq(S), Adds(str)
  PROVE  /\ Sets(str, Split(str)[1], Split(str)[2])
         /\ Split(str)[1] \in Seq(S) /\ Split(str)[2] \in Seq(S)
         /\ \E l, m \in DOMAIN str : Split(str)[1] = SubSeq(str, l, m)
         /\ \E l, m \in DOMAIN str : Split(str)[2] = SubSeq(str, l, m)
<1>1. PICK h, i, j, k : TwoTokens(str, h, i, j, k)
  BY SplitInTwo DEF Adds
<1>2. Split(str)[1] = Part(str, h, i - 1) /\ Split(str)[2] = Part(str, j, k - 1)
  BY <1>1, SplitInTwo DEF Part
<1>3. Sets(str, Part(str, h, i - 1), Part(str, j, k - 1))
  BY <1>1, TokensSet DEF Adds
<1>4. /\ h \in 1 .. Len(str) /\ i - 1 \in h .. Len(str) /\ i - 1 \in 1 .. Len(str)
      /\ j \in 1 .. Len(str) /\ k - 1 \in j .. Len(str) /\ k - 1 \in 1 .. Len(str)
  <2>1. /\ h \in 1 .. Len(str) /\ i \in h + 1 .. Len(str) /\ j \in i + 1 .. Len(str)
        /\ k \in j + 1 .. Len(str) + 1
    BY <1>1, TwoTokensShape
  <2> QED
    BY <2>1
<1>5. Part(str, h, i - 1) \in Seq(S) /\ Part(str, j, k - 1) \in Seq(S)
  BY <1>4, PartType
<1>6. h \in DOMAIN str /\ i - 1 \in DOMAIN str /\ j \in DOMAIN str /\ k - 1 \in DOMAIN str
  BY <1>4
<1>7. /\ \E l, m \in DOMAIN str : Part(str, h, i - 1) = Part(str, l, m)
      /\ \E l, m \in DOMAIN str : Part(str, j, k - 1) = Part(str, l, m)
  BY <1>6, Zenon
<1>8. PICK x, y : x = Part(str, h, i - 1) /\ y = Part(str, j, k - 1)
  OBVIOUS
<1>9. /\ \E l, m \in DOMAIN str : x = SubSeq(str, l, m)
      /\ \E l, m \in DOMAIN str : y = SubSeq(str, l, m)
  BY <1>7, <1>8, Zenon DEF Part
<1> QED
  BY <1>2, <1>3, <1>5, <1>8, <1>9, Zenon

\* A line that sets a key to a value adds that setting.
LEMMA SetsAdds ==
  ASSUME NEW S, NEW str \in Seq(S), NEW T, NEW key \in Seq(T), NEW value \in Seq(T),
         Sets(str, key, value)
  PROVE  Adds(str) /\ key = Split(str)[1] /\ value = Split(str)[2]
<1>1. PICK U : U = S \union T
  OBVIOUS
<1>2. str \in Seq(U) /\ key \in Seq(U) /\ value \in Seq(U)
  BY <1>1
<1>3. /\ ~contains(str, "#") /\ contains(str, "=")
      /\ \E h, i, j, k : TwoTokens(str, h, i, j, k) /\ key = Part(str, h, i - 1)
                                                    /\ value = Part(str, j, k - 1)
  BY <1>2, SetTokens
<1> QED
  BY <1>3, SplitInTwo DEF Adds, Part

-----------------------------------------------------------------------------
(* The settings.                                                           *)

\* The pieces of a line are its parts.
LEMMA PiecesAre ==
  ASSUME NEW n, NEW line, line = file[n]
  PROVE  \A x : x \in Pieces(n) <=> \E i, j \in DOMAIN line : x = Part(line, i, j)
<1>1. Pieces(n) = {Part(line, i, j) : i, j \in DOMAIN line}
  BY DEF Pieces, Part
<1>2. ASSUME NEW x \in Pieces(n) PROVE \E i, j \in DOMAIN line : x = Part(line, i, j)
  <2>1. x \in {Part(line, i, j) : i, j \in DOMAIN line}
    BY <1>1, <1>2
  <2> QED
    BY <2>1
<1>3. ASSUME NEW i \in DOMAIN line, NEW j \in DOMAIN line PROVE Part(line, i, j) \in Pieces(n)
  BY <1>1
<1> QED
  BY <1>2, <1>3

\* A line of the file adds the setting that it says, which is made of pieces of it.
LEMMA LineSays ==
  ASSUME file \in Files, NEW n \in DOMAIN file
  PROVE  /\ \A piece \in Pieces(n) : IsSequence(piece)
         /\ \A key, value : IsSequence(key) /\ IsSequence(value) /\ Sets(file[n], key, value) =>
              Adds(file[n]) /\ key = Split(file[n])[1] /\ value = Split(file[n])[2]
         /\ Adds(file[n]) => /\ Sets(file[n], Split(file[n])[1], Split(file[n])[2])
                             /\ Split(file[n])[1] \in Pieces(n) /\ Split(file[n])[2] \in Pieces(n)
<1>1. PICK line : line = file[n]
  OBVIOUS
<1>2. PICK S : line \in Seq(S)
  BY <1>1, FilesAssumption DEF IsText
<1>3. \A x : x \in Pieces(n) <=> \E i, j \in DOMAIN line : x = Part(line, i, j)
  BY <1>1, PiecesAre
<1>4. \A piece \in Pieces(n) : IsSequence(piece)
  <2>1. \A i, j \in DOMAIN line : Part(line, i, j) \in Seq(S)
    BY <1>2 DEF Part
  <2>2. ASSUME NEW piece \in Pieces(n) PROVE piece \in Seq(S)
    <3>1. PICK i, j \in DOMAIN line : piece = Part(line, i, j)
      BY <1>3
    <3> QED
      BY <2>1, <3>1
  <2> QED
    BY <2>2 DEF IsSequence
<1>5. ASSUME NEW key, NEW value, IsSequence(key), IsSequence(value), Sets(line, key, value)
      PROVE  Adds(line) /\ key = Split(line)[1] /\ value = Split(line)[2]
  <2>1. PICK K, V : key \in Seq(K) /\ value \in Seq(V)
    BY <1>5 DEF IsSequence
  <2>2. PICK T : T = K \union V
    OBVIOUS
  <2>3. key \in Seq(T) /\ value \in Seq(T)
    BY <2>1, <2>2
  <2> QED
    BY <1>2, <1>5, <2>3, SetsAdds
<1>6. ASSUME Adds(line)
      PROVE  /\ Sets(line, Split(line)[1], Split(line)[2])
             /\ Split(line)[1] \in Pieces(n) /\ Split(line)[2] \in Pieces(n)
  <2>1. /\ Sets(line, Split(line)[1], Split(line)[2])
        /\ \E l, m \in DOMAIN line : Split(line)[1] = Part(line, l, m)
        /\ \E l, m \in DOMAIN line : Split(line)[2] = Part(line, l, m)
    BY <1>2, <1>6, AddsSets DEF Part
  <2> QED
    BY <1>3, <2>1, Zenon
<1> QED
  BY <1>1, <1>4, <1>5, <1>6

\* A file is a sequence of lines.
LEMMA FileLines == file \in Files => Len(file) \in Nat /\ DOMAIN file = 1 .. Len(file)
BY FilesAssumption DEF IsText

\* Each line read adds what it says to the settings.
LEMMA ReadLineKeeps ==
  ASSUME SettingsInv, ReadLine
  PROVE  SettingsInv'
<1>1. PICK n, line : n = next /\ line = file[n]
  OBVIOUS
<1>2. /\ at = "file" /\ at' = at /\ file' = file /\ n <= Len(file) /\ next' = n + 1
      /\ configs' = AddLine(configs, line)
      /\ file \in Files /\ n \in 1 .. Len(file) + 1 /\ SettingsRead(n - 1)
  BY <1>1 DEF ReadLine, SettingsInv
<1>3. n \in DOMAIN file /\ n \in Nat /\ DOMAIN file = 1 .. Len(file) /\ Len(file) \in Nat
  BY <1>2, FileLines
<1>4. \A m \in DOMAIN file :
        /\ \A piece \in Pieces(m) : IsSequence(piece)
        /\ \A key, value : IsSequence(key) /\ IsSequence(value) /\ Sets(file[m], key, value) =>
             Adds(file[m]) /\ key = Split(file[m])[1] /\ value = Split(file[m])[2]
        /\ Adds(file[m]) => /\ Sets(file[m], Split(file[m])[1], Split(file[m])[2])
                            /\ Split(file[m])[1] \in Pieces(m) /\ Split(file[m])[2] \in Pieces(m)
  BY <1>2, LineSays
<1>5. PICK k, v : k = Split(line)[1] /\ v = Split(line)[2]
  OBVIOUS
<1>6. configs' = IF Adds(line) THEN Emplace(configs, k, v) ELSE configs
  BY <1>2, <1>5 DEF AddLine, Adds
<1>7. /\ \A m : Pieces(m)' = Pieces(m)
      /\ \A m, key, value : SetsFirst(m, key, value)' <=> SetsFirst(m, key, value)
  BY <1>2 DEF Pieces, SetsFirst
<1>8. \A key \in DOMAIN configs : key \in DOMAIN configs' /\ configs'[key] = configs[key]
  BY <1>6 DEF Emplace
<1>9. \A m : m \in 1 .. n <=> m \in 1 .. n - 1 \/ m = n
  BY <1>3
<1>10. \A m \in 1 .. n : m \in DOMAIN file
  BY <1>2, <1>3
<1>11. ASSUME NEW key \in DOMAIN configs'
       PROVE  \E m \in 1 .. n : configs'[key] \in Pieces(m) /\ SetsFirst(m, key, configs'[key])
  <2>1. CASE key \in DOMAIN configs
    BY <1>2, <1>8, <1>9, <2>1 DEF SettingsRead
  <2>2. CASE key \notin DOMAIN configs
    <3>1. Adds(line) /\ key = k /\ configs'[key] = v
      BY <1>6, <1>11, <2>2 DEF Emplace
    <3>2. Sets(line, k, v) /\ k \in Pieces(n) /\ v \in Pieces(n) /\ IsSequence(k)
      BY <1>1, <1>3, <1>4, <1>5, <3>1
    <3>3. ASSUME NEW m \in 1 .. n - 1, NEW w \in Pieces(m), Sets(file[m], k, w) PROVE FALSE
      <4>1. m \in DOMAIN file
        BY <1>9, <1>10
      <4>2. IsSequence(w)
        BY <1>4, <4>1
      <4>3. k \in Pieces(m)
        BY <1>4, <3>2, <3>3, <4>1, <4>2
      <4>4. k \in DOMAIN configs
        BY <1>2, <3>3, <4>3 DEF SettingsRead
      <4> QED
        BY <2>2, <3>1, <4>4
    <3>4. SetsFirst(n, k, v)
      BY <1>1, <3>2, <3>3 DEF SetsFirst
    <3> QED
      BY <1>9, <3>1, <3>2, <3>4
  <2> QED
    BY <2>1, <2>2
<1>12. ASSUME NEW m \in 1 .. n, NEW key \in Pieces(m), NEW value \in Pieces(m), Sets(file[m], key, value)
       PROVE  key \in DOMAIN configs'
  <2>1. CASE m \in 1 .. n - 1
    BY <1>2, <1>8, <1>12, <2>1 DEF SettingsRead
  <2>2. CASE m = n
    <3>1. Adds(line) /\ key = k
      BY <1>1, <1>3, <1>4, <1>5, <1>12, <2>2
    <3> QED
      BY <1>6, <3>1 DEF Emplace
  <2> QED
    BY <1>9, <2>1, <2>2
<1>13. SettingsRead(n)'
  BY <1>2, <1>7, <1>11, <1>12 DEF SettingsRead
<1>14. next' \in 1 .. Len(file) + 1 /\ next' - 1 = n
  BY <1>2, <1>3
<1> QED
  BY <1>2, <1>13, <1>14 DEF SettingsInv

\* Before the first line nothing is set.
LEMMA InitSettings == Init => SettingsInv
<1> SUFFICES ASSUME Init PROVE SettingsInv
  OBVIOUS
<1>1. at = "file" /\ next = 1 /\ file \in Files /\ configs = <<>>
  BY DEF Init
<1>2. Len(file) \in Nat /\ next - 1 = 0 /\ DOMAIN configs = {}
  BY <1>1, FileLines
<1> QED
  BY <1>1, <1>2 DEF SettingsInv, SettingsRead

\* Every step keeps the settings what the lines so far say.
LEMMA NextSettings == SettingsInv /\ [Next]_vars => SettingsInv'
<1> SUFFICES ASSUME SettingsInv, [Next]_vars PROVE SettingsInv'
  OBVIOUS
<1>1. ASSUME UNCHANGED <<file, configs>> PROVE \A n : SettingsRead(n)' <=> SettingsRead(n)
  BY <1>1 DEF SettingsRead, SetsFirst, Pieces
<1>2. CASE ReadLine
  BY <1>2, ReadLineKeeps
<1>3. CASE InitLog
  <2>1. /\ UNCHANGED <<file, configs>> /\ at = "file" /\ at' # "file" /\ next > Len(file)
    BY <1>3 DEF InitLog
  <2>2. Len(file) \in Nat /\ next \in 1 .. Len(file) + 1 /\ SettingsRead(next - 1)
    BY <2>1, FileLines DEF SettingsInv
  <2>3. next - 1 = Len(file)
    BY <2>1, <2>2
  <2> QED
    BY <1>1, <2>1, <2>2, <2>3 DEF SettingsInv
<1>4. CASE ReadListenAddress \/ ReadTarget \/ RunManager
  <2>1. UNCHANGED <<file, configs>> /\ at # "file" /\ at' # "file"
    BY <1>4 DEF ReadListenAddress, ReadTarget, RunManager, Transport
  <2> QED
    BY <1>1, <2>1 DEF SettingsInv
<1>5. CASE ProxyLogs \/ UNCHANGED vars
  <2>1. UNCHANGED <<at, file, next, configs>>
    BY <1>5 DEF ProxyLogs, vars, mainVars
  <2> QED
    BY <1>1, <2>1 DEF SettingsInv
<1> QED
  BY <1>2, <1>3, <1>4, <1>5 DEF Next, MainStep

\* When all lines are read, the settings are what the file says.
LEMMA SettingsSaid ==
  ASSUME SettingsInv, at # "file" \/ next > Len(file)
  PROVE  /\ file \in Files
         /\ \A key \in DOMAIN configs : /\ IsSequence(configs[key]) /\ Says(key, configs[key])
                                        /\ \E n \in DOMAIN file : /\ configs[key] \in Pieces(n)
                                                                  /\ Sets(file[n], key, configs[key])
         /\ \A n \in DOMAIN file : \A key, value :
              IsSequence(key) /\ IsSequence(value) /\ Sets(file[n], key, value) => key \in DOMAIN configs
         /\ \A key, value : IsSequence(key) /\ IsSequence(value) /\ Says(key, value) =>
              key \in DOMAIN configs /\ configs[key] = value
<1>1. file \in Files /\ Len(file) \in Nat /\ DOMAIN file = 1 .. Len(file)
  BY FileLines DEF SettingsInv
<1>2. SettingsRead(Len(file))
  <2>1. CASE at # "file"
    BY <2>1 DEF SettingsInv
  <2>2. CASE at = "file"
    <3>1. next \in 1 .. Len(file) + 1 /\ next > Len(file) /\ SettingsRead(next - 1)
      BY <2>2 DEF SettingsInv
    <3>2. next - 1 = Len(file)
      BY <1>1, <3>1
    <3> QED
      BY <3>1, <3>2
  <2> QED
    BY <2>1, <2>2
<1>3. \A n \in DOMAIN file :
        /\ \A piece \in Pieces(n) : IsSequence(piece)
        /\ \A key, value : IsSequence(key) /\ IsSequence(value) /\ Sets(file[n], key, value) =>
             Adds(file[n]) /\ key = Split(file[n])[1] /\ value = Split(file[n])[2]
        /\ Adds(file[n]) => Split(file[n])[1] \in Pieces(n) /\ Split(file[n])[2] \in Pieces(n)
  BY <1>1, LineSays
<1>4. \A key \in DOMAIN configs : \E n \in DOMAIN file :
        configs[key] \in Pieces(n) /\ SetsFirst(n, key, configs[key])
  BY <1>1, <1>2 DEF SettingsRead
<1>5. ASSUME NEW key \in DOMAIN configs
      PROVE  /\ IsSequence(configs[key]) /\ Says(key, configs[key])
             /\ \E n \in DOMAIN file : configs[key] \in Pieces(n) /\ Sets(file[n], key, configs[key])
  BY <1>3, <1>4 DEF Says, SetsFirst
<1>6. ASSUME NEW n \in DOMAIN file, NEW key, NEW value, IsSequence(key), IsSequence(value),
             Sets(file[n], key, value)
      PROVE  key \in DOMAIN configs /\ value \in Pieces(n)
  <2>1. key \in Pieces(n) /\ value \in Pieces(n)
    BY <1>3, <1>6
  <2> QED
    BY <1>1, <1>2, <1>6, <2>1 DEF SettingsRead
<1>7. ASSUME NEW key, NEW value, IsSequence(key), IsSequence(value), Says(key, value)
      PROVE  key \in DOMAIN configs /\ configs[key] = value
  <2>1. PICK n \in DOMAIN file : SetsFirst(n, key, value)
    BY <1>7 DEF Says
  <2>2. key \in DOMAIN configs
    BY <1>6, <1>7, <2>1 DEF SetsFirst
  <2>3. PICK m \in DOMAIN file : configs[key] \in Pieces(m) /\ SetsFirst(m, key, configs[key])
    BY <1>4, <2>2
  <2>4. value \in Pieces(n)
    BY <1>6, <1>7, <2>1 DEF SetsFirst
  <2>5. ~(n < m) /\ ~(m < n)
    BY <1>1, <2>1, <2>3, <2>4 DEF SetsFirst
  <2>6. n = m
    BY <1>1, <2>5
  <2>7. IsSequence(configs[key])
    BY <1>5, <2>2
  <2>8. value = Split(file[n])[2] /\ configs[key] = Split(file[n])[2]
    BY <1>3, <1>7, <2>1, <2>3, <2>6, <2>7 DEF SetsFirst
  <2> QED
    BY <2>2, <2>8
<1> QED
  BY <1>1, <1>5, <1>6, <1>7

\* Whatever the lines of the file are, the settings are what it says.
THEOREM SettingsAreRead == Spec => []SettingsAreTheFiles
<1>1. SettingsInv => SettingsAreTheFiles
  <2> SUFFICES ASSUME SettingsInv, at = "file", next > Len(file)
               PROVE  /\ \A key \in DOMAIN configs : Says(key, configs[key])
                      /\ \A n \in DOMAIN file : \A key, value \in Pieces(n) :
                           Says(key, value) => key \in DOMAIN configs /\ configs[key] = value
    BY DEF SettingsAreTheFiles
  <2>1. \A n \in DOMAIN file : \A piece \in Pieces(n) : IsSequence(piece)
    BY LineSays DEF SettingsInv
  <2> QED
    BY <2>1, SettingsSaid
<1> QED
  BY <1>1, InitSettings, NextSettings, PTL DEF Spec

-----------------------------------------------------------------------------
(* Starting and ending.                                                    *)

\* What main() and run() ask for.
Asked == {"log_path", "log_level", "log_file_size", "listen_ip", "listen_port", "io_threads", "type"}

\* atoi() returns a number.
LEMMA AtoiIsInt == \A value : Atoi(value) \in Int
BY NumeralAssumption DEF Atoi

\* What the settings read so far have to pass for the proxy of a transport.
Passes(transport) ==
  /\ \A name \in Asked : has(name)
  /\ get_int("io_threads") > 0
  /\ Transport(configs[Key("type")]) = transport
  /\ address(configs[Key("listen_ip")], get_int("listen_port")) \in Listenable[transport]

\* A proxy may run by the file if and only if the settings read from it pass.
LEMMA MayRunPasses ==
  ASSUME SettingsInv, at # "file" \/ next > Len(file), NEW transport
  PROVE  MayRun(transport) <=> Passes(transport)
<1>1. /\ file \in Files
      /\ \A key \in DOMAIN configs : /\ IsSequence(configs[key]) /\ Says(key, configs[key])
                                     /\ \E n \in DOMAIN file : /\ configs[key] \in Pieces(n)
                                                               /\ Sets(file[n], key, configs[key])
      /\ \A n \in DOMAIN file : \A key, value :
           IsSequence(key) /\ IsSequence(value) /\ Sets(file[n], key, value) => key \in DOMAIN configs
      /\ \A key, value : IsSequence(key) /\ IsSequence(value) /\ Says(key, value) =>
           key \in DOMAIN configs /\ configs[key] = value
  BY SettingsSaid
<1>2. \A n \in DOMAIN file : \A piece \in Pieces(n) : IsSequence(piece)
  BY <1>1, LineSays
<1>3. \A name : IsSequence(Key(name))
  <2>1. \A name : Key(name) \in Seq({name})
    BY DEF Key
  <2> QED
    BY <2>1 DEF IsSequence
<1>4. \A v \in Values : IsSequence(v)
  BY <1>2 DEF Values
<1>5. \A name : Given(name) <=> has(name)
  BY <1>1, <1>2, <1>3 DEF Given, has
<1>6. ASSUME NEW name, has(name)
      PROVE  /\ configs[Key(name)] \in Values
             /\ \A v \in Values : Says(Key(name), v) <=> v = configs[Key(name)]
  BY <1>1, <1>3, <1>4, <1>6 DEF has, Values
<1>7. ASSUME \A name \in Asked : has(name)
      PROVE  MayRun(transport) <=> Passes(transport)
  <2>1. \A name \in Asked : Given(name)
    BY <1>5, <1>7
  <2>2. (\E v \in Values : Says(Key("io_threads"), v) /\ Atoi(v) > 0) <=> get_int("io_threads") > 0
    BY <1>6, <1>7 DEF Asked, get_int
  <2>3. (\E v \in Values : Says(Key("type"), v) /\ Transport(v) = transport)
          <=> Transport(configs[Key("type")]) = transport
    BY <1>6, <1>7 DEF Asked
  <2>4. (\E ip \in Values : Says(Key("listen_ip"), ip) /\
           \E port \in Values : Says(Key("listen_port"), port) /\
             address(ip, Atoi(port)) \in Listenable[transport])
          <=> address(configs[Key("listen_ip")], get_int("listen_port")) \in Listenable[transport]
    BY <1>6, <1>7 DEF Asked, get_int
  <2> QED
    BY <1>7, <2>1, <2>2, <2>3, <2>4 DEF MayRun, Passes, Asked
<1>8. ASSUME ~\A name \in Asked : has(name)
      PROVE  ~MayRun(transport) /\ ~Passes(transport)
  BY <1>5, <1>8 DEF MayRun, Passes, Asked
<1> QED
  BY <1>7, <1>8

\* Nothing has been asked for at first.
LEMMA InitAsked == Init => AskedInv
BY DEF Init, AskedInv, Running

\* Every step keeps what has been asked for.
LEMMA NextAsked == AskedInv /\ [Next]_vars => AskedInv'
<1> SUFFICES ASSUME AskedInv, [Next]_vars PROVE AskedInv'
  OBVIOUS
<1>1. CASE ReadLine
  BY <1>1 DEF ReadLine, AskedInv, Running
<1>2. CASE InitLog
  BY <1>2 DEF InitLog, AskedInv, Running, has, get_int
<1>3. CASE ReadListenAddress
  BY <1>3 DEF ReadListenAddress, AskedInv, Running, has, get_int
<1>4. CASE ReadTarget
  BY <1>4 DEF ReadTarget, AskedInv, Running, has, get_int
<1>5. CASE RunManager
  BY <1>5 DEF RunManager, AskedInv, Running, has, get_int
<1>6. CASE ProxyLogs \/ UNCHANGED vars
  BY <1>6 DEF ProxyLogs, vars, mainVars, AskedInv, Running, has, get_int
<1> QED
  BY <1>1, <1>2, <1>3, <1>4, <1>5, <1>6 DEF Next, MainStep

\* A proxy starts only if it may run by the file, and the process ends only if none may.
LEMMA StartsOrEnds ==
  ASSUME SettingsInv, AskedInv, [Next]_vars, at' # at, NEW transport \in {"tcp", "udp"}
  PROVE  (at' = transport => MayRun(transport)) /\ (at' = "ended" => ~MayRun(transport))
<1>1. at # "file" \/ next > Len(file) => (MayRun(transport) <=> Passes(transport))
  BY MayRunPasses
<1>2. get_int("io_threads") \in Int
  BY AtoiIsInt DEF get_int
<1>3. CASE InitLog
  <2>1. next > Len(file) /\ at' # transport /\ (at' = "ended" => ~Passes(transport))
    BY <1>3 DEF InitLog, Passes, Asked
  <2> QED
    BY <1>1, <2>1
<1>4. CASE ReadListenAddress
  <2>1. at # "file" /\ at' # transport /\ (at' = "ended" => ~Passes(transport))
    BY <1>4 DEF ReadListenAddress, Passes, Asked
  <2> QED
    BY <1>1, <2>1
<1>5. CASE RunManager
  <2>1. /\ at = "manager" /\ has("log_path") /\ has("log_level") /\ has("log_file_size")
        /\ has("listen_ip") /\ has("listen_port")
        /\ listen = address(configs[Key("listen_ip")], get_int("listen_port"))
    BY <1>5 DEF RunManager, AskedInv
  <2> DEFINE type == configs[Key("type")]
  <2>2. Transport(type) \in {"tcp", "udp"}
    BY DEF Transport
  <2>3. Passes(transport) <=>
          /\ has("io_threads") /\ has("type") /\ ~CannotListen(Transport(type))
          /\ Transport(type) = transport
    BY <1>2, <2>1 DEF CannotListen, Passes, Asked
  <2>4. (at' = transport => Passes(transport)) /\ (at' = "ended" => ~Passes(transport))
    BY <1>5, <2>2, <2>3 DEF RunManager
  <2> QED
    BY <1>1, <2>1, <2>4
<1>6. CASE ReadTarget
  BY <1>6 DEF ReadTarget
<1>7. CASE ReadLine \/ ProxyLogs \/ UNCHANGED vars
  BY <1>7 DEF ReadLine, ProxyLogs, vars, mainVars
<1> QED
  BY <1>3, <1>4, <1>5, <1>6, <1>7 DEF Next, MainStep

\* The safety half of StartsIfComplete, for every file and host: a proxy starts only
\* with, and the process ends only without, all that is asked for and an address it
\* may listen on (config_file.h:36-39, switch_proxy.cpp:9-27, main.cpp:16-23,
\* tcp_switch_session_manager.cpp:6-7, udp_switch_session_manager.cpp:13-14).
THEOREM StartsOnlyAsTheFileSays == Spec => StartsOnlyIfMayRun
<1>1. SettingsInv /\ AskedInv /\ [Next]_vars =>
        [\A transport \in {"tcp", "udp"} :
           /\ at # transport /\ at' = transport => MayRun(transport)
           /\ at' = "ended" => ~MayRun(transport)]_at
  BY StartsOrEnds
<1> QED
  BY <1>1, InitSettings, NextSettings, InitAsked, NextAsked, PTL DEF Spec, StartsOnlyIfMayRun

-----------------------------------------------------------------------------
(* The targets.                                                            *)

Has(i) == {ip_key(i), port_key(i)} \subseteq DOMAIN configs
Rank(n, i) == Cardinality({j \in GivenBelow(n) : j <= i})

\* The numbers below n + 1 are those below n and n itself.
LEMMA GivenNext ==
  ASSUME NEW n \in Nat
  PROVE  /\ GivenBelow(0) = {}
         /\ GivenBelow(n + 1) = IF Has(n) THEN GivenBelow(n) \union {n} ELSE GivenBelow(n)
         /\ \A i \in GivenBelow(n) : i \in Nat /\ i < n
         /\ IsFiniteSet(GivenBelow(n)) /\ Cardinality(GivenBelow(n)) \in Nat
<1>1. /\ GivenBelow(0) = {}
      /\ \A i \in GivenBelow(n) : i \in Nat /\ i < n
  BY DEF GivenBelow
<1>2. GivenBelow(n + 1) = IF Has(n) THEN GivenBelow(n) \union {n} ELSE GivenBelow(n)
  <2>1. \A i : i \in 0 .. (n + 1) - 1 <=> i \in 0 .. n - 1 \/ i = n
    OBVIOUS
  <2> QED
    BY <2>1 DEF GivenBelow, Has
<1>3. IsFiniteSet(GivenBelow(n))
  <2>1. IsFiniteSet(0 .. n - 1)
    BY FS_Interval
  <2>2. GivenBelow(n) \subseteq 0 .. n - 1
    BY DEF GivenBelow
  <2> QED
    BY <2>1, <2>2, FS_Subset
<1> QED
  BY <1>1, <1>2, <1>3, FS_CardinalityType

\* The place of a number does not depend on those that come after it.
LEMMA RankNext ==
  ASSUME NEW n \in Nat
  PROVE  /\ \A i \in GivenBelow(n) : /\ Rank(n + 1, i) = Rank(n, i)
                                     /\ Rank(n, i) \in 1 .. Cardinality(GivenBelow(n))
         /\ Has(n) => /\ Rank(n + 1, n) = Cardinality(GivenBelow(n + 1))
                      /\ Cardinality(GivenBelow(n + 1)) = Cardinality(GivenBelow(n)) + 1
<1>1. /\ GivenBelow(n + 1) = IF Has(n) THEN GivenBelow(n) \union {n} ELSE GivenBelow(n)
      /\ \A i \in GivenBelow(n) : i \in Nat /\ i < n
      /\ IsFiniteSet(GivenBelow(n)) /\ Cardinality(GivenBelow(n)) \in Nat
  BY GivenNext
<1>2. ASSUME NEW i \in GivenBelow(n)
      PROVE  /\ Rank(n + 1, i) = Rank(n, i)
             /\ Rank(n, i) \in 1 .. Cardinality(GivenBelow(n))
  <2> DEFINE upTo == {j \in GivenBelow(n) : j <= i}
  <2>1. {j \in GivenBelow(n + 1) : j <= i} = upTo
    BY <1>1
  <2>2. IsFiniteSet(upTo) /\ Cardinality(upTo) <= Cardinality(GivenBelow(n))
    <3>1. upTo \in SUBSET GivenBelow(n)
      OBVIOUS
    <3> QED
      BY <1>1, <3>1, FS_Subset
  <2>3. i \in upTo
    BY <1>1
  <2>4. Cardinality(upTo) \in Nat /\ Cardinality(upTo) # 0
    <3> HIDE DEF upTo
    <3> QED
      BY <2>2, <2>3, FS_CardinalityType, FS_EmptySet
  <2> QED
    BY <1>1, <2>1, <2>2, <2>4 DEF Rank
<1>3. ASSUME Has(n)
      PROVE  /\ Rank(n + 1, n) = Cardinality(GivenBelow(n + 1))
             /\ Cardinality(GivenBelow(n + 1)) = Cardinality(GivenBelow(n)) + 1
  <2>1. {j \in GivenBelow(n + 1) : j <= n} = GivenBelow(n + 1)
    BY <1>1, <1>3
  <2>2. n \notin GivenBelow(n)
    BY <1>1
  <2> QED
    BY <1>1, <1>3, <2>1, <2>2, FS_AddElement DEF Rank
<1> QED
  BY <1>2, <1>3

\* A round of the loop reads the target of its number.
LEMMA ReadTargetKeeps ==
  ASSUME MainInv, IsSequence(targets), ReadTarget
  PROVE  MainInv' /\ IsSequence(targets')
<1>1. at = "targets" /\ next \in 0 .. 99 /\ TargetsRead(next) /\ next' = next + 1 /\ configs' = configs
  BY DEF ReadTarget, MainInv, TargetNumbers
<1>2. PICK n \in Nat : n = next
  BY <1>1
<1>3. /\ \A i \in GivenBelow(n) : /\ Rank(n + 1, i) = Rank(n, i)
                                  /\ Rank(n, i) \in 1 .. Cardinality(GivenBelow(n))
      /\ Has(n) => /\ Rank(n + 1, n) = Cardinality(GivenBelow(n + 1))
                   /\ Cardinality(GivenBelow(n + 1)) = Cardinality(GivenBelow(n)) + 1
      /\ GivenBelow(n + 1) = IF Has(n) THEN GivenBelow(n) \union {n} ELSE GivenBelow(n)
      /\ Cardinality(GivenBelow(n)) \in Nat
  BY RankNext, GivenNext
<1>4. /\ Len(targets) = Cardinality(GivenBelow(n))
      /\ \A i \in GivenBelow(n) :
           targets[Rank(n, i)] = address(configs[ip_key(i)], Atoi(configs[port_key(i)]))
  BY <1>1, <1>2 DEF TargetsRead, Rank
<1>5. targets' = IF Has(n)
                 THEN Append(targets, address(configs[ip_key(n)], Atoi(configs[port_key(n)])))
                 ELSE targets
  BY <1>2 DEF ReadTarget, Has
<1>6. /\ IsSequence(targets')
      /\ Len(targets') = Cardinality(GivenBelow(n + 1))
      /\ \A i \in GivenBelow(n + 1) :
           targets'[Rank(n + 1, i)] = address(configs[ip_key(i)], Atoi(configs[port_key(i)]))
  <2>1. CASE ~Has(n)
    BY <1>3, <1>4, <1>5, <2>1
  <2>2. CASE Has(n)
    <3> DEFINE target == address(configs[ip_key(n)], Atoi(configs[port_key(n)]))
    <3>1. /\ IsSequence(Append(targets, target))
          /\ Len(targets) \in Nat /\ Len(Append(targets, target)) = Len(targets) + 1
          /\ Append(targets, target)[Len(targets) + 1] = target
          /\ \A i \in 1 .. Len(targets) : Append(targets, target)[i] = targets[i]
      BY AppendToSequence
    <3>2. targets' = Append(targets, target)
      BY <1>5, <2>2
    <3>3. Rank(n + 1, n) = Len(targets) + 1
      BY <1>3, <1>4, <2>2
    <3>4. \A i \in GivenBelow(n) : targets'[Rank(n + 1, i)] = targets[Rank(n, i)]
      BY <1>3, <1>4, <3>1, <3>2
    <3>5. targets'[Rank(n + 1, n)] = target
      BY <3>1, <3>2, <3>3
    <3> QED
      BY <1>3, <1>4, <2>2, <3>1, <3>2, <3>4, <3>5
  <2> QED
    BY <2>1, <2>2
<1>7. TargetsRead(next)'
  <2>1. \A m : GivenBelow(m)' = GivenBelow(m)
    BY <1>1 DEF GivenBelow
  <2>2. GivenBelow(next)' = GivenBelow(n + 1)
    BY <1>1, <1>2, <2>1 DEF GivenBelow
  <2> QED
    BY <1>1, <1>6, <2>2 DEF TargetsRead, Rank
<1>8. at' \in {"targets", "manager"} /\ (at' = "targets" => next' \in 0 .. 99) /\ (at' = "manager" => next' = 100)
  BY <1>1 DEF ReadTarget, TargetNumbers
<1> QED
  BY <1>6, <1>7, <1>8 DEF MainInv, TargetNumbers

LEMMA InitMain == Init => MainInv /\ IsSequence(targets)
BY EmptyIsSequence DEF Init, MainInv

LEMMA NextMain ==
  ASSUME MainInv, IsSequence(targets), [Next]_vars
  PROVE  MainInv' /\ IsSequence(targets')
<1>1. CASE UNCHANGED mainVars
  <2>1. \A m : GivenBelow(m)' = GivenBelow(m)
    BY <1>1 DEF GivenBelow, mainVars
  <2>2. TargetsRead(next) => TargetsRead(next)'
    BY <1>1, <2>1 DEF TargetsRead, GivenBelow, mainVars
  <2> QED
    BY <1>1, <2>2 DEF MainInv, mainVars
<1>2. CASE ReadLine \/ InitLog
  BY <1>2 DEF ReadLine, InitLog, MainInv
<1>3. CASE ReadListenAddress
  <2>1. targets = <<>> /\ targets' = targets /\ next = 0 /\ next' = 0
        /\ at' \in {"targets", "ended"}
    BY <1>3 DEF ReadListenAddress, MainInv
  <2>2. GivenBelow(next)' = {}
    BY <2>1 DEF GivenBelow
  <2>3. TargetsRead(next)'
    BY <2>1, <2>2, FS_EmptySet DEF TargetsRead
  <2> QED
    BY <2>1, <2>3 DEF MainInv, TargetNumbers
<1>4. CASE ReadTarget
  BY <1>4, ReadTargetKeeps
<1>5. CASE RunManager
  BY <1>5 DEF RunManager, Transport, MainInv
<1> QED
  BY <1>1, <1>2, <1>3, <1>4, <1>5 DEF Next, MainStep, ProxyLogs, vars

\* The proxy forwards to the target of every number that has an address and a port,
\* in their order (switch_proxy.cpp:37-47).
THEOREM TargetsAreRead == Spec => []TargetsAreTheFiles
<1>1. MainInv => TargetsAreTheFiles
  <2> SUFFICES ASSUME MainInv, at = "manager" PROVE TargetsAreTheFiles
    BY DEF TargetsAreTheFiles
  <2> DEFINE given == {i \in 0 .. 99 : {ip_key(i), port_key(i)} \subseteq DOMAIN configs}
  <2>1. next = 100 /\ TargetsRead(next)
    BY DEF MainInv
  <2>2. GivenBelow(next) = given
    <3>1. next - 1 = 99
      BY <2>1
    <3> QED
      BY <3>1 DEF GivenBelow
  <2>3. \A ip, port : /\ address(ip, port).ip = ip
                      /\ port \in Ports => address(ip, port).port = port
    <3>1. \A port \in Ports : port % 65536 = port
      BY DEF Ports
    <3> QED
      BY <3>1 DEF address
  <2>4. /\ Len(targets) = Cardinality(given)
        /\ \A i \in given :
             targets[Cardinality({j \in given : j <= i})]
               = address(configs[ip_key(i)], Atoi(configs[port_key(i)]))
    BY <2>1, <2>2 DEF TargetsRead
  <2> HIDE DEF given
  <2>5. \A i \in given :
          LET target == targets[Cardinality({j \in given : j <= i})]
              port   == Atoi(configs[port_key(i)])
          IN target.ip = configs[ip_key(i)] /\ (port \in Ports => target.port = port)
    BY <2>3, <2>4
  <2> QED
    BY <2>4, <2>5 DEF TargetsAreTheFiles, given
<1>2. MainInv /\ IsSequence(targets) /\ [Next]_vars => (MainInv /\ IsSequence(targets))'
  BY NextMain DEF IsSequence
<1> QED
  BY <1>1, <1>2, InitMain, PTL DEF Spec

-----------------------------------------------------------------------------
(* What format() makes of a text.                                          *)

\* What is copied after the i-th token, if copy is what is copied before it.
CopyNext(str, args, copy, i) ==
  IF copy.pos > Len(args) \/ IsPlaceholder(str, i - 1) THEN copy
  ELSE IF IsPlaceholder(str, i)
       THEN [buf |-> Append(copy.buf, NextArg(copy, args)), pos |-> copy.pos + 1]
       ELSE [copy EXCEPT !.buf = Append(@, str[i])]

CopyOf(str, args, p, i) ==
  IF i = 0 THEN [buf |-> <<>>, pos |-> 0] ELSE CopyNext(str, args, p[i - 1], i)

Copies(str, args) == CHOOSE p : p = [i \in 0 .. Len(str) |-> CopyOf(str, args, p, i)]

\* The recursive function in format() under a name of its own.
LEMMA FormatCopies ==
  \A str, args : Format(str, args) = IF args = <<>> THEN str ELSE Copies(str, args)[Len(str)].buf
BY DEF Format, Copies, CopyOf, CopyNext

\* format() is defined: what is copied follows from what is copied before.
LEMMA CopiesDefined ==
  ASSUME NEW str, NEW args, Len(str) \in Nat
  PROVE  \A i \in 0 .. Len(str) : Copies(str, args)[i] = CopyOf(str, args, Copies(str, args), i)
<1> DEFINE n == Len(str)
           solved(k) == \E p : \A i \in 0 .. k : p[i] = CopyOf(str, args, p, i)
           numbers == {k \in 0 .. n : solved(k)}
<1>1. \A p, q : \A i \in Nat :
        (i # 0 => p[i - 1] = q[i - 1]) => CopyOf(str, args, p, i) = CopyOf(str, args, q, i)
  BY DEF CopyOf
<1>2. 0 \in numbers
  <2>1. PICK p : p = [i \in 0 .. 0 |-> CopyOf(str, args, <<>>, i)]
    OBVIOUS
  <2>2. \A i \in 0 .. 0 : p[i] = CopyOf(str, args, p, i)
    BY <2>1, <1>1
  <2> QED
    BY <2>2
<1>3. ASSUME NEW k \in 0 .. n - 1, k \in numbers PROVE k + 1 \in numbers
  <2>1. PICK p : \A i \in 0 .. k : p[i] = CopyOf(str, args, p, i)
    BY <1>3
  <2> DEFINE q == [i \in 0 .. k + 1 |-> IF i = k + 1 THEN CopyOf(str, args, p, i) ELSE p[i]]
  <2>2. q[k + 1] = CopyOf(str, args, p, k + 1) /\ \A i \in 0 .. k : q[i] = p[i]
    OBVIOUS
  <2> HIDE DEF q
  <2>3. ASSUME NEW i \in 0 .. k + 1 PROVE q[i] = CopyOf(str, args, q, i)
    <3>1. i \in Nat /\ (i # 0 => i - 1 \in 0 .. k)
      OBVIOUS
    <3>2. CopyOf(str, args, q, i) = CopyOf(str, args, p, i)
      BY <1>1, <2>2, <3>1
    <3>3. CASE i = k + 1
      BY <2>2, <3>2, <3>3
    <3>4. CASE i \in 0 .. k
      BY <2>1, <2>2, <3>2, <3>4
    <3> QED
      BY <3>3, <3>4
  <2> QED
    BY <2>3
<1>4. n \in numbers
  <2> HIDE DEF n, numbers
  <2>1. n \in Nat
    BY DEF n
  <2>2. \A k \in 0 .. n : k \in numbers
    BY <1>2, <1>3, <2>1, CountingUp
  <2> QED
    BY <2>1, <2>2
<1>5. PICK p : \A i \in 0 .. n : p[i] = CopyOf(str, args, p, i)
  BY <1>4
<1> DEFINE q == [i \in 0 .. n |-> p[i]]
<1>6. q = [i \in 0 .. n |-> CopyOf(str, args, q, i)]
  <2>1. \A i \in 0 .. n : CopyOf(str, args, q, i) = CopyOf(str, args, p, i)
    <3>1. \A i \in 0 .. n : i \in Nat /\ (i # 0 => q[i - 1] = p[i - 1])
      OBVIOUS
    <3> QED
      BY <1>1, <3>1
  <2> QED
    BY <1>5, <2>1
<1>7. PICK s : s = Copies(str, args)
  OBVIOUS
<1>8. s = [i \in 0 .. n |-> CopyOf(str, args, s, i)]
  <2> HIDE DEF q
  <2> QED
    BY <1>6, <1>7 DEF Copies
<1> QED
  BY <1>7, <1>8

Holes(str) == {i \in 1 .. Len(str) : IsPlaceholder(str, i)}

\* The number of the placeholders before the i-th token.
Before(str, i) == Cardinality({h \in Holes(str) : h < i})

\* Placeholders do not overlap, and their number grows by one at each.
LEMMA CountHoles ==
  ASSUME NEW str, Len(str) \in Nat
  PROVE  /\ IsFiniteSet(Holes(str)) /\ Cardinality(Holes(str)) = Before(str, Len(str))
         /\ Before(str, 0) = 0 /\ Before(str, 1) = 0
         /\ \A i \in 1 .. Len(str) :
              /\ Before(str, i) \in Nat
              /\ Before(str, i + 1) = Before(str, i) + (IF IsPlaceholder(str, i) THEN 1 ELSE 0)
              /\ IsPlaceholder(str, i - 1) => ~IsPlaceholder(str, i)
         /\ ~IsPlaceholder(str, 0) /\ ~IsPlaceholder(str, Len(str))
<1>1. IsFiniteSet(Holes(str)) /\ \A h \in Holes(str) : h \in 1 .. Len(str) - 1
  <2>1. IsFiniteSet(1 .. Len(str)) /\ Holes(str) \subseteq 1 .. Len(str)
    BY FS_Interval DEF Holes
  <2> QED
    BY <2>1, FS_Subset DEF Holes, IsPlaceholder
<1>2. Cardinality(Holes(str)) = Before(str, Len(str))
  <2>1. {h \in Holes(str) : h < Len(str)} = Holes(str)
    BY <1>1
  <2> QED
    BY <2>1 DEF Before
<1>3. Before(str, 0) = 0 /\ Before(str, 1) = 0
  <2>1. {h \in Holes(str) : h < 0} = {} /\ {h \in Holes(str) : h < 1} = {}
    BY <1>1
  <2> QED
    BY <2>1, FS_EmptySet DEF Before
<1>4. ASSUME NEW i \in 1 .. Len(str)
      PROVE  /\ Before(str, i) \in Nat
             /\ Before(str, i + 1) = Before(str, i) + (IF IsPlaceholder(str, i) THEN 1 ELSE 0)
  <2> DEFINE below == {h \in Holes(str) : h < i}
  <2>1. IsFiniteSet(below) /\ i \notin below
    BY <1>1, FS_Subset
  <2>2. {h \in Holes(str) : h < i + 1} = IF IsPlaceholder(str, i) THEN below \union {i} ELSE below
    <3>1. \A h \in Holes(str) : h < i + 1 <=> h < i \/ h = i
      BY <1>1
    <3>2. i \in Holes(str) <=> IsPlaceholder(str, i)
      BY DEF Holes
    <3> QED
      BY <3>1, <3>2
  <2>3. Before(str, i) = Cardinality(below)
    BY DEF Before
  <2> HIDE DEF below
  <2>4. Cardinality(below) \in Nat /\ Cardinality(below \union {i}) = Cardinality(below) + 1
    BY <2>1, FS_CardinalityType, FS_AddElement
  <2>5. Before(str, i + 1) = Cardinality({h \in Holes(str) : h < i + 1})
    BY DEF Before
  <2>6. CASE IsPlaceholder(str, i)
    <3>1. {h \in Holes(str) : h < i + 1} = below \union {i}
      BY <2>2, <2>6
    <3> QED
      BY <2>3, <2>4, <2>5, <2>6, <3>1
  <2>7. CASE ~IsPlaceholder(str, i)
    <3>1. {h \in Holes(str) : h < i + 1} = below
      BY <2>2, <2>7
    <3>2. Before(str, i + 1) = Before(str, i)
      BY <2>3, <2>5, <3>1
    <3>3. Before(str, i) \in Nat
      BY <2>3, <2>4
    <3> QED
      BY <2>7, <3>2, <3>3
  <2> QED
    BY <2>6, <2>7
<1>5. ASSUME NEW i \in 1 .. Len(str), IsPlaceholder(str, i - 1), IsPlaceholder(str, i) PROVE FALSE
  <2>1. (i - 1) + 1 = i
    OBVIOUS
  <2>2. str[(i - 1) + 1] = "}" /\ str[i] = "{"
    BY <1>5 DEF IsPlaceholder
  <2> QED
    BY <2>1, <2>2
<1>6. ~IsPlaceholder(str, 0) /\ ~IsPlaceholder(str, Len(str))
  <2>1. 0 \notin 1 .. Len(str) - 1 /\ Len(str) \notin 1 .. Len(str) - 1
    OBVIOUS
  <2> QED
    BY <2>1 DEF IsPlaceholder
<1> QED
  BY <1>1, <1>2, <1>3, <1>4, <1>5, <1>6

Holds(s, e) == e \in {s[i] : i \in DOMAIN s}

\* Whether the placeholders up to the i-th token are replaced in copy, and the rest is
\* where it was; or there are more than arguments.
Copied(str, args, copy, i) ==
  /\ copy = [buf |-> copy.buf, pos |-> copy.pos] /\ IsSequence(copy.buf)
  /\ IF Before(str, i + 1) > Len(args)
     THEN copy.pos = Len(args) + 1 /\ Holds(copy.buf, OutOfRange)
     ELSE /\ copy.pos = Before(str, i + 1) /\ ~Holds(copy.buf, OutOfRange)
          /\ Len(copy.buf) = i - Before(str, i)
          /\ \A j \in 1 .. i : IsPlaceholder(str, j) \/ ~IsPlaceholder(str, j - 1) =>
               /\ j - Before(str, j) \in 1 .. Len(copy.buf)
               /\ copy.buf[j - Before(str, j)] =
                    IF IsPlaceholder(str, j) THEN args[Before(str, j) + 1] ELSE str[j]

\* What a sequence holds after one more element.
LEMMA HoldsNext ==
  ASSUME NEW s, IsSequence(s), NEW e, NEW x
  PROVE  Holds(Append(s, e), x) <=> Holds(s, x) \/ x = e
<1>1. PICK t : t = Append(s, e)
  OBVIOUS
<1>2. /\ Len(s) \in Nat /\ DOMAIN s = 1 .. Len(s) /\ DOMAIN t = 1 .. Len(s) + 1
      /\ t[Len(s) + 1] = e /\ \A i \in 1 .. Len(s) : t[i] = s[i]
  BY <1>1, AppendToSequence
<1>3. \A i : i \in 1 .. Len(s) + 1 <=> i \in 1 .. Len(s) \/ i = Len(s) + 1
  BY <1>2
<1> QED
  BY <1>1, <1>2, <1>3 DEF Holds

\* The next token is copied to its place, or replaced by its argument, or skipped.
LEMMA CopyKeeps ==
  ASSUME NEW str, NEW args, Len(str) \in Nat, Len(args) \in Nat,
         ~Holds(str, OutOfRange), ~Holds(args, OutOfRange),
         DOMAIN str = 1 .. Len(str), DOMAIN args = 1 .. Len(args),
         NEW i \in 1 .. Len(str), NEW copy, Copied(str, args, copy, i - 1)
  PROVE  Copied(str, args, CopyNext(str, args, copy, i), i)
<1> DEFINE hole(j) == IsPlaceholder(str, j)
           u(j) == Before(str, j)
<1>1. PICK made : made = CopyNext(str, args, copy, i)
  OBVIOUS
<1>2. PICK buf, pos : buf = copy.buf /\ pos = copy.pos
  OBVIOUS
<1>3. /\ u(0) = 0 /\ u(1) = 0
      /\ \A j \in 1 .. Len(str) : /\ u(j) \in Nat
                                  /\ u(j + 1) = u(j) + (IF hole(j) THEN 1 ELSE 0)
                                  /\ hole(j - 1) => ~hole(j)
      /\ ~hole(0) /\ ~hole(Len(str))
  BY CountHoles
<1>4. (i - 1) + 1 = i
  OBVIOUS
<1> HIDE DEF hole, u
<1>5. /\ u(i) = u(i - 1) + (IF hole(i - 1) THEN 1 ELSE 0) /\ u(i - 1) \in Nat /\ u(i) \in Nat
      /\ u(i + 1) = u(i) + (IF hole(i) THEN 1 ELSE 0) /\ u(i + 1) \in Nat
      /\ hole(i - 1) => ~hole(i)
  <2>1. CASE i = 1
    BY <1>3, <2>1
  <2>2. CASE i # 1
    <3>1. i - 1 \in 1 .. Len(str)
      BY <2>2
    <3> QED
      BY <1>3, <1>4, <3>1
  <2> QED
    BY <2>1, <2>2
<1>6. /\ copy = [buf |-> buf, pos |-> pos] /\ IsSequence(buf)
      /\ u(i) > Len(args) => pos = Len(args) + 1 /\ Holds(buf, OutOfRange)
      /\ ~(u(i) > Len(args)) =>
           /\ pos = u(i) /\ ~Holds(buf, OutOfRange)
           /\ Len(buf) = i - 1 - u(i - 1)
           /\ \A j \in 1 .. i - 1 : hole(j) \/ ~hole(j - 1) =>
                /\ j - u(j) \in 1 .. Len(buf)
                /\ buf[j - u(j)] = IF hole(j) THEN args[u(j) + 1] ELSE str[j]
  BY <1>2, <1>4 DEF Copied, u, hole
<1>7. Copied(str, args, made, i) <=>
        /\ made = [buf |-> made.buf, pos |-> made.pos] /\ IsSequence(made.buf)
        /\ u(i + 1) > Len(args) => made.pos = Len(args) + 1 /\ Holds(made.buf, OutOfRange)
        /\ ~(u(i + 1) > Len(args)) =>
             /\ made.pos = u(i + 1) /\ ~Holds(made.buf, OutOfRange)
             /\ Len(made.buf) = i - u(i)
             /\ \A j \in 1 .. i : hole(j) \/ ~hole(j - 1) =>
                  /\ j - u(j) \in 1 .. Len(made.buf)
                  /\ made.buf[j - u(j)] = IF hole(j) THEN args[u(j) + 1] ELSE str[j]
  BY DEF Copied, u, hole
<1>8. /\ pos > Len(args) \/ hole(i - 1) => made = copy
      /\ ~(pos > Len(args)) /\ ~hole(i - 1) /\ hole(i) =>
           made = [buf |-> Append(buf, NextArg(copy, args)), pos |-> pos + 1]
      /\ ~(pos > Len(args)) /\ ~hole(i - 1) /\ ~hole(i) =>
           made = [buf |-> Append(buf, str[i]), pos |-> pos]
  <2>1. /\ pos > Len(args) \/ hole(i - 1) => made = copy
        /\ ~(pos > Len(args)) /\ ~hole(i - 1) /\ hole(i) =>
             made = [buf |-> Append(buf, NextArg(copy, args)), pos |-> pos + 1]
        /\ ~(pos > Len(args)) /\ ~hole(i - 1) /\ ~hole(i) =>
             made = [copy EXCEPT !.buf = Append(buf, str[i])]
    BY <1>1, <1>2 DEF CopyNext, hole
  <2> QED
    BY <1>6, <2>1
<1>9. \A j : j \in 1 .. i <=> j \in 1 .. i - 1 \/ j = i
  OBVIOUS
<1>10. CASE u(i) > Len(args)
  <2>1. made = copy /\ u(i + 1) > Len(args)
    BY <1>5, <1>6, <1>8, <1>10
  <2> QED
    BY <1>1, <1>2, <1>6, <1>7, <1>10, <2>1
<1>11. CASE ~(u(i) > Len(args)) /\ hole(i - 1)
  <2>1. made = copy /\ u(i + 1) = u(i) /\ u(i - 1) + 1 = u(i) /\ ~hole(i)
    BY <1>5, <1>8, <1>11
  <2>2. i - 1 - u(i - 1) = i - u(i)
    BY <1>5, <2>1
  <2>3. \A j \in 1 .. i : hole(j) \/ ~hole(j - 1) => j \in 1 .. i - 1
    BY <1>9, <1>11, <2>1
  <2> QED
    BY <1>1, <1>2, <1>6, <1>7, <1>11, <2>1, <2>2, <2>3
<1>12. ASSUME ~(u(i) > Len(args)), ~hole(i - 1),
              NEW e, made.buf = Append(buf, e), made = [buf |-> made.buf, pos |-> made.pos],
              made.pos = u(i + 1), u(i + 1) <= Len(args) + 1,
              u(i + 1) <= Len(args) => e = IF hole(i) THEN args[u(i) + 1] ELSE str[i],
              u(i + 1) > Len(args) <=> e = OutOfRange
       PROVE  Copied(str, args, made, i)
  <2>1. /\ IsSequence(made.buf) /\ Len(buf) \in Nat /\ Len(made.buf) = Len(buf) + 1
        /\ made.buf[Len(buf) + 1] = e /\ \A j \in 1 .. Len(buf) : made.buf[j] = buf[j]
    BY <1>6, <1>12, AppendToSequence
  <2>2. Holds(made.buf, OutOfRange) <=> u(i + 1) > Len(args)
    BY <1>6, <1>12, HoldsNext
  <2>3. Len(buf) = i - 1 - u(i - 1) /\ u(i) = u(i - 1) /\ Len(buf) + 1 = i - u(i)
    BY <1>5, <1>6, <1>12
  <2>4. u(i + 1) > Len(args) => made.pos = Len(args) + 1
    BY <1>5, <1>12
  <2>5. ASSUME ~(u(i + 1) > Len(args)), NEW j \in 1 .. i, hole(j) \/ ~hole(j - 1)
        PROVE  /\ j - u(j) \in 1 .. Len(made.buf)
               /\ made.buf[j - u(j)] = IF hole(j) THEN args[u(j) + 1] ELSE str[j]
    <3>1. CASE j = i
      <4>1. j - u(j) = Len(buf) + 1
        BY <2>3, <3>1
      <4>2. e = IF hole(j) THEN args[u(j) + 1] ELSE str[j]
        BY <1>5, <1>12, <2>5, <3>1
      <4> QED
        BY <2>1, <4>1, <4>2
    <3>2. CASE j \in 1 .. i - 1
      <4>1. /\ j - u(j) \in 1 .. Len(buf)
            /\ buf[j - u(j)] = IF hole(j) THEN args[u(j) + 1] ELSE str[j]
        BY <1>6, <1>12, <2>5, <3>2
      <4> QED
        BY <2>1, <4>1
    <3> QED
      BY <1>9, <3>1, <3>2
  <2> QED
    BY <1>7, <1>12, <2>1, <2>2, <2>3, <2>4, <2>5
<1>13. CASE ~(u(i) > Len(args)) /\ ~hole(i - 1) /\ hole(i)
  <2>1. PICK e : e = NextArg(copy, args)
    OBVIOUS
  <2>2. pos = u(i) /\ u(i + 1) = u(i) + 1 /\ u(i) <= Len(args)
    BY <1>5, <1>6, <1>13
  <2>3. made.buf = Append(buf, e) /\ made.pos = u(i + 1) /\ made = [buf |-> made.buf, pos |-> made.pos]
    BY <1>8, <1>13, <2>1, <2>2
  <2>4. e = IF u(i) < Len(args) THEN args[u(i) + 1] ELSE OutOfRange
    BY <1>2, <2>1, <2>2 DEF NextArg
  <2>5. u(i) < Len(args) => args[u(i) + 1] # OutOfRange
    <3>1. u(i) < Len(args) => u(i) + 1 \in DOMAIN args
      BY <1>5
    <3> QED
      BY <3>1 DEF Holds
  <2>6. u(i + 1) <= Len(args) <=> u(i) < Len(args)
    BY <1>5, <2>2
  <2>7. /\ u(i + 1) <= Len(args) => e = args[u(i) + 1]
        /\ u(i + 1) > Len(args) <=> e = OutOfRange
        /\ u(i + 1) <= Len(args) + 1
    BY <1>5, <2>2, <2>4, <2>5, <2>6
  <2> QED
    BY <1>1, <1>12, <1>13, <2>3, <2>7
<1>14. CASE ~(u(i) > Len(args)) /\ ~hole(i - 1) /\ ~hole(i)
  <2>1. pos = u(i) /\ u(i + 1) = u(i) /\ u(i) <= Len(args)
    BY <1>5, <1>6, <1>14
  <2>2. made.buf = Append(buf, str[i]) /\ made.pos = u(i + 1) /\ made = [buf |-> made.buf, pos |-> made.pos]
    BY <1>8, <1>14, <2>1
  <2>3. str[i] # OutOfRange
    BY DEF Holds
  <2>4. u(i + 1) <= Len(args) + 1 /\ ~(u(i + 1) > Len(args))
    BY <1>5, <2>1
  <2> QED
    BY <1>1, <1>12, <1>14, <2>2, <2>3, <2>4
<1> QED
  BY <1>1, <1>10, <1>11, <1>13, <1>14

\* What format() promises: every placeholder is replaced by its own argument and the
\* rest is where it was; or there are too few arguments, and it throws.
HolesFor(str, args) == IF args = <<>> THEN {} ELSE {i \in DOMAIN str : IsPlaceholder(str, i)}

TooFew(str, args) == Cardinality(HolesFor(str, args)) > Len(args)

Replaced(str, args, line) ==
  LET holes == HolesFor(str, args)
      before(i) == Cardinality({h \in holes : h < i})
  IN /\ Len(line) = Len(str) - Cardinality(holes)
     /\ \A i \in holes : line[i - before(i)] = args[before(i) + 1]
     /\ \A i \in DOMAIN str : i \notin holes /\ i - 1 \notin holes =>
          line[i - before(i)] = str[i]

FormattedAs(str, args, line) ==
  /\ TooFew(str, args) <=> Holds(line, OutOfRange)
  /\ ~TooFew(str, args) => Replaced(str, args, line)

\* format() does what it promises.
LEMMA Formatted ==
  ASSUME NEW str, NEW args, IsText(str), IsText(args),
         ~Holds(str, OutOfRange), ~Holds(args, OutOfRange)
  PROVE  FormattedAs(str, args, Format(str, args))
<1>1. /\ Len(str) \in Nat /\ DOMAIN str = 1 .. Len(str)
      /\ Len(args) \in Nat /\ DOMAIN args = 1 .. Len(args)
  BY DEF IsText
<1>2. CASE args = <<>>
  <2>1. Format(str, args) = str /\ Len(args) = 0
    BY <1>2, FormatCopies
  <2>2. Cardinality({}) = 0 /\ \A i : {h \in {} : h < i} = {}
    BY FS_EmptySet
  <2>3. \A i \in DOMAIN str : i - 0 = i
    BY <1>1
  <2>4. HolesFor(str, args) = {}
    BY <1>2 DEF HolesFor
  <2>5. ~TooFew(str, args)
    BY <2>1, <2>2, <2>4 DEF TooFew
  <2>6. Replaced(str, args, str)
    BY <1>1, <2>2, <2>3, <2>4 DEF Replaced
  <2> QED
    BY <2>1, <2>5, <2>6 DEF FormattedAs
<1>3. CASE args # <<>>
  <2> DEFINE p == Copies(str, args)
             good(i) == Copied(str, args, p[i], i)
             numbers == {i \in 0 .. Len(str) : good(i)}
  <2>1. /\ Before(str, 0) = 0 /\ Before(str, 1) = 0
        /\ Cardinality(Holes(str)) = Before(str, Len(str))
        /\ Before(str, Len(str)) \in Nat /\ Before(str, Len(str) + 1) = Before(str, Len(str))
        /\ ~IsPlaceholder(str, 0)
    <3>1. /\ Before(str, 0) = 0 /\ Before(str, 1) = 0
          /\ Cardinality(Holes(str)) = Before(str, Len(str))
          /\ \A i \in 1 .. Len(str) :
               /\ Before(str, i) \in Nat
               /\ Before(str, i + 1) = Before(str, i) + (IF IsPlaceholder(str, i) THEN 1 ELSE 0)
          /\ ~IsPlaceholder(str, Len(str)) /\ ~IsPlaceholder(str, 0)
      BY <1>1, CountHoles
    <3>2. CASE Len(str) = 0
      BY <3>1, <3>2
    <3>3. CASE Len(str) \in 1 .. Len(str)
      BY <3>1, <3>3
    <3> QED
      BY <1>1, <3>1, <3>2, <3>3
  <2>2. 0 \in numbers
    <3>1. p[0] = [buf |-> <<>>, pos |-> 0]
      BY <1>1, CopiesDefined DEF CopyOf
    <3>2. Len(<<>>) = 0 /\ ~Holds(<<>>, OutOfRange) /\ IsSequence(<<>>)
      <4>1. Len(<<>>) = 0 /\ DOMAIN <<>> = {}
        OBVIOUS
      <4> QED
        BY <4>1, EmptyIsSequence DEF Holds
    <3> HIDE DEF p
    <3>3. good(0)
      BY <1>1, <2>1, <3>1, <3>2 DEF Copied
    <3> QED
      BY <1>1, <3>3
  <2>3. ASSUME NEW i \in 0 .. Len(str) - 1, i \in numbers PROVE i + 1 \in numbers
    <3>1. PICK j \in 1 .. Len(str) : j = i + 1 /\ i = j - 1
      BY <1>1
    <3>2. p[j] = CopyNext(str, args, p[j - 1], j)
      <4>1. j \in 0 .. Len(str) /\ j # 0
        BY <1>1
      <4> QED
        BY <1>1, <4>1, CopiesDefined DEF CopyOf
    <3> HIDE DEF p
    <3>3. Copied(str, args, p[j - 1], j - 1)
      BY <2>3, <3>1
    <3>4. good(j)
      BY <1>1, <3>2, <3>3, CopyKeeps
    <3> QED
      BY <3>1, <3>4
  <2>4. good(Len(str))
    <3> HIDE DEF numbers
    <3>1. \A i \in 0 .. Len(str) : i \in numbers
      BY <1>1, <2>2, <2>3, CountingUp
    <3> QED
      BY <1>1, <3>1 DEF numbers
  <2>5. PICK line : line = p[Len(str)].buf
    OBVIOUS
  <2>6. Format(str, args) = line
    BY <1>3, <2>5, FormatCopies
  <2> HIDE DEF p
  <2>7. /\ Before(str, Len(str)) > Len(args) => Holds(line, OutOfRange)
        /\ ~(Before(str, Len(str)) > Len(args)) =>
             /\ ~Holds(line, OutOfRange)
             /\ Len(line) = Len(str) - Before(str, Len(str))
             /\ \A j \in 1 .. Len(str) : IsPlaceholder(str, j) \/ ~IsPlaceholder(str, j - 1) =>
                  line[j - Before(str, j)] =
                    IF IsPlaceholder(str, j) THEN args[Before(str, j) + 1] ELSE str[j]
    BY <2>1, <2>4, <2>5 DEF Copied
  <2>8. \A j \in 1 .. Len(str) : /\ j \in Holes(str) <=> IsPlaceholder(str, j)
                                 /\ j - 1 \notin Holes(str) => ~IsPlaceholder(str, j - 1)
    <3>1. ASSUME NEW j \in 1 .. Len(str), j - 1 \notin Holes(str), IsPlaceholder(str, j - 1) PROVE FALSE
      <4>1. j - 1 \in 1 .. Len(str) - 1
        BY <3>1 DEF IsPlaceholder
      <4>2. j - 1 \in 1 .. Len(str)
        BY <1>1, <4>1
      <4> QED
        BY <3>1, <4>2 DEF Holes
    <3> QED
      BY <3>1 DEF Holes
  <2>9. \A j \in Holes(str) : j \in 1 .. Len(str)
    BY DEF Holes
  <2>10. /\ Cardinality(Holes(str)) = Before(str, Len(str))
         /\ \A j : Cardinality({h \in Holes(str) : h < j}) = Before(str, j)
    BY <2>1 DEF Before
  <2>11. HolesFor(str, args) = Holes(str)
    BY <1>1, <1>3 DEF HolesFor, Holes
  <2>12. TooFew(str, args) <=> Before(str, Len(str)) > Len(args)
    BY <2>10, <2>11 DEF TooFew
  <2>13. CASE Before(str, Len(str)) > Len(args)
    BY <2>6, <2>7, <2>12, <2>13 DEF FormattedAs
  <2>14. CASE ~(Before(str, Len(str)) > Len(args))
    <3>1. \A j \in Holes(str) : line[j - Before(str, j)] = args[Before(str, j) + 1]
      BY <2>7, <2>8, <2>9, <2>14
    <3>2. \A j \in DOMAIN str : j \notin Holes(str) /\ j - 1 \notin Holes(str) =>
            line[j - Before(str, j)] = str[j]
      BY <1>1, <2>7, <2>8, <2>14
    <3>3. Len(line) = Len(str) - Cardinality(Holes(str)) /\ ~Holds(line, OutOfRange)
      BY <2>7, <2>10, <2>14
    <3>4. Replaced(str, args, line)
      BY <2>10, <2>11, <3>1, <3>2, <3>3 DEF Replaced
    <3> QED
      BY <2>6, <2>12, <2>14, <3>3, <3>4 DEF FormattedAs
  <2> QED
    BY <2>13, <2>14
<1> QED
  BY <1>2, <1>3

-----------------------------------------------------------------------------
(* The lines that threads log at once.                                     *)

LoggerOK == LoggerInv /\ IsSequence(logged)

LEMMA WriteFileRemains == \A l : WriteFile(l) \in Remaining
BY DEF WriteFile, Remaining, Destinations

\* A thread that is not at rest still has the file of all levels to write, as the last.
LEMMA RemainingShape ==
  ASSUME NEW todo \in Remaining
  PROVE  /\ Head(todo) \in Destinations
         /\ Len(todo) = 1 => Head(todo) = "ALL"
         /\ Len(todo) # 1 => Head(todo) # "ALL" /\ Tail(todo) \in Remaining
<1>1. CASE todo = <<"ALL">>
  BY <1>1 DEF Destinations
<1>2. ASSUME NEW d \in Destinations \ {"ALL"}, todo = <<d, "ALL">>
      PROVE  Head(todo) = d /\ Len(todo) = 2 /\ Tail(todo) \in Remaining
  <2>1. Head(todo) = d /\ Len(todo) = 2 /\ Tail(todo) = <<"ALL">>
    BY <1>2
  <2> QED
    BY <2>1 DEF Remaining
<1>3. ASSUME NEW d \in Destinations \ {"ALL"}, todo = <<"console", d, "ALL">>
      PROVE  Head(todo) = "console" /\ Len(todo) = 3 /\ Tail(todo) \in Remaining
  <2>1. Head(todo) = "console" /\ Len(todo) = 3 /\ Tail(todo) = <<d, "ALL">>
    BY <1>3
  <2> QED
    BY <2>1 DEF Remaining
<1>4. \/ todo = <<"ALL">>
      \/ \E d \in Destinations \ {"ALL"} : todo = <<d, "ALL">> \/ todo = <<"console", d, "ALL">>
  BY DEF Remaining
<1>5. "console" \in Destinations \ {"ALL"}
  BY DEF Destinations
<1> QED
  BY <1>1, <1>2, <1>3, <1>4, <1>5

LEMMA LogKeeps ==
  ASSUME LoggerOK, NEW t \in LogThreads, NEW c, Log(t, c)
  PROVE  LoggerOK'
<1> DEFINE l == Len(logged) + 1
           started == [call |-> l, todo |-> WriteFile(c.level)]
<1>1. PICK e : logged' = Append(logged, e)
  BY DEF Log
<1>2. /\ IsSequence(logged') /\ Len(logged) \in Nat
      /\ DOMAIN logged = 1 .. Len(logged) /\ DOMAIN logged' = 1 .. l
  BY <1>1, AppendToSequence DEF LoggerOK
<1>3. /\ output' = output /\ lost' = lost /\ writer[t] = AtRest
      /\ writer' = writer \/ writer' = [writer EXCEPT ![t] = started]
  BY DEF Log
<1>4. DOMAIN logged \subseteq DOMAIN logged' /\ l \in DOMAIN logged' /\ l \notin DOMAIN logged /\ 0 \notin DOMAIN logged
  BY <1>2
<1>5. WriteFile(c.level) \in Remaining
  BY WriteFileRemains
<1>6. \A n, d : Written(n, d)' <=> Written(n, d)
  BY <1>3 DEF Written
<1>7. /\ output \in [Destinations -> Seq(DOMAIN logged)]
      /\ writer \in [LogThreads -> {AtRest} \union [call : DOMAIN logged, todo : Remaining]]
  BY DEF LoggerOK, LoggerInv, OutputInv, WritersInv
<1>8. \A d \in Destinations : ~Written(l, d)
  BY <1>4, <1>7 DEF Written
<1> HIDE DEF l
<1>9. OutputInv'
  <2>1. output' \in [Destinations -> Seq(DOMAIN logged')]
    <3>1. Seq(DOMAIN logged) \subseteq Seq(DOMAIN logged')
      BY <1>4
    <3> QED
      BY <1>3, <1>7, <3>1
  <2>2. ASSUME NEW n \in DOMAIN logged', NEW d \in Destinations, Written(n, d)
        PROVE  \/ Written(n, "ALL") \/ <<n, "ALL">> \in lost
               \/ \E u \in LogThreads : writer'[u].call = n
    <3>1. n \in DOMAIN logged
      BY <1>2, <1>8, <2>2 DEF l
    <3>2. CASE Written(n, "ALL") \/ <<n, "ALL">> \in lost
      BY <3>2
    <3>3. ASSUME NEW u \in LogThreads, writer[u].call = n PROVE writer'[u].call = n
      <4>1. u # t
        BY <1>3, <1>4, <3>1, <3>3 DEF AtRest
      <4> QED
        BY <1>3, <1>7, <3>3, <4>1
    <3> QED
      BY <2>2, <3>1, <3>2, <3>3 DEF LoggerOK, LoggerInv, OutputInv
  <2> QED
    BY <1>3, <1>6, <2>1, <2>2 DEF LoggerOK, LoggerInv, OutputInv
<1>10. WritersInv'
  <2>1. \A u \in LogThreads : writer'[u] = writer[u] \/ (u = t /\ writer'[u] = started)
    BY <1>3, <1>7
  <2>2. \A u \in LogThreads : writer[u].call # l
    BY <1>2, <1>4, <1>7 DEF AtRest, l
  <2>3. writer' \in [LogThreads -> {AtRest} \union [call : DOMAIN logged', todo : Remaining]]
    <3>1. started \in [call : DOMAIN logged', todo : Remaining]
      BY <1>4, <1>5
    <3>2. {AtRest} \union [call : DOMAIN logged, todo : Remaining]
            \subseteq {AtRest} \union [call : DOMAIN logged', todo : Remaining]
      BY <1>4
    <3> QED
      BY <1>3, <1>7, <3>1, <3>2
  <2>4. started.call = l
    OBVIOUS
  <2> HIDE DEF started
  <2>5. \A u, v \in LogThreads :
          writer'[u] # AtRest /\ writer'[u].call = writer'[v].call => u = v
    BY <2>1, <2>2, <2>4 DEF LoggerOK, LoggerInv, WritersInv
  <2>6. \A u \in LogThreads : writer'[u] # AtRest => ~Written(writer'[u].call, "ALL")
    BY <1>8, <2>1, <2>4 DEF LoggerOK, LoggerInv, WritersInv, Destinations
  <2> QED
    BY <1>6, <2>3, <2>5, <2>6 DEF WritersInv
<1> QED
  BY <1>2, <1>9, <1>10 DEF LoggerOK, LoggerInv

\* A write that fails leaves the destinations as they are.
LEMMA FailedWriteKeeps ==
  ASSUME LoggerOK, NEW t \in LogThreads, Write(t), UNCHANGED output,
         lost' = lost \union {<<writer[t].call, Head(writer[t].todo)>>}
  PROVE  LoggerOK'
<1> DEFINE n == writer[t].call
           todo == writer[t].todo
           last == Len(todo) = 1
           next_ == [writer[t] EXCEPT !.todo = Tail(todo)]
<1>1. /\ writer[t] # AtRest /\ logged' = logged
      /\ writer' = [writer EXCEPT ![t] = IF last THEN AtRest ELSE next_]
  BY DEF Write
<1>2. writer \in [LogThreads -> {AtRest} \union [call : DOMAIN logged, todo : Remaining]]
  BY DEF LoggerOK, LoggerInv, WritersInv
<1>3. writer[t] \in [call : DOMAIN logged, todo : Remaining] /\ todo \in Remaining
  BY <1>1, <1>2
<1>4. /\ last => Head(todo) = "ALL"
      /\ ~last => Tail(todo) \in Remaining
  BY <1>3, RemainingShape
<1>5. /\ \A u \in LogThreads \ {t} : writer'[u] = writer[u]
      /\ last => writer'[t] = AtRest
      /\ ~last => writer'[t] \in [call : DOMAIN logged, todo : Remaining] /\ writer'[t].call = n
  BY <1>1, <1>2, <1>3, <1>4
<1>6. /\ lost \subseteq lost'
      /\ last => <<n, "ALL">> \in lost'
  BY <1>4
<1> HIDE DEF n, todo, last, next_
<1>7. \A m, b : Written(m, b)' <=> Written(m, b)
  BY DEF Written
<1>8. OutputInv'
  <2>1. ASSUME NEW m \in DOMAIN logged, NEW b \in Destinations, Written(m, b)
        PROVE  \/ Written(m, "ALL") \/ <<m, "ALL">> \in lost'
               \/ \E u \in LogThreads : writer'[u].call = m
    <3>1. \/ Written(m, "ALL") \/ <<m, "ALL">> \in lost
          \/ \E u \in LogThreads : writer[u].call = m
      BY <2>1 DEF LoggerOK, LoggerInv, OutputInv
    <3>2. ASSUME NEW u \in LogThreads, writer[u].call = m
          PROVE  <<m, "ALL">> \in lost' \/ writer'[u].call = m
      BY <1>5, <1>6, <3>2 DEF n
    <3> QED
      BY <1>6, <3>1, <3>2
  <2> QED
    BY <1>1, <1>7, <2>1 DEF LoggerOK, LoggerInv, OutputInv
<1>9. WritersInv'
  <2>1. writer' \in [LogThreads -> {AtRest} \union [call : DOMAIN logged', todo : Remaining]]
    <3>1. writer'[t] \in {AtRest} \union [call : DOMAIN logged, todo : Remaining]
      BY <1>5
    <3> QED
      BY <1>1, <1>2, <1>5, <3>1
  <2>2. \A u \in LogThreads : \/ writer'[u] = AtRest
                              \/ writer[u] # AtRest /\ writer'[u].call = writer[u].call
    BY <1>1, <1>5 DEF n
  <2>3. \A u, v \in LogThreads :
          writer'[u] # AtRest /\ writer'[u].call = writer'[v].call => u = v
    <3> SUFFICES ASSUME NEW u \in LogThreads, NEW v \in LogThreads,
                        writer'[u] # AtRest, writer'[u].call = writer'[v].call
                 PROVE  u = v
      OBVIOUS
    <3>1. writer[u] # AtRest /\ writer'[u].call = writer[u].call
      BY <2>2
    <3>2. writer[u].call \in DOMAIN logged
      BY <1>2, <3>1
    <3>3. 0 \notin DOMAIN logged
      BY AppendToSequence DEF LoggerOK
    <3>4. writer'[v] # AtRest
      <4>1. writer[u].call = writer'[v].call
        BY <3>1
      <4> QED
        BY <3>2, <3>3, <4>1 DEF AtRest
    <3>5. writer[u].call = writer[v].call
      BY <2>2, <3>1, <3>4
    <3> QED
      BY <3>1, <3>5 DEF LoggerOK, LoggerInv, WritersInv
  <2> QED
    BY <1>7, <2>1, <2>2, <2>3 DEF LoggerOK, LoggerInv, WritersInv
<1> QED
  BY <1>1, <1>8, <1>9 DEF LoggerOK, LoggerInv

\* A write that succeeds adds the line to one destination.
LEMMA SuccessfulWriteKeeps ==
  ASSUME LoggerOK, NEW t \in LogThreads, Write(t), UNCHANGED lost,
         output' = [output EXCEPT ![Head(writer[t].todo)] = Append(@, writer[t].call)]
  PROVE  LoggerOK'
<1> DEFINE n == writer[t].call
           todo == writer[t].todo
           d == Head(todo)
           last == Len(todo) = 1
           longer == Append(output[d], n)
<1>1. /\ writer[t] # AtRest /\ logged' = logged
      /\ output' = [output EXCEPT ![d] = longer]
      /\ writer' = [writer EXCEPT ![t] = IF last THEN AtRest ELSE [writer[t] EXCEPT !.todo = Tail(todo)]]
  BY DEF Write
<1>2. /\ output \in [Destinations -> Seq(DOMAIN logged)]
      /\ writer \in [LogThreads -> {AtRest} \union [call : DOMAIN logged, todo : Remaining]]
  BY DEF LoggerOK, LoggerInv, OutputInv, WritersInv
<1>3. n \in DOMAIN logged /\ todo \in Remaining /\ writer[t] \in [call : DOMAIN logged, todo : Remaining]
  BY <1>1, <1>2
<1>4. /\ d \in Destinations
      /\ last <=> d = "ALL"
      /\ ~last => Tail(todo) \in Remaining
  BY <1>3, RemainingShape
<1>5. /\ longer \in Seq(DOMAIN logged) /\ Len(output[d]) \in Nat
      /\ DOMAIN output[d] = 1 .. Len(output[d]) /\ DOMAIN longer = 1 .. Len(output[d]) + 1
      /\ longer[Len(output[d]) + 1] = n
      /\ \A i \in 1 .. Len(output[d]) : longer[i] = output[d][i]
  BY <1>2, <1>3, <1>4
<1>6. /\ output'[d] = longer
      /\ \A b \in Destinations \ {d} : output'[b] = output[b]
      /\ \A u \in LogThreads \ {t} : writer'[u] = writer[u]
      /\ writer'[t] = IF last THEN AtRest ELSE [writer[t] EXCEPT !.todo = Tail(todo)]
  BY <1>1, <1>2, <1>4
<1>7. ~Written(n, "ALL")
  BY <1>1 DEF LoggerOK, LoggerInv, WritersInv
<1>8. ~last => writer'[t] \in [call : DOMAIN logged, todo : Remaining] /\ writer'[t].call = n
  BY <1>3, <1>4, <1>6
<1> HIDE DEF n, todo, d, last, longer
<1>9. \A m, b : b \in Destinations => (Written(m, b)' <=> Written(m, b) \/ (b = d /\ m = n))
  <2> SUFFICES ASSUME NEW m, NEW b \in Destinations
               PROVE  Written(m, b)' <=> Written(m, b) \/ (b = d /\ m = n)
    OBVIOUS
  <2>1. Written(m, b)' <=> \E i \in DOMAIN output'[b] : output'[b][i] = m
    BY DEF Written
  <2>2. CASE b # d
    BY <1>6, <2>1, <2>2 DEF Written
  <2>3. CASE b = d
    <3>1. \A i : i \in 1 .. Len(output[d]) + 1 <=> i \in 1 .. Len(output[d]) \/ i = Len(output[d]) + 1
      BY <1>5
    <3>2. (\E i \in DOMAIN longer : longer[i] = m) <=>
            (\E i \in DOMAIN output[d] : output[d][i] = m) \/ m = n
      BY <1>5, <3>1
    <3> QED
      BY <1>6, <2>1, <2>3, <3>2 DEF Written
  <2> QED
    BY <2>2, <2>3
<1>10. \A u \in LogThreads \ {t} : writer[u].call # n
  BY <1>1 DEF LoggerOK, LoggerInv, WritersInv, n
<1>11. OutputInv'
  <2>1. output' \in [Destinations -> Seq(DOMAIN logged')]
    BY <1>1, <1>2, <1>5
  <2>2. \A i, j \in DOMAIN output'["ALL"] : output'["ALL"][i] = output'["ALL"][j] => i = j
    <3>1. CASE d # "ALL"
      <4>1. output'["ALL"] = output["ALL"]
        BY <1>6, <3>1 DEF Destinations
      <4> QED
        BY <4>1 DEF LoggerOK, LoggerInv, OutputInv
    <3>2. CASE d = "ALL"
      <4>1. \A i \in 1 .. Len(output[d]) : output[d][i] # n
        BY <1>5, <1>7, <3>2 DEF Written
      <4>2. \A i, j \in 1 .. Len(output[d]) : output[d][i] = output[d][j] => i = j
        BY <1>5, <3>2 DEF LoggerOK, LoggerInv, OutputInv
      <4>3. \A i \in 1 .. Len(output[d]) + 1 : i \in 1 .. Len(output[d]) \/ i = Len(output[d]) + 1
        BY <1>5
      <4>4. ASSUME NEW i \in 1 .. Len(output[d]) + 1, NEW j \in 1 .. Len(output[d]) + 1,
                   longer[i] = longer[j]
            PROVE  i = j
        <5>1. CASE i = Len(output[d]) + 1 \/ j = Len(output[d]) + 1
          BY <1>5, <4>1, <4>3, <4>4, <5>1
        <5>2. CASE i \in 1 .. Len(output[d]) /\ j \in 1 .. Len(output[d])
          BY <1>5, <4>2, <4>4, <5>2
        <5> QED
          BY <4>3, <5>1, <5>2
      <4>5. output'["ALL"] = longer /\ DOMAIN longer = 1 .. Len(output[d]) + 1
        BY <1>5, <1>6, <3>2
      <4>6. \A i, j \in DOMAIN longer : longer[i] = longer[j] => i = j
        BY <4>4, <4>5
      <4>7. PICK all : all = output'["ALL"]
        OBVIOUS
      <4>8. \A i, j \in DOMAIN all : all[i] = all[j] => i = j
        <5>1. all = longer
          BY <4>5, <4>7
        <5> QED
          BY <4>6, <5>1
      <4> QED
        BY <4>7, <4>8, Zenon
    <3> QED
      BY <3>1, <3>2
  <2>3. ASSUME NEW m \in DOMAIN logged, NEW b \in Destinations, Written(m, b)'
        PROVE  \/ Written(m, "ALL")' \/ <<m, "ALL">> \in lost
               \/ \E u \in LogThreads : writer'[u].call = m
    <3>1. "ALL" \in Destinations
      BY DEF Destinations
    <3>2. CASE m = n
      BY <1>4, <1>8, <1>9, <3>1, <3>2
    <3>3. CASE m # n
      <4>1. \/ Written(m, "ALL") \/ <<m, "ALL">> \in lost
            \/ \E u \in LogThreads : writer[u].call = m
        BY <1>9, <2>3, <3>3 DEF LoggerOK, LoggerInv, OutputInv
      <4> QED
        BY <1>6, <1>9, <3>1, <3>3, <4>1 DEF n
    <3> QED
      BY <3>2, <3>3
  <2> QED
    BY <1>1, <2>1, <2>2, <2>3 DEF OutputInv
<1>12. WritersInv'
  <2>1. writer' \in [LogThreads -> {AtRest} \union [call : DOMAIN logged', todo : Remaining]]
    <3>1. writer'[t] \in {AtRest} \union [call : DOMAIN logged, todo : Remaining]
      BY <1>6, <1>8
    <3> QED
      BY <1>1, <1>2, <1>6, <3>1
  <2>2. \A u \in LogThreads : writer'[u] # AtRest =>
          writer[u] # AtRest /\ writer'[u].call = writer[u].call
    BY <1>1, <1>6, <1>8 DEF n
  <2>3. \A u, v \in LogThreads :
          writer'[u] # AtRest /\ writer'[u].call = writer'[v].call => u = v
    <3> SUFFICES ASSUME NEW u \in LogThreads, NEW v \in LogThreads,
                        writer'[u] # AtRest, writer'[u].call = writer'[v].call, u # v
                 PROVE  FALSE
      OBVIOUS
    <3>1. writer[u] # AtRest /\ writer[u].call = writer'[v].call /\ writer[u].call \in DOMAIN logged
      BY <1>2, <2>2
    <3>2. writer'[v] # AtRest
      <4>1. 0 \notin DOMAIN logged
        BY AppendToSequence DEF LoggerOK
      <4> QED
        BY <3>1, <4>1 DEF AtRest
    <3>3. writer[u].call = writer[v].call
      BY <2>2, <3>1, <3>2
    <3> QED
      BY <3>1, <3>3 DEF LoggerOK, LoggerInv, WritersInv
  <2>4. \A u \in LogThreads : writer'[u] # AtRest =>
          ~\E i \in DOMAIN output'["ALL"] : output'["ALL"][i] = writer'[u].call
    <3> SUFFICES ASSUME NEW u \in LogThreads, writer'[u] # AtRest
                 PROVE  ~\E i \in DOMAIN output'["ALL"] : output'["ALL"][i] = writer[u].call
      BY <2>2
    <3>1. PICK m : m = writer[u].call
      OBVIOUS
    <3>2. ~Written(m, "ALL")
      BY <2>2, <3>1 DEF LoggerOK, LoggerInv, WritersInv
    <3>3. d = "ALL" => m # n
      BY <1>4, <1>6, <1>10, <3>1
    <3>4. ~Written(m, "ALL")'
      BY <1>9, <3>2, <3>3 DEF Destinations
    <3> QED
      BY <3>1, <3>4 DEF Written
  <2> QED
    BY <2>1, <2>3, <2>4 DEF WritersInv, Written
<1> QED
  BY <1>1, <1>11, <1>12 DEF LoggerOK, LoggerInv

LEMMA WriteKeeps ==
  ASSUME LoggerOK, NEW t \in LogThreads, Write(t)
  PROVE  LoggerOK'
BY FailedWriteKeeps, SuccessfulWriteKeeps DEF Write

LEMMA InitLogger == Init => LoggerOK
<1> SUFFICES ASSUME Init PROVE LoggerOK
  OBVIOUS
<1>1. /\ output = [d \in Destinations |-> <<>>] /\ writer = [t \in LogThreads |-> AtRest]
      /\ logged = <<>>
  BY DEF Init, LogInit
<1>2. \A n, d : d \in Destinations => ~Written(n, d)
  BY <1>1 DEF Written
<1>3. WritersInv
  BY <1>1 DEF WritersInv
<1>4. OutputInv
  BY <1>1, <1>2 DEF OutputInv, Destinations
<1> QED
  BY <1>1, <1>3, <1>4, EmptyIsSequence DEF LoggerOK, LoggerInv

LEMMA NextLogger == LoggerOK /\ [Next]_vars => LoggerOK'
<1> SUFFICES ASSUME LoggerOK, [Next]_vars PROVE LoggerOK'
  OBVIOUS
<1>1. ASSUME UNCHANGED <<output, writer, logged, lost>> PROVE LoggerOK'
  <2>1. \A n, d : Written(n, d)' <=> Written(n, d)
    BY <1>1 DEF Written
  <2> QED
    BY <1>1, <2>1 DEF LoggerOK, LoggerInv, WritersInv, OutputInv
<1>2. CASE LogStep
  BY <1>2, LogKeeps, WriteKeeps DEF LogStep
<1>3. CASE MainStep
  BY <1>1, <1>3 DEF MainStep, ReadLine, InitLog, InitEasylog, ReadListenAddress, ReadTarget,
                    RunManager, logVars
<1>4. CASE UNCHANGED vars
  BY <1>1, <1>4 DEF vars, logVars
<1> QED
  BY <1>2, <1>3, <1>4 DEF Next, ProxyLogs

\* However the threads interleave, a line that is in the file of its level is in the
\* file of all levels once, unless its thread has yet to write it or that write has
\* failed (easylog.h:139-155).
THEOREM AllHoldsEveryLine == Spec => []NoneIsMissingInAll
<1>1. LoggerOK => NoneIsMissingInAll
  <2> SUFFICES ASSUME LoggerOK, NEW n \in DOMAIN logged, NEW d \in Destinations, Written(n, d),
                      ~\E t \in LogThreads : writer[t].call = n, <<n, "ALL">> \notin lost
               PROVE  Cardinality({i \in DOMAIN output["ALL"] : output["ALL"][i] = n}) = 1
    BY DEF NoneIsMissingInAll
  <2>1. Written(n, "ALL")
    BY DEF LoggerOK, LoggerInv, OutputInv
  <2>2. PICK i \in DOMAIN output["ALL"] : output["ALL"][i] = n
    BY <2>1 DEF Written
  <2>3. {j \in DOMAIN output["ALL"] : output["ALL"][j] = n} = {i}
    BY <2>2 DEF LoggerOK, LoggerInv, OutputInv
  <2> QED
    BY <2>3, FS_Singleton
<1> QED
  BY <1>1, InitLogger, NextLogger, PTL DEF Spec

-----------------------------------------------------------------------------
(* The lines that are logged.                                              *)

\* What LinesAreFormatted says of one line.
LineIsFormatted(n) ==
  LET c == logged[n].call IN
  IsLogged(c.level) =>
    IF TooFew(c.text, c.args) THEN thrown /\ n = Len(logged)
    ELSE (thrown => n # Len(logged)) /\ Replaced(c.text, c.args, logged[n].line)

LinesOK == /\ IsSequence(logged) /\ NothingLoggedYet
           /\ \A n \in DOMAIN logged : LineIsFormatted(n)

\* A call of log() formats its line.
LEMMA LogFormats ==
  ASSUME LinesOK, NEW t \in LogThreads, NEW c \in Calls, Log(t, c), Running, UNCHANGED at
  PROVE  LinesOK'
<1>1. PICK line : line = IF IsLogged(c.level) THEN Format(c.text, c.args) ELSE <<>>
  OBVIOUS
<1>2. PICK e : e = [call |-> c, line |-> line]
  OBVIOUS
<1>3. /\ ~thrown /\ level' = level /\ logged' = Append(logged, e)
      /\ thrown' = Holds(line, OutOfRange)
  BY <1>1, <1>2 DEF Log, Holds
<1>4. /\ IsSequence(logged') /\ Len(logged) \in Nat /\ Len(logged') = Len(logged) + 1
      /\ DOMAIN logged = 1 .. Len(logged) /\ DOMAIN logged' = 1 .. Len(logged) + 1
      /\ logged'[Len(logged) + 1] = e
      /\ \A i \in 1 .. Len(logged) : logged'[i] = logged[i]
  BY <1>3, AppendToSequence DEF LinesOK
<1>5. \A l : IsLogged(l)' <=> IsLogged(l)
  BY <1>3 DEF IsLogged
<1>6. ASSUME NEW n \in 1 .. Len(logged) PROVE LineIsFormatted(n)'
  <2>1. logged'[n] = logged[n] /\ n # Len(logged') /\ n \in DOMAIN logged
    BY <1>4
  <2>2. LineIsFormatted(n)
    BY <2>1 DEF LinesOK
  <2> QED
    BY <1>3, <1>5, <2>1, <2>2 DEF LineIsFormatted
<1>7. PICK m : m = Len(logged) + 1
  OBVIOUS
<1>8. LineIsFormatted(m)'
  <2>1. logged'[m] = e /\ e.call = c /\ e.line = line /\ m = Len(logged')
    BY <1>2, <1>4, <1>7
  <2>2. IsLogged(c.level) => FormattedAs(c.text, c.args, line)
    <3>1. /\ IsText(c.text) /\ IsText(c.args)
          /\ ~Holds(c.text, OutOfRange) /\ ~Holds(c.args, OutOfRange)
      BY CallsAssumption DEF Holds
    <3> QED
      BY <1>1, <3>1, Formatted
  <2>3. IsLogged(c.level) =>
          IF TooFew(c.text, c.args) THEN thrown' ELSE ~thrown' /\ Replaced(c.text, c.args, line)
    BY <1>3, <2>2 DEF FormattedAs
  <2> QED
    BY <1>5, <2>1, <2>3 DEF LineIsFormatted
<1>9. \A n \in DOMAIN logged' : n \in 1 .. Len(logged) \/ n = m
  BY <1>4, <1>7
<1>10. NothingLoggedYet'
  BY DEF NothingLoggedYet, Running
<1> QED
  BY <1>4, <1>6, <1>8, <1>9, <1>10 DEF LinesOK

\* Nothing is logged at first.
LEMMA InitLines == Init => LinesOK
BY EmptyIsSequence DEF Init, LogInit, LinesOK, NothingLoggedYet

\* Every step keeps the lines that are logged as they were formatted.
LEMMA NextLines == LinesOK /\ [Next]_vars => LinesOK'
<1> SUFFICES ASSUME LinesOK, [Next]_vars PROVE LinesOK'
  OBVIOUS
<1>1. ASSUME UNCHANGED <<level, logged, thrown>>, Running => Running' PROVE LinesOK'
  BY <1>1 DEF LinesOK, LineIsFormatted, IsLogged, NothingLoggedYet
<1>2. CASE ProxyLogs
  <2>1. Running /\ UNCHANGED at /\ LogStep
    BY <1>2 DEF ProxyLogs, mainVars
  <2>2. CASE \E t \in LogThreads : Write(t)
    BY <1>1, <2>1, <2>2 DEF Write, Running
  <2>3. CASE \E t \in LogThreads : \E c \in Calls : Log(t, c)
    BY <2>1, <2>3, LogFormats
  <2> QED
    BY <2>1, <2>2, <2>3 DEF LogStep
<1>3. CASE InitLog
  <2>1. logged = <<>> /\ logged' = logged
    BY <1>3 DEF InitLog, InitEasylog, logVars, LinesOK, NothingLoggedYet, Running
  <2> QED
    BY <2>1, EmptyIsSequence DEF LinesOK, NothingLoggedYet
<1>4. CASE ReadLine \/ ReadListenAddress \/ ReadTarget \/ RunManager
  BY <1>1, <1>4 DEF ReadLine, ReadListenAddress, ReadTarget, RunManager, logVars, Running
<1>5. CASE UNCHANGED vars
  BY <1>1, <1>5 DEF vars, logVars, mainVars, Running
<1> QED
  BY <1>2, <1>3, <1>4, <1>5 DEF Next, MainStep

\* Whatever is logged, every placeholder of a line holds its own argument and the rest
\* of the text is where it was; a call throws if and only if it is logged with too few
\* arguments (format.h:37-74, easylog.h:69).
THEOREM LinesAreWellFormatted == Spec => []LinesAreFormatted
<1>1. LinesOK => LinesAreFormatted
  BY DEF LinesOK, LineIsFormatted, LinesAreFormatted, TooFew, Replaced, HolesFor
<1> QED
  BY <1>1, InitLines, NextLines, PTL DEF Spec
=============================================================================
