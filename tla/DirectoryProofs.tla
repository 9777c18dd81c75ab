---------------------------- MODULE DirectoryProofs ----------------------------
(***************************************************************************)
(* Directory for any number of sessions, names and arguments, any PATH_MAX *)
(* and any size of an answer: types, the answers of ls, how a session can  *)
(* lose its directory, and that every command takes effect at one instant  *)
(* as DirectoryService says, on the path that normalize_virtual_path finds *)
(* token by token.                                                         *)
(***************************************************************************)
EXTENDS Directory, FiniteSetTheorems, WellFoundedInduction, TLAPS

--------------------------------------------------------------------------------
(* Induction over a set and recursion over a function of functions: the       *)
(* library's theorems about both take an operator as a parameter.             *)

\* What holds of 0 and of i when it holds of i - 1 holds up to n: the smallest number of
\* which it does not hold would be neither.
LEMMA Induction ==
    ASSUME NEW n \in Nat, NEW S, 0 \in S, \A i \in 1..n : i - 1 \in S => i \in S
    PROVE  0..n \subseteq S
  <1> DEFINE missing == {i \in 0..n : i \notin S}
             prefixes == {0..i : i \in missing}
  <1> SUFFICES ASSUME NEW m \in missing PROVE FALSE  OBVIOUS
  <1>1. IsFiniteSet(0..n)  BY FS_Interval
  <1>2. prefixes \subseteq SUBSET (0..n) /\ 0..m \in prefixes  OBVIOUS
  <1>3. \A P \in prefixes : IsFiniteSet(P)  BY <1>1, <1>2, FS_Subset
  <1>4. prefixes \subseteq FiniteSubsetsOf(0..n)  BY <1>2, <1>3 DEF FiniteSubsetsOf
  <1>5. PICK P \in prefixes : \A Q \in prefixes : ~(<<Q, P>> \in StrictSubsetOrdering(0..n))
    <2> HIDE DEF prefixes
    <2> QED  BY <1>2, <1>4, FS_StrictSubsetOrderingWellFounded, WFMin
  <1>6. PICK k \in missing : P = 0..k  OBVIOUS
  <1>7. k \in 1..n /\ k - 1 \in 0..n  OBVIOUS
  <1>8. k - 1 \in missing  BY <1>7
  <1>9. 0..(k - 1) \subseteq 0..k /\ k \in 0..k /\ k \notin 0..(k - 1)  BY <1>7
  <1>10. <<0..(k - 1), P>> \in StrictSubsetOrdering(0..n)
    BY <1>2, <1>6, <1>8, <1>9 DEF StrictSubsetOrdering
  <1> QED  BY <1>5, <1>8, <1>10

\* r starts with b and comes from r[i - 1] to r[i] by F[i].
Steps(r, b, F, m) == r[0] = b /\ \A i \in 1..m : r[i] = F[i][r[i - 1]]

\* The longest start of such an r is as long as n.
LEMMA Recursion ==
    ASSUME NEW n \in Nat, NEW V, NEW b \in V, NEW F \in [1..n -> [V -> V]]
    PROVE  \E r \in [0..n -> V] : Steps(r, b, F, n)
  <1> DEFINE S == {m \in 0..n : \E r \in [0..m -> V] : Steps(r, b, F, m)}
  <1>1. 0 \in S
    <2>1. [i \in 0..0 |-> b] \in [0..0 -> V] /\ Steps([i \in 0..0 |-> b], b, F, 0)  BY DEF Steps
    <2>2. \E r \in [0..0 -> V] : Steps(r, b, F, 0)  BY <2>1
    <2> QED  BY <2>2
  <1>2. ASSUME NEW m \in 1..n, m - 1 \in S PROVE m \in S
    <2>1. PICK r \in [0..(m - 1) -> V] : Steps(r, b, F, m - 1)  BY <1>2
    <2> DEFINE q == [i \in 0..m |-> IF i = m THEN F[m][r[m - 1]] ELSE r[i]]
    <2>2. m - 1 \in 0..(m - 1)  OBVIOUS
    <2>3. F[m][r[m - 1]] \in V  BY <2>2
    <2>4. q \in [0..m -> V]  BY <2>3
    <2>5. q[0] = b  BY <2>1 DEF Steps
    <2>6. ASSUME NEW i \in 1..m PROVE q[i] = F[i][q[i - 1]]
      <3>1. CASE i = m  BY <3>1, <2>2
      <3>2. CASE i # m
        <4>1. /\ i \in 1..(m - 1) /\ i - 1 \in 0..(m - 1) /\ i \in 0..m
              /\ i - 1 \in 0..m /\ i - 1 # m
          BY <3>2
        <4> QED  BY <4>1, <3>2, <2>1 DEF Steps
      <3> QED  BY <3>1, <3>2
    <2> HIDE DEF q
    <2>7. Steps(q, b, F, m)  BY <2>5, <2>6 DEF Steps
    <2> QED  BY <2>4, <2>7
  <1> HIDE DEF S
  <1>3. 0..n \subseteq S  BY <1>1, <1>2, Induction
  <1>4. n \in S  BY <1>3
  <1> QED  BY <1>4 DEF S

--------------------------------------------------------------------------------
(* Paths, token by token. *)

\* What a path and an acceptable argument are made of.
Tokens == Names \cup {".", ".."}

LEMMA StepTokenType ==
    ASSUME NEW p \in Seq(Names), NEW x \in Tokens
    PROVE  StepToken(p, x) \in Seq(Names) /\ Len(StepToken(p, x)) <= Len(p) + 1
  <1>1. PopOneLevel(p) \in Seq(Names) /\ Len(PopOneLevel(p)) <= Len(p)  BY DEF PopOneLevel
  <1> QED  BY <1>1 DEF StepToken, Tokens

\* Walk is the function its recursive definition describes; after i tokens a path has at
\* most i components.
LEMMA WalkDef ==
    ASSUME NEW t \in Seq(Tokens)
    PROVE  /\ Walk(t) \in [0..Len(t) -> Seq(Names)]
           /\ Walk(t)[0] = <<>>
           /\ \A i \in 1..Len(t) : Walk(t)[i] = StepToken(Walk(t)[i - 1], t[i])
           /\ \A i \in 0..Len(t) : Len(Walk(t)[i]) <= i
  <1> DEFINE Is(path) == path = [i \in 0..Len(t) |->
                                    IF i = 0 THEN <<>> ELSE StepToken(path[i - 1], t[i])]
             paths == Seq(Names)
  <1>1. Len(t) \in Nat /\ <<>> \in paths /\ \A i \in 1..Len(t) : t[i] \in Tokens  OBVIOUS
  <1>2. PICK F \in [1..Len(t) -> [paths -> paths]] :
             \A v \in paths, i \in 1..Len(t) : F[i][v] = StepToken(v, t[i])
    <2> DEFINE G == [i \in 1..Len(t) |-> [v \in paths |-> StepToken(v, t[i])]]
    <2>1. \A v \in paths, i \in 1..Len(t) : StepToken(v, t[i]) \in paths  BY <1>1, StepTokenType
    <2>2. G \in [1..Len(t) -> [paths -> paths]]  BY <2>1
    <2>3. \A v \in paths, i \in 1..Len(t) : G[i][v] = StepToken(v, t[i])  OBVIOUS
    <2> QED  BY <2>2, <2>3
  <1>3. PICK r \in [0..Len(t) -> paths] : Steps(r, <<>>, F, Len(t))
    <2> HIDE DEF paths
    <2> QED  BY <1>1, Recursion
  <1>4. Is(r)
    <2>1. \A i \in 1..Len(t) : r[i - 1] \in paths  OBVIOUS
    <2>2. \A i \in 0..Len(t) : r[i] = IF i = 0 THEN <<>> ELSE StepToken(r[i - 1], t[i])
      <3> HIDE DEF paths
      <3> QED  BY <1>2, <1>3, <2>1 DEF Steps
    <2> QED  BY <2>2
  <1>5. PICK w : w = Walk(t)  OBVIOUS
  <1>6. Is(w)
    <2>1. w = CHOOSE path : Is(path)  BY <1>5 DEF Walk
    <2> HIDE DEF Is
    <2> QED  BY <1>4, <2>1
  <1>7. w[0] = <<>> /\ \A i \in 1..Len(t) : w[i] = StepToken(w[i - 1], t[i])  BY <1>6
  <1> DEFINE S == {i \in 0..Len(t) : w[i] \in paths /\ Len(w[i]) <= i}
  <1>8. 0..Len(t) \subseteq S
    <2>1. 0 \in S
      <3>1. 0 \in 0..Len(t)  BY <1>1
      <3>2. w[0] \in paths  BY <1>1, <1>7
      <3>3. Len(w[0]) = 0  BY <1>7
      <3> QED  BY <3>1, <3>2, <3>3
    <2>2. ASSUME NEW i \in 1..Len(t), i - 1 \in S PROVE i \in S
      <3>1. w[i - 1] \in paths /\ Len(w[i - 1]) <= i - 1  BY <2>2
      <3>2. /\ StepToken(w[i - 1], t[i]) \in paths
            /\ Len(StepToken(w[i - 1], t[i])) <= Len(w[i - 1]) + 1
        BY <1>1, <3>1, StepTokenType
      <3> QED  BY <1>7, <3>1, <3>2
    <2> HIDE DEF S
    <2> QED  BY <1>1, <2>1, <2>2, Induction
  <1>9. w \in [0..Len(t) -> paths]  BY <1>6, <1>8
  <1> QED  BY <1>5, <1>7, <1>8, <1>9

\* What resolve_target_path finds is a path of names; ".." never leads above the root.
LEMMA NormalizeType ==
    ASSUME NEW p \in Seq(Names), NEW a \in Args, Normalize(p, a) # NoPath
    PROVE  /\ IsPath(Normalize(p, a))
           /\ p \o a \in Seq(Tokens) /\ Normalize(p, a) = Walk(p \o a)[Len(p \o a)]
           /\ a # <<>> /\ a[1] # "/" /\ Len(p) + Len(a) <= PathMax
  <1>1. a \in Seq(Names \cup {".", "..", "/"}) /\ \A i \in 2..Len(a) : a[i] # "/"
    BY DirectoryAssumption
  <1>2. Len(p) \in Nat /\ Len(a) \in Nat /\ PathMax \in Nat
    <2>1. PathMax \in Nat  BY DirectoryAssumption
    <2> QED  BY <1>1, <2>1
  <1>3. /\ a # <<>> /\ a[1] # "/" /\ Len(p) + Len(a) <= PathMax
        /\ Normalize(p, a) = Walk(p \o a)[Len(p \o a)]
    <2>1. ~(a = <<>> \/ a[1] = "/" \/ Len(p) + Len(a) > PathMax)  BY DEF Normalize
    <2> QED  BY <1>2, <2>1 DEF Normalize
  <1>4. p \o a \in Seq(Tokens)
    <2>1. \A i \in 1..Len(a) : a[i] \in Tokens  BY <1>3, <1>1 DEF Tokens
    <2>2. a \in Seq(Tokens)  BY <1>1, <2>1
    <2>3. p \in Seq(Tokens)  BY DEF Tokens
    <2> QED  BY <2>2, <2>3
  <1>5. Len(p \o a) = Len(p) + Len(a) /\ Len(p) + Len(a) \in Nat  BY <1>1
  <1>6. PICK w : w = Walk(p \o a)  OBVIOUS
  <1>7. w[Len(p \o a)] \in Seq(Names) /\ Len(w[Len(p \o a)]) <= Len(p \o a)
    <2>1. Len(p \o a) \in 0..Len(p \o a)  BY <1>5
    <2> QED  BY <1>4, <1>6, <2>1, WalkDef
  <1>8. Len(w[Len(p \o a)]) <= PathMax
    <2>1. Len(w[Len(p \o a)]) \in Nat  BY <1>7
    <2> QED  BY <1>2, <1>3, <1>5, <1>7, <2>1
  <1>9. IsPath(w[Len(p \o a)])  BY <1>7, <1>8 DEF IsPath
  <1> QED  BY <1>3, <1>4, <1>6, <1>9

--------------------------------------------------------------------------------
(* The text of an answer to ls. *)

Texts == Seq(Names \cup {NewLine})

LEMMA WidthType ==
    ASSUME NEW x \in Names \cup {NewLine}
    PROVE  Width(x) \in Nat
  BY DirectoryAssumption DEF Width

\* The same for the characters of a text.
LEMMA UsedDef ==
    ASSUME NEW t \in Texts
    PROVE  /\ UsedUpTo(t) \in [0..Len(t) -> Nat]
           /\ UsedUpTo(t)[0] = 0
           /\ \A i \in 1..Len(t) : UsedUpTo(t)[i] = UsedUpTo(t)[i - 1] + Width(t[i])
  <1> DEFINE Is(used) == used = [i \in 0..Len(t) |-> IF i = 0 THEN 0 ELSE used[i - 1] + Width(t[i])]
  <1>1. Len(t) \in Nat /\ 0 \in Nat  BY DEF Texts
  <1>2. \A i \in 1..Len(t) : Width(t[i]) \in Nat  BY WidthType DEF Texts
  <1>3. PICK F \in [1..Len(t) -> [Nat -> Nat]] :
             \A v \in Nat, i \in 1..Len(t) : F[i][v] = v + Width(t[i])
    <2> DEFINE G == [i \in 1..Len(t) |-> [v \in Nat |-> v + Width(t[i])]]
    <2>1. \A v \in Nat, i \in 1..Len(t) : v + Width(t[i]) \in Nat  BY <1>2
    <2>2. G \in [1..Len(t) -> [Nat -> Nat]]  BY <2>1
    <2>3. \A v \in Nat, i \in 1..Len(t) : G[i][v] = v + Width(t[i])  OBVIOUS
    <2> QED  BY <2>2, <2>3
  <1>4. PICK r \in [0..Len(t) -> Nat] : Steps(r, 0, F, Len(t))  BY <1>1, Recursion
  <1>5. Is(r)
    <2>1. \A i \in 1..Len(t) : r[i - 1] \in Nat
      <3>1. \A i \in 1..Len(t) : i - 1 \in 0..Len(t)  BY <1>1
      <3> QED  BY <1>4, <3>1
    <2>2. \A i \in 0..Len(t) : r[i] = IF i = 0 THEN 0 ELSE r[i - 1] + Width(t[i])
      BY <1>3, <1>4, <2>1 DEF Steps
    <2> QED  BY <2>2
  <1>6. PICK w : w = UsedUpTo(t)  OBVIOUS
  <1>7. Is(w)
    <2>1. w = CHOOSE used : Is(used)  BY <1>6 DEF UsedUpTo
    <2> HIDE DEF Is
    <2> QED  BY <1>5, <2>1
  <1>8. w[0] = 0 /\ \A i \in 1..Len(t) : w[i] = w[i - 1] + Width(t[i])  BY <1>1, <1>7
  <1> DEFINE S == {i \in 0..Len(t) : w[i] \in Nat}
  <1>9. 0..Len(t) \subseteq S
    <2>1. 0 \in S  BY <1>1, <1>8
    <2>2. ASSUME NEW i \in 1..Len(t), i - 1 \in S PROVE i \in S
      <3>1. w[i - 1] \in Nat  BY <2>2
      <3> QED  BY <1>2, <1>8, <3>1
    <2> HIDE DEF S
    <2> QED  BY <1>1, <2>1, <2>2, Induction
  <1>10. w \in [0..Len(t) -> Nat]  BY <1>7, <1>9
  <1> QED  BY <1>6, <1>8, <1>10

\* What a text uses up to a place depends on the parts up to there only.
LEMMA UsedPrefix ==
    ASSUME NEW t \in Texts, NEW u \in Texts, NEW n \in Nat, n <= Len(t), n <= Len(u),
           \A i \in 1..n : t[i] = u[i]
    PROVE  UsedUpTo(t)[n] = UsedUpTo(u)[n]
  <1>1. PICK v : v = UsedUpTo(t)  OBVIOUS
  <1>2. PICK w : w = UsedUpTo(u)  OBVIOUS
  <1> DEFINE S == {i \in 0..n : v[i] = w[i]}
  <1>3. 0 \in S  BY <1>1, <1>2, UsedDef
  <1>4. ASSUME NEW i \in 1..n, i - 1 \in S PROVE i \in S
    <2>1. i \in 1..Len(t) /\ i \in 1..Len(u) /\ t[i] = u[i]  BY DEF Texts
    <2>2. v[i] = v[i - 1] + Width(t[i]) /\ w[i] = w[i - 1] + Width(u[i])
      BY <1>1, <1>2, <2>1, UsedDef
    <2> QED  BY <1>4, <2>1, <2>2
  <1>5. 0..n \subseteq S
    <2> HIDE DEF S
    <2> QED  BY <1>3, <1>4, Induction
  <1> QED  BY <1>1, <1>2, <1>5

LEMMA UsedAppend ==
    ASSUME NEW t \in Texts, NEW x \in Names \cup {NewLine}
    PROVE  /\ Append(t, x) \in Texts /\ Used(t) \in Nat
           /\ Used(Append(t, x)) = Used(t) + Width(x)
  <1>1. PICK u : u = Append(t, x)  OBVIOUS
  <1>2. /\ u \in Texts /\ Len(u) = Len(t) + 1 /\ Len(t) \in Nat /\ u[Len(u)] = x
        /\ \A i \in 1..Len(t) : u[i] = t[i]
    BY <1>1 DEF Texts
  <1>3. UsedUpTo(u)[Len(t)] = UsedUpTo(t)[Len(t)]  BY <1>2, UsedPrefix
  <1>4. UsedUpTo(u)[Len(u)] = UsedUpTo(u)[Len(t)] + Width(x)
    <2>1. Len(u) \in 1..Len(u) /\ Len(u) - 1 = Len(t)  BY <1>2
    <2> QED  BY <1>2, <2>1, UsedDef
  <1>5. UsedUpTo(t)[Len(t)] \in Nat
    <2>1. Len(t) \in 0..Len(t)  BY <1>2
    <2> QED  BY <2>1, UsedDef
  <1> QED  BY <1>1, <1>2, <1>3, <1>4, <1>5 DEF Used

LEMMA TooLongApart == TooLong \notin Texts
  <1>1. TooLong[1] = "too long" /\ 1 \in 1..Len(TooLong)  BY DEF TooLong
  <1>2. "too long" \notin Names \cup {NewLine}  BY DirectoryAssumption DEF NewLine
  <1>3. ASSUME TooLong \in Texts PROVE FALSE
    <2>1. \A t \in Texts : \A i \in 1..Len(t) : t[i] \in Names \cup {NewLine}  BY DEF Texts
    <2> QED  BY <1>1, <1>2, <1>3, <2>1
  <1> QED  BY <1>3

\* Part i of a text is on a line of its own, or no line end has had room behind it.
Ended(text, i) == \/ i < Len(text) /\ text[i + 1] = NewLine
                  \/ UsedUpTo(text)[i] + 2 >= MaxText

Shows(text, name) == \E i \in 1..Len(text) : text[i] = name /\ Ended(text, i)

\* One more entry shows it and leaves what the text shows.
LEMMA AddEntryShows ==
    ASSUME NEW t \in Texts, NEW n \in Names, AddEntry(t, n) # TooLong
    PROVE  /\ AddEntry(t, n) \in Texts
           /\ Shows(AddEntry(t, n), n)
           /\ \A x \in Names : Shows(t, x) => Shows(AddEntry(t, n), x)
  <1> DEFINE one == Append(t, n)
             two == Append(one, NewLine)
  <1>2. /\ one \in Texts /\ Used(t) \in Nat /\ Used(one) = Used(t) + NameLen[n]
        /\ NewLine \notin Names
    <2>1. NewLine \notin Names  BY DirectoryAssumption DEF NewLine
    <2>2. Width(n) = NameLen[n]  BY <2>1 DEF Width
    <2> QED  BY <2>1, <2>2, UsedAppend
  <1>3. two \in Texts  BY <1>2, UsedAppend
  <1>4. AddEntry(t, n) = IF Used(t) + NameLen[n] + 2 < MaxText THEN two ELSE one
    <2>1. t \o <<n, NewLine>> = two /\ t \o <<n>> = one  BY <1>2, <1>3 DEF Texts
    <2> QED  BY <2>1 DEF AddEntry
  <1>5. PICK u : u = AddEntry(t, n)  OBVIOUS
  <1>6. /\ u \in Texts /\ Len(t) \in Nat /\ Len(t) < Len(u) /\ u[Len(t) + 1] = n
        /\ \A i \in 1..Len(t) : u[i] = t[i]
    <2>1. /\ Len(one) = Len(t) + 1 /\ one[Len(t) + 1] = n
          /\ \A i \in 1..Len(t) : one[i] = t[i]
      BY DEF Texts
    <2>2. /\ Len(two) = Len(t) + 2 /\ \A i \in 1..(Len(t) + 1) : two[i] = one[i]
      <3> HIDE DEF one
      <3> QED  BY <1>2, <2>1 DEF Texts
    <2>3. Len(t) \in Nat  BY DEF Texts
    <2> HIDE DEF one, two
    <2>4. CASE u = one  BY <1>2, <2>1, <2>3, <2>4
    <2>5. CASE u = two  BY <1>3, <2>1, <2>2, <2>3, <2>5
    <2> QED  BY <1>4, <1>5, <2>4, <2>5
  <1>7. ASSUME NEW i \in 1..Len(t) PROVE UsedUpTo(u)[i] = UsedUpTo(t)[i]
    BY <1>6, UsedPrefix
  <1>8. Shows(u, n)
    <2>1. UsedUpTo(u)[Len(t) + 1] = Used(one)
      <3>1. /\ Len(one) = Len(t) + 1 /\ one[Len(t) + 1] = n
            /\ \A i \in 1..Len(t) : one[i] = t[i]
        BY DEF Texts
      <3>2. \A i \in 1..(Len(t) + 1) : u[i] = one[i]
        <4> HIDE DEF one
        <4> QED  BY <1>6, <3>1
      <3> HIDE DEF one
      <3>3. UsedUpTo(u)[Len(t) + 1] = UsedUpTo(one)[Len(t) + 1]
        <4>1. Len(t) + 1 \in Nat /\ Len(t) + 1 <= Len(u) /\ Len(t) + 1 <= Len(one)
          <5>1. Len(u) \in Nat  BY <1>6 DEF Texts
          <5> QED  BY <1>6, <3>1, <5>1
        <4> QED  BY <1>2, <1>6, <3>2, <4>1, UsedPrefix
      <3> QED  BY <3>1, <3>3 DEF Used
    <2>2. Len(t) + 1 \in 1..Len(u)
      <3>1. Len(u) \in Nat  BY <1>6 DEF Texts
      <3> QED  BY <1>6, <3>1
    <2>3. Ended(u, Len(t) + 1)
      <3>1. CASE Used(t) + NameLen[n] + 2 < MaxText
        <4>1. u = two  BY <1>4, <1>5, <3>1
        <4>2. Len(two) = Len(t) + 2 /\ two[Len(t) + 2] = NewLine  BY <1>2 DEF Texts
        <4>3. Len(t) + 1 < Len(u) /\ u[Len(t) + 1 + 1] = NewLine
          <5> HIDE DEF two
          <5> QED  BY <1>6, <4>1, <4>2
        <4> QED  BY <4>3 DEF Ended
      <3>2. CASE ~(Used(t) + NameLen[n] + 2 < MaxText)
        <4>1. NameLen[n] \in Nat /\ MaxText \in Nat  BY DirectoryAssumption
        <4>2. Used(one) + 2 >= MaxText
          <5> HIDE DEF one
          <5> QED  BY <1>2, <3>2, <4>1
        <4> QED  BY <2>1, <4>2 DEF Ended
      <3> QED  BY <3>1, <3>2
    <2> QED  BY <1>6, <2>2, <2>3 DEF Shows
  <1>9. ASSUME NEW x \in Names, Shows(t, x) PROVE Shows(u, x)
    <2>1. PICK i \in 1..Len(t) : t[i] = x /\ Ended(t, i)  BY <1>9 DEF Shows
    <2>2. i \in 1..Len(u) /\ i < Len(u)
      <3>1. Len(u) \in Nat  BY <1>6 DEF Texts
      <3> QED  BY <1>6, <3>1
    <2>3. Ended(u, i)
      <3>1. CASE i < Len(t) /\ t[i + 1] = NewLine
        <4>1. i + 1 \in 1..Len(t)  BY <1>6, <3>1
        <4> QED  BY <1>6, <2>2, <3>1, <4>1 DEF Ended
      <3>2. CASE UsedUpTo(t)[i] + 2 >= MaxText  BY <1>7, <3>2 DEF Ended
      <3> QED  BY <2>1, <3>1, <3>2 DEF Ended
    <2> QED  BY <1>6, <2>1, <2>2, <2>3 DEF Shows
  <1> QED  BY <1>5, <1>6, <1>8, <1>9

--------------------------------------------------------------------------------
(* The inductive invariant. *)

\* What a command works on: ls on the current path, every other on the resolved argument.
Wanted(s) == IF op[s] = "ls" THEN currentPath[s] ELSE Normalize(currentPath[s], arg[s])

\* Every file and directory stands in a directory.
Closed == \A q \in DOMAIN tree : q # <<>> => IsDir(Parent(q))

Shapes == /\ DOMAIN currentPath = Sessions /\ DOMAIN target = Sessions
          /\ DOMAIN arg = Sessions /\ DOMAIN listing = Sessions

\* From the resolution of the path to the change of current_path the target is the path
\* the command asked for; an answer stands exactly between the system call and its sending.
InHandler(s) ==
    /\ pc[s] \in {"call", "enter"} => target[s] = Wanted(s) /\ target[s] # NoPath
    /\ pc[s] = "enter" => op[s] = "cd"
    /\ pc[s] = "list" => op[s] = "ls"
    /\ result[s] = "none" <=> pc[s] # "reply"
    /\ IF op[s] = "ls" THEN arg[s] = <<>> ELSE arg[s] \in Args

\* What readdir has returned of the lasting entries is in the text.
Listed(s) == pc[s] = "list" => \A x \in lasting[s] \ coming[s] : Shows(listing[s], x)

IInv == TypeOK /\ Shapes /\ Closed /\ \A s \in Sessions : InHandler(s) /\ Listed(s)

LEMMA InvInit == Init => IInv
  <1> SUFFICES ASSUME Init PROVE IInv  OBVIOUS
  <1> USE DEF Init
  <1>1. IsPath(<<>>)
    <2>1. PathMax \in Nat  BY DirectoryAssumption
    <2> QED  BY <2>1 DEF IsPath
  <1>2. TypeOK
    <2>1. MaxCommands \in Nat  BY DirectoryAssumption
    <2>2. <<>> \in Seq(Names \cup {NewLine})  OBVIOUS
    <2> QED  BY <1>1, <2>1, <2>2 DEF TypeOK, Pcs, Ops
  <1>3. Shapes  BY DEF Shapes
  <1>4. Closed  BY DEF Closed
  <1>5. \A s \in Sessions : InHandler(s) /\ Listed(s)  BY DEF InHandler, Listed
  <1> QED  BY <1>2, <1>3, <1>4, <1>5 DEF IInv

LEMMA LastType ==
    ASSUME NEW p, IsPath(p), p # <<>>
    PROVE  Last(p) \in Names
  <1>1. p \in Seq(Names) /\ Len(p) \in 1..Len(p)  BY DEF IsPath
  <1> QED  BY <1>1 DEF Last

\* The entries of a directory are names.
LEMMA EntriesType ==
    ASSUME TypeOK, NEW p
    PROVE  Entries(p) \subseteq Names
  BY LastType DEF TypeOK, Entries

\* What ReadEntry does to the session that takes it: one more name is shown, or too long.
LEMMA ReadType ==
    ASSUME IInv, NEW s \in Sessions, ReadEntry(s)
    PROVE  /\ coming' = [coming EXCEPT ![s] = coming'[s]] /\ coming'[s] \subseteq coming[s]
           /\ \/ Report(s, "ERROR")
              \/ /\ UNCHANGED <<currentPath, pc, op, arg, result, commands>>
                 /\ listing' = [listing EXCEPT ![s] = listing'[s]] /\ listing'[s] \in Texts
                 /\ \A x \in coming[s] \ coming'[s] : Shows(listing'[s], x)
                 /\ \A x \in Names : Shows(listing[s], x) => Shows(listing'[s], x)
  <1>1. PICK name \in coming[s] :
           /\ coming' = [coming EXCEPT ![s] = @ \ {name}]
           /\ \/ Report(s, "ERROR")
              \/ /\ AddEntry(listing[s], name) # TooLong
                 /\ listing' = [listing EXCEPT ![s] = AddEntry(listing[s], name)]
                 /\ UNCHANGED <<currentPath, pc, op, arg, result, commands>>
    BY DEF ReadEntry
  <1>2. listing[s] \in Texts /\ name \in Names /\ DOMAIN listing = Sessions
        /\ coming \in [Sessions -> SUBSET Names]
    BY DEF IInv, TypeOK, Shapes, Texts
  <1>3. PICK t \in Texts : t = listing[s]  BY <1>2
  <1>4. coming' = [coming EXCEPT ![s] = coming'[s]] /\ coming'[s] = coming[s] \ {name}
    BY <1>1, <1>2
  <1>5. AddEntry(t, name) # TooLong =>
           /\ AddEntry(t, name) \in Texts /\ Shows(AddEntry(t, name), name)
           /\ \A x \in Names : Shows(t, x) => Shows(AddEntry(t, name), x)
    BY <1>2, AddEntryShows
  <1>6. CASE AddEntry(t, name) # TooLong /\ listing' = [listing EXCEPT ![s] = AddEntry(t, name)]
             /\ UNCHANGED <<currentPath, pc, op, arg, result, commands>>
    <2>1. listing'[s] = AddEntry(t, name)  BY <1>2, <1>6
    <2>2. listing' = [listing EXCEPT ![s] = listing'[s]]  BY <1>6, <2>1
    <2> QED  BY <1>3, <1>4, <1>5, <1>6, <2>1, <2>2
  <1> QED  BY <1>1, <1>3, <1>4, <1>6

\* A new entry is news to those who read its directory only.
LEMMA MakeType ==
    ASSUME IInv, NEW p, IsPath(p), NEW kind, Make(p, kind)
    PROVE  /\ tree' = With(p, kind) /\ coming' = [t \in Sessions |-> coming'[t]]
           /\ \A t \in Sessions : /\ coming[t] \subseteq coming'[t] /\ coming'[t] \subseteq Names
                                  /\ pc[t] # "list" => coming'[t] = coming[t]
  <1>1. coming \in [Sessions -> SUBSET Names]  BY DEF IInv, TypeOK
  <1>2. ASSUME NEW t \in Sessions
        PROVE  /\ coming[t] \subseteq coming'[t] /\ coming'[t] \subseteq Names
               /\ pc[t] # "list" => coming'[t] = coming[t]
    <2>1. CASE Reads(t, p) /\ p \notin DOMAIN tree
      <3>1. coming'[t] = coming[t] \cup {Last(p)}  BY <2>1 DEF Make
      <3>2. Last(p) \in Names /\ pc[t] = "list"  BY <2>1, LastType DEF Reads
      <3> QED  BY <1>1, <3>1, <3>2
    <2>2. CASE ~(Reads(t, p) /\ p \notin DOMAIN tree)
      <3>1. coming'[t] = coming[t]  BY <2>2 DEF Make
      <3> QED  BY <1>1, <3>1
    <2> QED  BY <2>1, <2>2
  <1> QED  BY <1>2 DEF Make

\* An rm takes from the others at most the path they list and what they are to find there.
LEMMA RemoveType ==
    ASSUME IInv, NEW s \in Sessions, RemovePath(s)
    PROVE  /\ Report(s, "ACK") \/ Report(s, "ERROR")
           /\ coming' = coming /\ lasting' = [t \in Sessions |-> lasting'[t]]
           /\ DOMAIN target' = Sessions
           /\ \A t \in Sessions :
                 /\ target'[t] = target[t] \/ (pc[t] = "list" /\ target'[t] = NoPath)
                 /\ lasting'[t] \subseteq lasting[t]
  <1> DEFINE p == target[s]
  <1>1. coming' = coming  BY DEF RemovePath
  <1>2. CASE p \in DOMAIN tree /\ ~HasEntries(p)
    <2>1. /\ Report(s, "ACK")
          /\ target' = [t \in Sessions |-> IF pc[t] = "list" /\ target[t] = p
                                            THEN NoPath ELSE target[t]]
          /\ lasting' = [t \in Sessions |-> IF Reads(t, p)
                                             THEN lasting[t] \ {Last(p)} ELSE lasting[t]]
      BY <1>2 DEF RemovePath
    <2> QED  BY <1>1, <2>1
  <1>3. CASE ~(p \in DOMAIN tree /\ ~HasEntries(p))
    <2>1. Report(s, "ERROR") /\ UNCHANGED <<target, lasting>>  BY <1>3 DEF RemovePath
    <2> QED  BY <1>1, <2>1 DEF IInv, Shapes, TypeOK
  <1> QED  BY <1>2, <1>3

\* The target of a system call is a path.
LEMMA TargetPath ==
    ASSUME IInv, NEW s \in Sessions, pc[s] \in {"call", "enter"}
    PROVE  IsPath(target[s])
  BY DEF IInv, TypeOK, InHandler

\* The other sessions keep what they have; an rm may take away what one of them lists.
LEMMA OthersKept ==
    ASSUME IInv, NEW s \in Sessions, User(s) \/ Worker(s), NEW t \in Sessions, t # s
    PROVE  /\ currentPath'[t] = currentPath[t] /\ pc'[t] = pc[t] /\ op'[t] = op[t]
           /\ arg'[t] = arg[t] /\ result'[t] = result[t] /\ listing'[t] = listing[t]
           /\ target'[t] = target[t] \/ (pc[t] = "list" /\ target'[t] = NoPath)
           /\ lasting'[t] \subseteq lasting[t]
           /\ coming[t] \subseteq coming'[t] /\ coming'[t] \subseteq Names
  <1> USE DEF IInv, Shapes, TypeOK, Goto, Report, lsVars
  <1>1. CASE (\E o \in Ops, a \in Args \cup {<<>>} : Receive(s, o, a)) \/ NewSession(s)
    BY <1>1 DEF Receive, NewSession
  <1>2. CASE Resolve(s)  BY <1>2 DEF Resolve
  <1>3. CASE OpenDirForCd(s) \/ OpenDirForLs(s) \/ OpenDirFails(s) \/ CallFails(s)
             \/ Enter(s) \/ ListEnds(s)
    BY <1>3 DEF OpenDirForCd, OpenDirForLs, OpenDirFails, CallFails, Enter, ListEnds
  <1>4. CASE ReadEntry(s)  BY <1>4, ReadType DEF ReadEntry
  <1>5. CASE MakeDir(s) \/ CreateFile(s)
    <2>1. IsPath(target[s])  BY <1>5, TargetPath DEF MakeDir, CreateFile, Calling
    <2>2. CASE \E kind : Make(target[s], kind)
      BY <1>5, <2>1, <2>2, MakeType DEF MakeDir, CreateFile
    <2>3. CASE UNCHANGED coming  BY <1>5, <2>3 DEF MakeDir, CreateFile
    <2>4. (\E kind : Make(target[s], kind)) \/ UNCHANGED coming
      BY <1>5 DEF MakeDir, CreateFile
    <2> QED  BY <2>2, <2>3, <2>4
  <1>7. CASE RemovePath(s)  BY <1>7, RemoveType
  <1>8. CASE Reply(s)  BY <1>8 DEF Reply
  <1> QED  BY <1>1, <1>2, <1>3, <1>4, <1>5, <1>7, <1>8 DEF User, Worker, Ops

LEMMA ShapesNext ==
    ASSUME IInv, NEW s \in Sessions, User(s) \/ Worker(s)
    PROVE  /\ Shapes' /\ pc' = [t \in Sessions |-> pc'[t]]
           /\ op' = [t \in Sessions |-> op'[t]] /\ result' = [t \in Sessions |-> result'[t]]
           /\ lasting' = [t \in Sessions |-> lasting'[t]]
           /\ coming' = [t \in Sessions |-> coming'[t]]
  <1> USE DEF IInv, Shapes, TypeOK, Goto, Report, lsVars
  <1>1. CASE (\E o \in Ops, a \in Args \cup {<<>>} : Receive(s, o, a)) \/ NewSession(s)
    BY <1>1 DEF Receive, NewSession
  <1>2. CASE Resolve(s)  BY <1>2 DEF Resolve
  <1>3. CASE OpenDirForCd(s) \/ OpenDirForLs(s) \/ OpenDirFails(s) \/ CallFails(s)
             \/ Enter(s) \/ ListEnds(s)
    BY <1>3 DEF OpenDirForCd, OpenDirForLs, OpenDirFails, CallFails, Enter, ListEnds
  <1>4. CASE ReadEntry(s)  BY <1>4, ReadType DEF ReadEntry
  <1>5. CASE MakeDir(s) \/ CreateFile(s)
    <2>1. IsPath(target[s])  BY <1>5, TargetPath DEF MakeDir, CreateFile, Calling
    <2>2. CASE \E kind : Make(target[s], kind)
      BY <1>5, <2>1, <2>2, MakeType DEF MakeDir, CreateFile
    <2>3. CASE UNCHANGED coming  BY <1>5, <2>3 DEF MakeDir, CreateFile
    <2>4. (\E kind : Make(target[s], kind)) \/ UNCHANGED coming
      BY <1>5 DEF MakeDir, CreateFile
    <2> QED  BY <2>2, <2>3, <2>4
  <1>7. CASE RemovePath(s)  BY <1>7, RemoveType
  <1>8. CASE Reply(s)  BY <1>8 DEF Reply
  <1> QED  BY <1>1, <1>2, <1>3, <1>4, <1>5, <1>7, <1>8 DEF User, Worker, Ops

TreeOK == /\ \A p \in DOMAIN tree : IsPath(p) /\ tree[p] \in {"dir", "file"}
          /\ \A p \in removed : IsPath(p)
          /\ Closed

\* A new entry goes into a directory that is there and takes no directory's place.
LEMMA AddKeepsTree ==
    ASSUME TreeOK, NEW p, IsPath(p), ~IsDir(p), InDir(p), NEW kind \in {"dir", "file"},
           tree' = With(p, kind), UNCHANGED removed
    PROVE  TreeOK'
  <1>1. DOMAIN tree' = DOMAIN tree \cup {p} /\ tree'[p] = kind
        /\ \A q \in DOMAIN tree : q # p => tree'[q] = tree[q]
    BY DEF With
  <1>2. \A q : IsDir(q) => IsDir(q)'  BY <1>1 DEF IsDir
  <1>4. ASSUME NEW q \in DOMAIN tree', q # <<>> PROVE IsDir(Parent(q))'
    <2>1. IsDir(Parent(q))  BY <1>1, <1>4 DEF TreeOK, Closed, InDir
    <2>2. PICK r : r = Parent(q)  OBVIOUS
    <2>3. IsDir(r)'  BY <1>2, <2>1, <2>2
    <2> QED  BY <2>2, <2>3 DEF Parent, IsDir
  <1>5. Closed'  BY <1>4 DEF Closed, Parent
  <1> QED  BY <1>1, <1>5 DEF TreeOK

\* What has no entries can go.
LEMMA RemoveKeepsTree ==
    ASSUME TreeOK, NEW p \in DOMAIN tree, ~HasEntries(p),
           tree' = [q \in DOMAIN tree \ {p} |-> tree[q]], removed' = removed \cup {p}
    PROVE  TreeOK'
  <1>1. DOMAIN tree' = DOMAIN tree \ {p} /\ \A q \in DOMAIN tree' : tree'[q] = tree[q]  OBVIOUS
  <1>3. ASSUME NEW q \in DOMAIN tree', q # <<>> PROVE IsDir(Parent(q))'
    <2>1. IsDir(Parent(q)) /\ Parent(q) # p  BY <1>1, <1>3 DEF TreeOK, Closed, HasEntries
    <2> QED  BY <1>1, <2>1 DEF Parent, IsDir
  <1>4. Closed'  BY <1>3 DEF Closed, Parent
  <1> QED  BY <1>1, <1>4 DEF TreeOK

LEMMA TreeNext ==
    ASSUME IInv, [Next]_vars
    PROVE  TreeOK'
  <1>1. TreeOK  BY DEF IInv, TypeOK, TreeOK
  <1>2. CASE UNCHANGED <<tree, removed>>  BY <1>1, <1>2 DEF TreeOK, Closed, IsDir
  <1>3. ASSUME NEW s \in Sessions, MakeDir(s) PROVE TreeOK'
    <2>1. CASE target[s] \notin DOMAIN tree /\ InDir(target[s])
      <3>1. IsPath(target[s])  BY <1>3, TargetPath DEF MakeDir, Calling
      <3>2. tree' = With(target[s], "dir") /\ UNCHANGED removed  BY <1>3, <2>1 DEF MakeDir, Make
      <3> QED  BY <1>1, <2>1, <3>1, <3>2, AddKeepsTree DEF IsDir
    <2>2. CASE ~(target[s] \notin DOMAIN tree /\ InDir(target[s]))
      BY <1>2, <1>3, <2>2 DEF MakeDir
    <2> QED  BY <2>1, <2>2
  <1>4. ASSUME NEW s \in Sessions, CreateFile(s) PROVE TreeOK'
    <2>1. CASE ~IsDir(target[s]) /\ InDir(target[s])
      <3>1. IsPath(target[s])  BY <1>4, TargetPath DEF CreateFile, Calling
      <3>2. tree' = With(target[s], "file") /\ UNCHANGED removed  BY <1>4, <2>1 DEF CreateFile, Make
      <3> QED  BY <1>1, <2>1, <3>1, <3>2, AddKeepsTree
    <2>2. CASE ~(~IsDir(target[s]) /\ InDir(target[s]))
      BY <1>2, <1>4, <2>2 DEF CreateFile
    <2> QED  BY <2>1, <2>2
  <1>5. ASSUME NEW s \in Sessions, RemovePath(s) PROVE TreeOK'
    <2>1. CASE target[s] \in DOMAIN tree /\ ~HasEntries(target[s])
      BY <1>1, <1>5, <2>1, RemoveKeepsTree DEF RemovePath
    <2>2. CASE ~(target[s] \in DOMAIN tree /\ ~HasEntries(target[s]))
      BY <1>2, <1>5, <2>2 DEF RemovePath
    <2> QED  BY <2>1, <2>2
  <1> QED
    BY <1>2, <1>3, <1>4, <1>5
    DEF Next, User, Worker, vars, Receive, NewSession, Resolve, OpenDirForCd, OpenDirForLs,
        OpenDirFails, CallFails, Enter, ReadEntry, ListEnds, Reply

\* What TypeOK and the invariant say of one session.
SessionOK(s) ==
    /\ IsPath(currentPath[s]) /\ (target[s] = NoPath \/ IsPath(target[s]))
    /\ pc[s] \in Pcs /\ op[s] \in Ops /\ result[s] \in {"none", "ACK", "ERROR", "FAILED"}
    /\ listing[s] \in Texts /\ lasting[s] \subseteq Names /\ coming[s] \subseteq Names
    /\ InHandler(s) /\ Listed(s)

\* A step leaves the session that takes it as the invariant wants it.
LEMMA ActorNext ==
    ASSUME IInv, NEW s \in Sessions, User(s) \/ Worker(s)
    PROVE  SessionOK(s)'
  <1> USE DEF IInv, Shapes, TypeOK, SessionOK, InHandler, Listed, Goto, Texts, lsVars
  <1>1. IsPath(<<>>) /\ <<>> \in Texts
    <2>1. PathMax \in Nat  BY DirectoryAssumption
    <2> QED  BY <2>1 DEF IsPath
  <1>2. ASSUME NEW o \in Ops, NEW a, Receive(s, o, a), IF o = "ls" THEN a = <<>> ELSE a \in Args
        PROVE  SessionOK(s)'
    BY <1>2 DEF Receive, Pcs
  <1>3. CASE NewSession(s)  BY <1>1, <1>3 DEF NewSession
  <1>4. CASE Resolve(s)
    <2>1. target'[s] = Wanted(s) /\ Wanted(s)' = Wanted(s)  BY <1>4 DEF Resolve, Wanted
    <2>2. target'[s] = NoPath \/ IsPath(target'[s])
      <3>1. CASE op[s] = "ls"  BY <2>1, <3>1 DEF Wanted
      <3>2. CASE op[s] # "ls"  BY <2>1, <3>2, NormalizeType DEF Wanted, IsPath
      <3> QED  BY <3>1, <3>2
    <2>3. CASE target'[s] = NoPath
      <3>1. /\ pc'[s] = "reply" /\ result'[s] = "ERROR"
            /\ UNCHANGED <<currentPath, op, arg, listing, lasting, coming>>
        BY <1>4, <2>3 DEF Resolve
      <3> QED  BY <2>3, <3>1 DEF Pcs
    <2>4. CASE target'[s] # NoPath
      <3>1. /\ pc'[s] = "call" /\ pc[s] = "resolve"
            /\ UNCHANGED <<currentPath, op, arg, listing, lasting, coming, result>>
        BY <1>4, <2>4 DEF Resolve
      <3> QED  BY <2>1, <2>2, <2>4, <3>1 DEF Pcs
    <2> QED  BY <2>3, <2>4
  <1>5. CASE OpenDirForCd(s)  BY <1>5 DEF OpenDirForCd, Calling, Wanted, Pcs
  <1>6. CASE OpenDirForLs(s)
    <2>1. Entries(target[s]) \subseteq Names  BY EntriesType
    <2> QED  BY <1>6, <2>1 DEF OpenDirForLs, Calling, Pcs
  <1>7. CASE Enter(s)  BY <1>7, TargetPath DEF Enter, Pcs
  \* An answer to a system call.
  <1>8. ASSUME NEW a \in {"ACK", "ERROR", "FAILED"}, Report(s, a),
               target'[s] = target[s] \/ target'[s] = NoPath,
               lasting'[s] \subseteq Names, coming'[s] \subseteq Names
        PROVE  SessionOK(s)'
    BY <1>8 DEF Report, Pcs
  <1>9. CASE OpenDirFails(s) \/ CallFails(s) \/ ListEnds(s)
    BY <1>8, <1>9 DEF OpenDirFails, CallFails, ListEnds
  <1>10. CASE MakeDir(s) \/ CreateFile(s)
    <2>1. IsPath(target[s])  BY <1>10, TargetPath DEF MakeDir, CreateFile, Calling
    <2>2. coming'[s] \subseteq Names
      <3>1. CASE \E kind : Make(target[s], kind)  BY <2>1, <3>1, MakeType
      <3> QED  BY <1>10, <3>1 DEF MakeDir, CreateFile
    <2> QED  BY <1>8, <1>10, <2>2 DEF MakeDir, CreateFile
  <1>12. CASE RemovePath(s)
    <2>1. /\ Report(s, "ACK") \/ Report(s, "ERROR")
          /\ target'[s] = target[s] \/ target'[s] = NoPath
          /\ lasting'[s] \subseteq lasting[s] /\ coming' = coming
      BY <1>12, RemoveType
    <2>2. lasting'[s] \subseteq Names /\ coming'[s] \subseteq Names  BY <2>1
    <2>3. CASE Report(s, "ACK")  BY <1>8, <2>1, <2>2, <2>3
    <2>4. CASE Report(s, "ERROR")  BY <1>8, <2>1, <2>2, <2>4
    <2> QED  BY <2>1, <2>3, <2>4
  <1>13. CASE ReadEntry(s)
    <2>1. coming'[s] \subseteq Names /\ lasting' = lasting /\ target' = target /\ pc[s] = "list"
      BY <1>13, ReadType DEF ReadEntry
    <2>2. CASE Report(s, "ERROR")  BY <1>8, <2>1, <2>2
    <2>3. CASE /\ UNCHANGED <<currentPath, pc, op, arg, result, commands>>
               /\ listing'[s] \in Texts
               /\ \A x \in coming[s] \ coming'[s] : Shows(listing'[s], x)
               /\ \A x \in Names : Shows(listing[s], x) => Shows(listing'[s], x)
      <3>1. \A x \in lasting'[s] \ coming'[s] : Shows(listing'[s], x)  BY <2>1, <2>3
      <3> QED  BY <2>1, <2>3, <3>1
    <2> QED  BY <1>13, <2>2, <2>3, ReadType
  <1>14. CASE Reply(s)  BY <1>1, <1>14 DEF Reply, Pcs, Ops
  <1>15. CASE User(s)
    <2>1. "ls" \in Ops  BY DEF Ops
    <2> QED  BY <1>2, <1>3, <1>15, <2>1 DEF User
  <1> QED
    BY <1>4, <1>5, <1>6, <1>7, <1>9, <1>10, <1>12, <1>13, <1>14, <1>15 DEF Worker

LEMMA InvNext == IInv /\ [Next]_vars => IInv'
  <1> SUFFICES ASSUME IInv, [Next]_vars PROVE IInv'  OBVIOUS
  <1>1. TreeOK'  BY TreeNext
  <1>2. ASSUME NEW s \in Sessions, User(s) \/ Worker(s) PROVE IInv'
    <2>1. ASSUME NEW t \in Sessions PROVE SessionOK(t)'
      <3>1. CASE t = s  BY <1>2, <3>1, ActorNext
      <3>2. CASE t # s
        <4>1. /\ currentPath'[t] = currentPath[t] /\ pc'[t] = pc[t] /\ op'[t] = op[t]
              /\ arg'[t] = arg[t] /\ result'[t] = result[t] /\ listing'[t] = listing[t]
              /\ target'[t] = target[t] \/ (pc[t] = "list" /\ target'[t] = NoPath)
              /\ lasting'[t] \subseteq lasting[t]
              /\ coming[t] \subseteq coming'[t] /\ coming'[t] \subseteq Names
          BY <1>2, <3>2, OthersKept
        <4>2. InHandler(t)'  BY <4>1 DEF IInv, InHandler, Wanted
        <4>3. Listed(t)'  BY <4>1 DEF IInv, Listed
        <4> QED  BY <4>1, <4>2, <4>3 DEF IInv, TypeOK, SessionOK, Texts
      <3> QED  BY <3>1, <3>2
    <2>2. /\ Shapes' /\ pc' = [t \in Sessions |-> pc'[t]]
          /\ op' = [t \in Sessions |-> op'[t]] /\ result' = [t \in Sessions |-> result'[t]]
          /\ lasting' = [t \in Sessions |-> lasting'[t]]
          /\ coming' = [t \in Sessions |-> coming'[t]]
      BY <1>2, ShapesNext
    <2>3. commands' \in 0..MaxCommands
      <3>1. MaxCommands \in Nat  BY DirectoryAssumption
      <3> QED
        BY <1>2, <3>1
        DEF IInv, TypeOK, User, Worker, Receive, NewSession, Resolve, OpenDirForCd, OpenDirForLs,
            OpenDirFails, CallFails, Enter, ReadEntry, ListEnds, MakeDir, CreateFile, RemovePath,
            Reply, Report
    <2>4. TypeOK'
      <3>1. /\ \A t \in Sessions : pc'[t] \in Pcs /\ op'[t] \in Ops
            /\ \A t \in Sessions : result'[t] \in {"none", "ACK", "ERROR", "FAILED"}
            /\ \A t \in Sessions : lasting'[t] \subseteq Names /\ coming'[t] \subseteq Names
        BY <2>1 DEF SessionOK
      <3>2. /\ pc' \in [Sessions -> Pcs] /\ op' \in [Sessions -> Ops]
            /\ result' \in [Sessions -> {"none", "ACK", "ERROR", "FAILED"}]
            /\ lasting' \in [Sessions -> SUBSET Names] /\ coming' \in [Sessions -> SUBSET Names]
        BY <2>2, <3>1
      <3> QED  BY <1>1, <2>1, <2>3, <3>2 DEF TypeOK, TreeOK, SessionOK, Texts
    <2> QED  BY <1>1, <2>1, <2>2, <2>4 DEF IInv, TreeOK, SessionOK
  <1>3. CASE UNCHANGED vars
    BY <1>1, <1>3 DEF vars, lsVars, IInv, TypeOK, TreeOK, Shapes, InHandler, Listed, Wanted
  <1> QED  BY <1>2, <1>3 DEF Next

\* The inductive invariant, whatever the sessions do.
THEOREM Invariance == Spec => []IInv
  BY InvInit, InvNext, PTL DEF Spec

\* Types: every current path and every target is a path of names below SERVER_BASE_DIR,
\* however many ".." the arguments have, and every answer to ls a text of names.
THEOREM Types == Spec => []TypeOK
  <1>1. IInv => TypeOK  BY DEF IInv
  <1> QED  BY <1>1, Invariance, PTL

--------------------------------------------------------------------------------
(* A successful ls. *)

\* A successful ls names every entry that stays from opendir to the end of readdir in
\* full, each on a line of its own as long as there is room for line ends, in whatever
\* order readdir gives them and however many sessions make and remove entries meanwhile.
THEOREM ListsAll == Spec => ListingWhole
  <1> DEFINE Whole(s) == LET text == listing'[s]
                         IN  \A name \in lasting[s] : \E i \in 1..Len(text) :
                                /\ text[i] = name
                                /\ i < Len(text) /\ text[i + 1] # NewLine =>
                                      Used(SubSeq(text, 1, i)) + 2 >= MaxText
  <1>1. ASSUME IInv, [Next]_vars, NEW s \in Sessions, pc[s] = "list", result'[s] = "ACK"
        PROVE  Whole(s)
    <2>1. result[s] = "none" /\ op[s] = "ls"  BY <1>1 DEF IInv, InHandler
    <2>2. ListEnds(s)
      <3>1. ~UNCHANGED vars  BY <1>1, <2>1 DEF vars
      <3>2. PICK t \in Sessions : User(t) \/ Worker(t)  BY <1>1, <3>1 DEF Next
      <3>3. t = s  BY <1>1, <2>1, <3>2, OthersKept
      <3>4. ~ReadEntry(s)
        <4>1. ReadEntry(s) => result' = result \/ result' = [result EXCEPT ![s] = "ERROR"]
          BY DEF ReadEntry, Report
        <4> QED  BY <1>1, <2>1, <4>1 DEF IInv, TypeOK
      <3> QED
        BY <1>1, <3>2, <3>3, <3>4
        DEF User, Worker, Receive, NewSession, Resolve, OpenDirForCd, OpenDirForLs, OpenDirFails,
            CallFails, Enter, MakeDir, CreateFile, RemovePath, Reply, Calling
    <2>3. PICK text \in Texts : text = listing[s]  BY <1>1 DEF IInv, TypeOK, Texts
    <2>4. listing'[s] = text  BY <2>2, <2>3 DEF ListEnds, Report
    <2>5. ASSUME NEW x \in lasting[s]
          PROVE  \E i \in 1..Len(text) :
                    /\ text[i] = x
                    /\ i < Len(text) /\ text[i + 1] # NewLine =>
                          Used(SubSeq(text, 1, i)) + 2 >= MaxText
      <3>1. Shows(text, x)  BY <1>1, <2>2, <2>3 DEF IInv, Listed, ListEnds
      <3>2. PICK i \in 1..Len(text) : text[i] = x /\ Ended(text, i)  BY <3>1 DEF Shows
      <3>3. Used(SubSeq(text, 1, i)) = UsedUpTo(text)[i]
        <4>1. PICK u : u = SubSeq(text, 1, i)  OBVIOUS
        <4>2. /\ u \in Texts /\ Len(u) = i /\ i \in Nat /\ i <= Len(text)
              /\ \A j \in 1..i : u[j] = text[j]
          BY <4>1 DEF Texts
        <4>3. UsedUpTo(u)[i] = UsedUpTo(text)[i]  BY <4>2, UsedPrefix
        <4> QED  BY <4>1, <4>2, <4>3 DEF Used
      <3> QED  BY <3>2, <3>3 DEF Ended
    <2> QED  BY <2>4, <2>5
  <1>2. IInv /\ [Next]_vars =>
           [\A s \in Sessions : pc[s] = "list" /\ result'[s] = "ACK" => Whole(s)]_vars
    BY <1>1
  <1> QED  BY <1>2, Invariance, PTL DEF Spec, ListingWhole

--------------------------------------------------------------------------------
(* Lost directories. *)

\* What can be found in the tree, or rm has taken away.
Known(p) == IsDir(p) \/ p \in removed

\* Between opendir and the change of current_path the directory may go, by rm only.
LostInv == /\ DOMAIN currentPath = Sessions /\ DOMAIN target = Sessions /\ DOMAIN pc = Sessions
           /\ Known(<<>>)
           /\ \A s \in Sessions : /\ Known(currentPath[s])
                                  /\ pc[s] = "enter" => Known(target[s])

LEMMA LostInit == Init => LostInv
  <1> SUFFICES ASSUME Init PROVE LostInv  OBVIOUS
  <1>1. IsDir(<<>>)  BY DEF Init, IsDir
  <1> QED  BY <1>1 DEF Init, LostInv, Known

\* No command but rm takes a directory away, and no file takes its place.
LEMMA KnownStays ==
    ASSUME NEW p, Known(p), [Next]_vars
    PROVE  Known(p)'
  <1>1. ASSUME NEW s \in Sessions, MakeDir(s) PROVE Known(p)'
    BY <1>1 DEF MakeDir, Make, Known, IsDir, With
  <1>2. ASSUME NEW s \in Sessions, CreateFile(s) PROVE Known(p)'
    BY <1>2 DEF CreateFile, Make, Known, IsDir, With
  <1>3. ASSUME NEW s \in Sessions, RemovePath(s) PROVE Known(p)'
    BY <1>3 DEF RemovePath, Known, IsDir
  <1>4. UNCHANGED <<tree, removed>> => Known(p)'  BY DEF Known, IsDir
  <1> QED
    BY <1>1, <1>2, <1>3, <1>4
    DEF Next, User, Worker, vars, Receive, NewSession, Resolve, OpenDirForCd, OpenDirForLs,
        OpenDirFails, CallFails, Enter, ReadEntry, ListEnds, Reply

LEMMA LostNext == LostInv /\ [Next]_vars => LostInv'
  <1> SUFFICES ASSUME LostInv, [Next]_vars PROVE LostInv'  OBVIOUS
  <1>1. ASSUME NEW p, Known(p) PROVE Known(p)'  BY <1>1, KnownStays
  <1>2. Known(<<>>)'  BY <1>1 DEF LostInv
  \* It is enough to know what the step does to current_path and to who is in handle_cd.
  <1>3. ASSUME DOMAIN currentPath' = Sessions, DOMAIN target' = Sessions, DOMAIN pc' = Sessions,
               \A t \in Sessions : currentPath'[t] = currentPath[t] \/ Known(currentPath[t])',
               \A t \in Sessions : pc'[t] = "enter" =>
                  (pc[t] = "enter" /\ target'[t] = target[t]) \/ Known(target[t])'
        PROVE  LostInv'
    <2>1. ASSUME NEW t \in Sessions PROVE Known(currentPath[t])'
      <3>1. PICK p : p = currentPath[t]  OBVIOUS
      <3>2. Known(p)'  BY <1>1, <3>1 DEF LostInv
      <3> QED  BY <1>3, <3>1, <3>2 DEF Known, IsDir
    <2>2. ASSUME NEW t \in Sessions, pc'[t] = "enter" PROVE Known(target[t])'
      <3>1. PICK p : p = target[t]  OBVIOUS
      <3>2. pc[t] = "enter" => Known(p)'  BY <1>1, <3>1 DEF LostInv
      <3> QED  BY <1>3, <2>2, <3>1, <3>2 DEF Known, IsDir
    <2> QED  BY <1>2, <1>3, <2>1, <2>2 DEF LostInv
  <1>4. ASSUME NEW s \in Sessions, User(s) \/ Worker(s) PROVE LostInv'
    <2> USE DEF LostInv, Goto, Report
    <2>1. CASE (\E o \in Ops, a \in Args \cup {<<>>} : Receive(s, o, a)) \/ Resolve(s)
               \/ OpenDirForLs(s) \/ OpenDirFails(s) \/ CallFails(s) \/ ReadEntry(s) \/ ListEnds(s)
               \/ MakeDir(s) \/ CreateFile(s) \/ Reply(s)
      <3>1. /\ DOMAIN currentPath' = Sessions /\ DOMAIN target' = Sessions /\ DOMAIN pc' = Sessions
            /\ currentPath' = currentPath
            /\ \A t \in Sessions : pc'[t] = "enter" => pc[t] = "enter" /\ target'[t] = target[t]
        BY <2>1
        DEF Receive, Resolve, OpenDirForLs, OpenDirFails, CallFails, ReadEntry, ListEnds, MakeDir,
            CreateFile, Reply, Calling
      <3> QED  BY <1>3, <3>1
    <2>2. CASE NewSession(s)
      <3>1. /\ DOMAIN currentPath' = Sessions /\ target' = target /\ pc' = pc
            /\ \A t \in Sessions : currentPath'[t] = currentPath[t] \/ currentPath'[t] = <<>>
        BY <2>2 DEF NewSession
      <3>2. \A t \in Sessions : currentPath'[t] = currentPath[t] \/ Known(currentPath[t])'
        BY <1>2, <3>1 DEF Known, IsDir
      <3> QED  BY <1>3, <3>1, <3>2
    <2>3. CASE OpenDirForCd(s)
      <3>1. /\ currentPath' = currentPath /\ target' = target /\ DOMAIN pc' = Sessions
            /\ \A t \in Sessions : t # s => pc'[t] = pc[t]
            /\ IsDir(target[s]) /\ tree' = tree
        BY <2>3 DEF OpenDirForCd
      <3>2. \A t \in Sessions : pc'[t] = "enter" =>
               (pc[t] = "enter" /\ target'[t] = target[t]) \/ Known(target[t])'
        BY <3>1 DEF Known, IsDir
      <3> QED  BY <1>3, <3>1, <3>2
    <2>4. CASE Enter(s)
      <3>1. /\ DOMAIN currentPath' = Sessions /\ target' = target /\ DOMAIN pc' = Sessions
            /\ \A t \in Sessions : pc'[t] = "enter" => pc[t] = "enter"
            /\ \A t \in Sessions : t # s => currentPath'[t] = currentPath[t]
            /\ currentPath'[s] = target[s] /\ pc[s] = "enter"
            /\ tree' = tree /\ removed' = removed
        BY <2>4 DEF Enter
      <3>2. \A t \in Sessions : currentPath'[t] = currentPath[t] \/ Known(currentPath[t])'
        BY <3>1 DEF Known, IsDir
      <3> QED  BY <1>3, <3>1, <3>2
    <2>5. CASE RemovePath(s)
      <3>1. /\ DOMAIN currentPath' = Sessions /\ DOMAIN target' = Sessions /\ DOMAIN pc' = Sessions
            /\ currentPath' = currentPath
            /\ \A t \in Sessions : pc'[t] = "enter" => pc[t] = "enter" /\ target'[t] = target[t]
        BY <2>5 DEF RemovePath
      <3> QED  BY <1>3, <3>1
    <2> QED  BY <1>4, <2>1, <2>2, <2>3, <2>4, <2>5 DEF User, Worker, Ops
  <1>5. CASE UNCHANGED vars  BY <1>3, <1>5 DEF vars, LostInv
  <1> QED  BY <1>4, <1>5 DEF Next

\* A session finds itself in a directory that does not exist only if some rm has removed
\* it, however opendir and the change of current_path are interleaved with other commands.
THEOREM LostByRemoval == Spec => []LostOnlyByRemoval
  <1>1. LostInv => LostOnlyByRemoval  BY DEF LostInv, LostOnlyByRemoval, Known
  <1> QED  BY <1>1, LostInit, LostNext, PTL DEF Spec

--------------------------------------------------------------------------------
(* Where a path leads: token by token, or at once. *)

LEMMA SameCardinality == \A S : DS!Cardinality(S) = Cardinality(S)
  BY DEF DS!Cardinality, Cardinality

\* The numbers in P from i to j.
Among(P, i, j) == {k \in i..j : k \in P}

LEMMA CountNext ==
    ASSUME NEW P, NEW i \in Nat, NEW m \in Nat, i <= m + 1
    PROVE  /\ Cardinality(Among(P, i, m)) \in Nat
           /\ Cardinality(Among(P, i, m + 1)) =
                 Cardinality(Among(P, i, m)) + (IF m + 1 \in P THEN 1 ELSE 0)
  <1>1. IsFiniteSet(Among(P, i, m))
    <2>1. PICK a \in Int : a = i  OBVIOUS
    <2>2. PICK b \in Int : b = m  OBVIOUS
    <2>3. IsFiniteSet(a..b)  BY FS_Interval
    <2>4. Among(P, i, m) \in SUBSET (a..b)  BY <2>1, <2>2 DEF Among
    <2> QED  BY <2>3, <2>4, FS_Subset
  <1>2. Cardinality(Among(P, i, m)) \in Nat  BY <1>1, FS_CardinalityType
  <1>3. CASE m + 1 \in P
    <2>1. Among(P, i, m + 1) = Among(P, i, m) \cup {m + 1}  BY <1>3 DEF Among
    <2>2. m + 1 \notin Among(P, i, m)  BY DEF Among
    <2> QED  BY <1>1, <1>2, <1>3, <2>1, <2>2, FS_AddElement
  <1>4. CASE m + 1 \notin P
    <2>1. Among(P, i, m + 1) = Among(P, i, m)  BY <1>4 DEF Among
    <2> QED  BY <1>2, <1>4, <2>1
  <1> QED  BY <1>2, <1>3, <1>4

LEMMA CountNone ==
    ASSUME NEW P, NEW i \in Nat, NEW j \in Nat, j < i
    PROVE  Cardinality(Among(P, i, j)) = 0
  <1>1. Among(P, i, j) = {}  BY DEF Among
  <1> QED  BY <1>1, FS_EmptySet

NamesOf(t) == {k \in 1..Len(t) : t[k] \in Names}
UpsOf(t)   == {k \in 1..Len(t) : t[k] = ".."}

LEMMA DownUp ==
    ASSUME NEW t \in Seq(Tokens), NEW i \in Nat, i > 0, NEW j \in Nat, j <= Len(t)
    PROVE  /\ DS!Down(t, i, j) = Cardinality(Among(NamesOf(t), i, j))
           /\ DS!Up(t, i, j) = Cardinality(Among(UpsOf(t), i, j))
  <1>1. \A k \in i..j : k \in 1..Len(t)  OBVIOUS
  <1>2. {k \in i..j : t[k] \in Names} = Among(NamesOf(t), i, j)  BY <1>1 DEF Among, NamesOf
  <1>3. {k \in i..j : t[k] = ".."} = Among(UpsOf(t), i, j)  BY <1>1 DEF Among, UpsOf
  <1> QED  BY <1>2, <1>3, SameCardinality DEF DS!Down, DS!Up

\* One more component adds to the counts what it is.
LEMMA DownUpNext ==
    ASSUME NEW t \in Seq(Tokens), NEW i \in Nat, i > 0, NEW m \in Nat, m + 1 <= Len(t), i <= m + 1
    PROVE  /\ DS!Down(t, i, m) \in Nat /\ DS!Up(t, i, m) \in Nat
           /\ t[m + 1] \in Names => /\ DS!Down(t, i, m + 1) = DS!Down(t, i, m) + 1
                                    /\ DS!Up(t, i, m + 1) = DS!Up(t, i, m)
           /\ t[m + 1] = ".." => /\ DS!Down(t, i, m + 1) = DS!Down(t, i, m)
                                 /\ DS!Up(t, i, m + 1) = DS!Up(t, i, m) + 1
           /\ t[m + 1] = "." => /\ DS!Down(t, i, m + 1) = DS!Down(t, i, m)
                                /\ DS!Up(t, i, m + 1) = DS!Up(t, i, m)
  <1>1. /\ DS!Down(t, i, m) = Cardinality(Among(NamesOf(t), i, m))
        /\ DS!Up(t, i, m) = Cardinality(Among(UpsOf(t), i, m))
        /\ DS!Down(t, i, m + 1) = Cardinality(Among(NamesOf(t), i, m + 1))
        /\ DS!Up(t, i, m + 1) = Cardinality(Among(UpsOf(t), i, m + 1))
    BY DownUp
  <1>2. /\ Cardinality(Among(NamesOf(t), i, m)) \in Nat
        /\ Cardinality(Among(UpsOf(t), i, m)) \in Nat
        /\ Cardinality(Among(NamesOf(t), i, m + 1)) =
              Cardinality(Among(NamesOf(t), i, m)) + (IF m + 1 \in NamesOf(t) THEN 1 ELSE 0)
        /\ Cardinality(Among(UpsOf(t), i, m + 1)) =
              Cardinality(Among(UpsOf(t), i, m)) + (IF m + 1 \in UpsOf(t) THEN 1 ELSE 0)
    BY CountNext
  <1>3. "." \notin Names /\ ".." \notin Names  BY DirectoryAssumption
  <1>4. m + 1 \in 1..Len(t)  OBVIOUS
  <1>5. (m + 1 \in NamesOf(t) <=> t[m + 1] \in Names) /\ (m + 1 \in UpsOf(t) <=> t[m + 1] = "..")
    BY <1>4 DEF NamesOf, UpsOf
  <1> QED  BY <1>1, <1>2, <1>3, <1>5

LEMMA DownUpNone ==
    ASSUME NEW t \in Seq(Tokens), NEW i \in Nat, i <= Len(t)
    PROVE  DS!Down(t, i + 1, i) = 0 /\ DS!Up(t, i + 1, i) = 0
  <1>1. i + 1 \in Nat /\ i + 1 > 0 /\ i < i + 1  OBVIOUS
  <1> QED  BY <1>1, DownUp, CountNone

\* What is left standing after one more component.
LEMMA StandingNext ==
    ASSUME NEW t \in Seq(Tokens), NEW m \in Nat, m + 1 <= Len(t)
    PROVE  /\ \A i \in 1..m : i \in DS!Standing(t, m + 1) <=>
                                 /\ i \in DS!Standing(t, m)
                                 /\ DS!Up(t, i + 1, m + 1) <= DS!Down(t, i + 1, m + 1)
           /\ m + 1 \in DS!Standing(t, m + 1) <=> t[m + 1] \in Names
           /\ DS!Standing(t, m + 1) \subseteq 1..(m + 1)
  <1>1. ASSUME NEW i \in 1..m
        PROVE  i \in DS!Standing(t, m + 1) <=>
                                 /\ i \in DS!Standing(t, m)
                                 /\ DS!Up(t, i + 1, m + 1) <= DS!Down(t, i + 1, m + 1)
    <2>1. i..(m + 1) = (i..m) \cup {m + 1}  OBVIOUS
    <2>2. i \in 1..(m + 1)  OBVIOUS
    <2> QED  BY <2>1, <2>2 DEF DS!Standing
  <1>2. m + 1 \in DS!Standing(t, m + 1) <=> t[m + 1] \in Names
    <2>1. (m + 1)..(m + 1) = {m + 1} /\ m + 1 \in 1..(m + 1)  OBVIOUS
    <2>2. m + 1 \in Nat  OBVIOUS
    <2>3. DS!Up(t, m + 1 + 1, m + 1) <= DS!Down(t, m + 1 + 1, m + 1)  BY <2>2, DownUpNone
    <2> QED  BY <2>1, <2>3 DEF DS!Standing
  <1>3. DS!Standing(t, m + 1) \subseteq 1..(m + 1)  BY DEF DS!Standing
  <1> QED  BY <1>1, <1>2, <1>3

\* e gives for each component of p its place among the first m components of t; what is
\* behind such a place goes down once more often than up for each later component of p.
Placed(t, m, p, e) ==
    /\ e \in [1..Len(p) -> 1..m]
    /\ \A k, l \in 1..Len(p) : k < l => e[k] < e[l]
    /\ \A i \in 1..m : i \in DS!Standing(t, m) <=> \E k \in 1..Len(p) : e[k] = i
    /\ \A k \in 1..Len(p) : p[k] = t[e[k]]
    /\ \A k \in 1..Len(p) : DS!Down(t, e[k] + 1, m) = DS!Up(t, e[k] + 1, m) + (Len(p) - k)

LEMMA PlacedStart ==
    ASSUME NEW t \in Seq(Tokens)
    PROVE  \E e : Placed(t, 0, <<>>, e)
  <1>1. [k \in 1..0 |-> 0] \in [1..0 -> 1..0]  OBVIOUS
  <1>2. Len(<<>>) = 0  OBVIOUS
  <1>3. Placed(t, 0, <<>>, [k \in 1..0 |-> 0])  BY <1>1, <1>2 DEF Placed
  <1> QED  BY <1>3

\* A name takes the next place, ".." gives up the last one, "." leaves all of them.
LEMMA PlacedNext ==
    ASSUME NEW t \in Seq(Tokens), NEW m \in Nat, m + 1 <= Len(t),
           NEW p \in Seq(Names), NEW e, Placed(t, m, p, e)
    PROVE  \E d : Placed(t, m + 1, StepToken(p, t[m + 1]), d)
  <1>1. PICK n \in Nat : n = Len(p)  OBVIOUS
  <1>2. PICK x \in Tokens : x = t[m + 1]  OBVIOUS
  <1>3. /\ e \in [1..n -> 1..m]
        /\ \A k, l \in 1..n : k < l => e[k] < e[l]
        /\ \A i \in 1..m : i \in DS!Standing(t, m) <=> \E k \in 1..n : e[k] = i
        /\ \A k \in 1..n : p[k] = t[e[k]]
        /\ \A k \in 1..n : DS!Down(t, e[k] + 1, m) = DS!Up(t, e[k] + 1, m) + (n - k)
    BY <1>1 DEF Placed
  <1>4. \A k \in 1..n : e[k] \in Nat /\ e[k] + 1 \in Nat /\ e[k] + 1 > 0 /\ e[k] + 1 <= m + 1
                        /\ e[k] \in 1..m
    BY <1>3
  <1>5. ASSUME NEW k \in 1..n
        PROVE  /\ DS!Down(t, e[k] + 1, m) \in Nat /\ DS!Up(t, e[k] + 1, m) \in Nat
               /\ x \in Names => /\ DS!Down(t, e[k] + 1, m + 1) = DS!Down(t, e[k] + 1, m) + 1
                                 /\ DS!Up(t, e[k] + 1, m + 1) = DS!Up(t, e[k] + 1, m)
               /\ x = ".." => /\ DS!Down(t, e[k] + 1, m + 1) = DS!Down(t, e[k] + 1, m)
                              /\ DS!Up(t, e[k] + 1, m + 1) = DS!Up(t, e[k] + 1, m) + 1
               /\ x = "." => /\ DS!Down(t, e[k] + 1, m + 1) = DS!Down(t, e[k] + 1, m)
                             /\ DS!Up(t, e[k] + 1, m + 1) = DS!Up(t, e[k] + 1, m)
    BY <1>2, <1>4, DownUpNext
  <1>6. /\ \A i \in 1..m : i \in DS!Standing(t, m + 1) <=>
                              /\ i \in DS!Standing(t, m)
                              /\ DS!Up(t, i + 1, m + 1) <= DS!Down(t, i + 1, m + 1)
        /\ m + 1 \in DS!Standing(t, m + 1) <=> x \in Names
    BY <1>2, StandingNext
  <1>7. "." \notin Names /\ ".." \notin Names  BY DirectoryAssumption
  <1>8. CASE x = "."
    <2>1. StepToken(p, x) = p  BY <1>8 DEF StepToken
    <2>2. e \in [1..n -> 1..(m + 1)]  BY <1>3
    <2>3. \A k \in 1..n : DS!Up(t, e[k] + 1, m + 1) <= DS!Down(t, e[k] + 1, m + 1)
                          /\ DS!Down(t, e[k] + 1, m + 1) = DS!Up(t, e[k] + 1, m + 1) + (n - k)
      BY <1>3, <1>5, <1>8
    <2>4. ASSUME NEW i \in 1..(m + 1)
          PROVE  i \in DS!Standing(t, m + 1) <=> \E k \in 1..n : e[k] = i
      <3>1. CASE i = m + 1  BY <1>4, <1>6, <1>7, <1>8, <3>1
      <3>2. CASE i \in 1..m  BY <1>3, <1>6, <2>3, <3>2
      <3> QED  BY <3>1, <3>2
    <2>5. Placed(t, m + 1, p, e)  BY <1>1, <1>3, <2>2, <2>3, <2>4 DEF Placed
    <2> QED  BY <1>2, <2>1, <2>5
  <1>9. CASE x = ".." /\ n = 0
    <2>1. p = <<>>
      <3>1. Len(p) = 0  BY <1>1, <1>9
      <3>2. \A q \in Seq(Names) : Len(q) = 0 => q = <<>>  OBVIOUS
      <3> QED  BY <3>1, <3>2
    <2>2. StepToken(p, x) = p  BY <1>9, <2>1 DEF StepToken, PopOneLevel
    <2>3. e \in [1..n -> 1..(m + 1)]  BY <1>3
    <2>4. ASSUME NEW i \in 1..(m + 1)
          PROVE  i \in DS!Standing(t, m + 1) <=> \E k \in 1..n : e[k] = i
      <3>1. CASE i = m + 1  BY <1>4, <1>6, <1>7, <1>9, <3>1
      <3>2. CASE i \in 1..m  BY <1>3, <1>6, <1>9, <3>2
      <3> QED  BY <3>1, <3>2
    <2>5. \A k \in 1..n : FALSE  BY <1>9
    <2>6. Placed(t, m + 1, p, e)  BY <1>1, <2>3, <2>4, <2>5 DEF Placed
    <2> QED  BY <1>2, <2>2, <2>6
  <1>10. CASE x = ".." /\ n > 0
    <2>1. PICK q : q = SubSeq(p, 1, n - 1)  OBVIOUS
    <2>2. /\ StepToken(p, x) = q /\ Len(q) = n - 1 /\ n - 1 \in Nat
          /\ \A k \in 1..(n - 1) : q[k] = p[k] /\ k \in 1..n
      <3>1. p # <<>>  BY <1>1, <1>10
      <3>2. StepToken(p, x) = q  BY <1>1, <1>10, <2>1, <3>1 DEF StepToken, PopOneLevel
      <3> QED  BY <1>1, <1>10, <2>1, <3>2
    <2> DEFINE d == [k \in 1..(n - 1) |-> e[k]]
    <2>3. d \in [1..(n - 1) -> 1..(m + 1)] /\ \A k \in 1..(n - 1) : d[k] = e[k]  BY <1>3, <2>2
    <2> HIDE DEF d
    <2>4. ASSUME NEW k \in 1..n
          PROVE  /\ DS!Down(t, e[k] + 1, m + 1) + 1 = DS!Up(t, e[k] + 1, m + 1) + (n - k)
                 /\ DS!Up(t, e[k] + 1, m + 1) \in Nat /\ DS!Down(t, e[k] + 1, m + 1) \in Nat
      <3>1. PICK i : i = e[k] + 1  OBVIOUS
      <3>2. /\ DS!Down(t, i, m) = DS!Up(t, i, m) + (n - k)
            /\ DS!Down(t, i, m) \in Nat /\ DS!Up(t, i, m) \in Nat
            /\ DS!Down(t, i, m + 1) = DS!Down(t, i, m)
            /\ DS!Up(t, i, m + 1) = DS!Up(t, i, m) + 1
        BY <1>3, <1>5, <1>10, <3>1
      <3> QED  BY <3>1, <3>2
    <2>5. \A k \in 1..n :
             DS!Up(t, e[k] + 1, m + 1) <= DS!Down(t, e[k] + 1, m + 1) <=> k \in 1..(n - 1)
      BY <2>4
    <2>6. ASSUME NEW i \in 1..(m + 1)
          PROVE  i \in DS!Standing(t, m + 1) <=> \E k \in 1..(n - 1) : d[k] = i
      <3>1. CASE i = m + 1  BY <1>4, <1>6, <1>7, <1>10, <2>2, <2>3, <3>1
      <3>2. CASE i \in 1..m /\ i \in DS!Standing(t, m + 1)
        <4>1. PICK k \in 1..n : e[k] = i  BY <1>3, <1>6, <3>2
        <4>2. k \in 1..(n - 1)  BY <1>6, <2>5, <3>2, <4>1
        <4> QED  BY <2>3, <3>2, <4>1, <4>2
      <3>3. CASE i \in 1..m /\ \E k \in 1..(n - 1) : d[k] = i
        <4>1. PICK k \in 1..(n - 1) : d[k] = i  BY <3>3
        <4>2. k \in 1..n /\ e[k] = i  BY <2>2, <2>3, <4>1
        <4>3. i \in DS!Standing(t, m) /\ DS!Up(t, i + 1, m + 1) <= DS!Down(t, i + 1, m + 1)
          BY <1>3, <2>5, <3>3, <4>2
        <4> QED  BY <1>6, <3>3, <4>3
      <3> QED  BY <3>1, <3>2, <3>3
    <2>7. \A k, l \in 1..(n - 1) : k < l => d[k] < d[l]  BY <1>3, <2>2, <2>3
    <2>8. \A k \in 1..(n - 1) : q[k] = t[d[k]]  BY <1>3, <2>2, <2>3
    <2>9. ASSUME NEW k \in 1..(n - 1)
          PROVE  DS!Down(t, d[k] + 1, m + 1) = DS!Up(t, d[k] + 1, m + 1) + (n - 1 - k)
      <3>1. PICK i : i = d[k] + 1  OBVIOUS
      <3>2. k \in 1..n /\ i = e[k] + 1  BY <2>2, <2>3, <3>1
      <3>3. /\ DS!Down(t, i, m + 1) + 1 = DS!Up(t, i, m + 1) + (n - k)
            /\ DS!Up(t, i, m + 1) \in Nat /\ DS!Down(t, i, m + 1) \in Nat
        BY <2>4, <3>2
      <3> QED  BY <3>1, <3>2, <3>3
    <2>10. Placed(t, m + 1, q, d)  BY <2>2, <2>3, <2>6, <2>7, <2>8, <2>9 DEF Placed
    <2> QED  BY <1>2, <2>2, <2>10
  <1>11. CASE x \in Names
    <2>1. PICK q : q = Append(p, x)  OBVIOUS
    <2>2. /\ StepToken(p, x) = q /\ Len(q) = n + 1 /\ q[n + 1] = x
          /\ \A k \in 1..n : q[k] = p[k]
      <3>1. StepToken(p, x) = q  BY <1>7, <1>11, <2>1 DEF StepToken
      <3> QED  BY <1>1, <1>11, <2>1, <3>1
    <2> DEFINE d == [k \in 1..(n + 1) |-> IF k = n + 1 THEN m + 1 ELSE e[k]]
    <2>3. /\ d \in [1..(n + 1) -> 1..(m + 1)] /\ d[n + 1] = m + 1
          /\ \A k \in 1..n : d[k] = e[k] /\ k \in 1..(n + 1)
          /\ \A k \in 1..(n + 1) : k # n + 1 => k \in 1..n
      BY <1>3
    <2> HIDE DEF d
    <2>4. ASSUME NEW k \in 1..n
          PROVE  /\ DS!Down(t, e[k] + 1, m + 1) = DS!Up(t, e[k] + 1, m + 1) + (n + 1 - k)
                 /\ DS!Up(t, e[k] + 1, m + 1) <= DS!Down(t, e[k] + 1, m + 1)
      <3>1. PICK i : i = e[k] + 1  OBVIOUS
      <3>2. /\ DS!Down(t, i, m) = DS!Up(t, i, m) + (n - k)
            /\ DS!Down(t, i, m) \in Nat /\ DS!Up(t, i, m) \in Nat
            /\ DS!Down(t, i, m + 1) = DS!Down(t, i, m) + 1
            /\ DS!Up(t, i, m + 1) = DS!Up(t, i, m)
        BY <1>3, <1>5, <1>11, <3>1
      <3> QED  BY <3>1, <3>2
    <2>5. ASSUME NEW i \in 1..(m + 1)
          PROVE  i \in DS!Standing(t, m + 1) <=> \E k \in 1..(n + 1) : d[k] = i
      <3>1. CASE i = m + 1
        <4>1. n + 1 \in 1..(n + 1)  OBVIOUS
        <4> QED  BY <1>6, <1>11, <2>3, <3>1, <4>1
      <3>2. CASE i \in 1..m /\ i \in DS!Standing(t, m + 1)
        <4>1. PICK k \in 1..n : e[k] = i  BY <1>3, <1>6, <3>2
        <4> QED  BY <2>3, <3>2, <4>1
      <3>3. CASE i \in 1..m /\ \E k \in 1..(n + 1) : d[k] = i
        <4>1. PICK k \in 1..(n + 1) : d[k] = i  BY <3>3
        <4>2. k \in 1..n /\ e[k] = i  BY <2>3, <3>3, <4>1
        <4>3. i \in DS!Standing(t, m) /\ DS!Up(t, i + 1, m + 1) <= DS!Down(t, i + 1, m + 1)
          BY <1>3, <2>4, <3>3, <4>2
        <4> QED  BY <1>6, <3>3, <4>3
      <3> QED  BY <3>1, <3>2, <3>3
    <2>6. ASSUME NEW k \in 1..(n + 1), NEW l \in 1..(n + 1), k < l PROVE d[k] < d[l]
      <3>1. k \in 1..n /\ d[k] = e[k] /\ e[k] \in 1..m  BY <1>3, <2>3, <2>6
      <3>2. CASE l = n + 1  BY <2>3, <3>1, <3>2
      <3>3. CASE l # n + 1  BY <1>3, <2>3, <2>6, <3>1, <3>3
      <3> QED  BY <3>2, <3>3
    <2>7. \A k \in 1..(n + 1) : q[k] = t[d[k]]  BY <1>2, <1>3, <2>2, <2>3
    <2>8. ASSUME NEW k \in 1..(n + 1)
          PROVE  DS!Down(t, d[k] + 1, m + 1) = DS!Up(t, d[k] + 1, m + 1) + (n + 1 - k)
      <3>1. CASE k = n + 1
        <4>1. DS!Down(t, m + 1 + 1, m + 1) = 0 /\ DS!Up(t, m + 1 + 1, m + 1) = 0
          <5>1. m + 1 \in Nat  OBVIOUS
          <5> QED  BY <5>1, DownUpNone
        <4> QED  BY <2>3, <3>1, <4>1
      <3>2. CASE k # n + 1  BY <2>3, <2>4, <3>2
      <3> QED  BY <3>1, <3>2
    <2>9. Placed(t, m + 1, q, d)
      <3>1. PICK l \in Nat : l = n + 1 /\ l = Len(q)  BY <2>2
      <3> QED  BY <2>3, <2>5, <2>6, <2>7, <2>8, <3>1 DEF Placed
    <2> QED  BY <1>2, <2>2, <2>9
  <1> QED  BY <1>8, <1>9, <1>10, <1>11 DEF Tokens

LEMMA PlacedWalk ==
    ASSUME NEW t \in Seq(Tokens)
    PROVE  \E e : Placed(t, Len(t), Walk(t)[Len(t)], e)
  <1>1. PICK w : w = Walk(t)  OBVIOUS
  <1>2. PICK n \in Nat : n = Len(t)  OBVIOUS
  <1>3. /\ w[0] = <<>> /\ \A i \in 0..n : w[i] \in Seq(Names)
        /\ \A i \in 1..n : w[i] = StepToken(w[i - 1], t[i])
    BY <1>1, <1>2, WalkDef
  <1> DEFINE S == {i \in 0..n : \E e : Placed(t, i, w[i], e)}
  <1>4. 0 \in S  BY <1>3, PlacedStart
  <1>5. ASSUME NEW i \in 1..n, i - 1 \in S PROVE i \in S
    <2>1. PICK m \in Nat : m = i - 1  OBVIOUS
    <2>2. m \in 0..n /\ i = m + 1 /\ m + 1 <= Len(t)  BY <1>2, <2>1
    <2>3. PICK e : Placed(t, m, w[m], e)  BY <1>5, <2>1
    <2>4. w[m] \in Seq(Names)  BY <1>3, <2>2
    <2>5. \E d : Placed(t, m + 1, StepToken(w[m], t[m + 1]), d)
      BY <2>2, <2>3, <2>4, PlacedNext
    <2> QED  BY <1>3, <2>1, <2>2, <2>5
  <1>6. 0..n \subseteq S
    <2> HIDE DEF S
    <2> QED  BY <1>4, <1>5, Induction
  <1> QED  BY <1>1, <1>2, <1>6

\* So the walk ends at the components left standing, in their order.
LEMMA WalkIsDestination ==
    ASSUME NEW p, NEW a, p \o a \in Seq(Tokens)
    PROVE  Walk(p \o a)[Len(p \o a)] = DS!Destination(p, a)
  <1>1. PICK t \in Seq(Tokens) : t = p \o a  OBVIOUS
  <1>2. PICK q : q = Walk(t)[Len(t)]  OBVIOUS
  <1>3. PICK m \in Nat : m = Len(t)  OBVIOUS
  <1>4. q \in Seq(Names)
    <2>1. Len(t) \in 0..Len(t)  OBVIOUS
    <2> QED  BY <1>2, <2>1, WalkDef
  <1>5. PICK n \in Nat : n = Len(q)  BY <1>4
  <1>6. PICK e : Placed(t, m, q, e)  BY <1>2, <1>3, PlacedWalk
  <1>7. PICK St : St = DS!Standing(t, m)  OBVIOUS
  <1>8. /\ e \in [1..n -> 1..m] /\ \A k, l \in 1..n : k < l => e[k] < e[l]
        /\ \A k \in 1..n : e[k] \in St /\ q[k] = t[e[k]]
        /\ \A i \in St : \E k \in 1..n : e[k] = i
    <2>1. St \subseteq 1..m  BY <1>7 DEF DS!Standing
    <2> QED  BY <1>5, <1>6, <1>7, <2>1 DEF Placed
  <1>9. \A k, l \in 1..n : e[k] \in Nat /\ (e[k] = e[l] => k = l) /\ (e[k] <= e[l] <=> k <= l)
    <2>1. ASSUME NEW k \in 1..n, NEW l \in 1..n
          PROVE  e[k] \in Nat /\ (e[k] = e[l] => k = l) /\ (e[k] <= e[l] <=> k <= l)
      <3>1. e[k] \in Nat /\ e[l] \in Nat  BY <1>8
      <3>2. (k < l => e[k] < e[l]) /\ (l < k => e[l] < e[k])  BY <1>8
      <3> QED  BY <3>1, <3>2
    <2> QED  BY <2>1
  \* The first k places are the standing components up to the k-th place.
  <1>10. ASSUME NEW k \in 0..n
         PROVE  Cardinality({e[l] : l \in 1..k}) = k
    <2> DEFINE T == {e[l] : l \in 1..k}
               f == [l \in 1..k |-> e[l]]
    <2>1. \A l \in 1..k : l \in 1..n  OBVIOUS
    <2>2. f \in [1..k -> T] /\ \A l \in 1..k : f[l] = e[l]  OBVIOUS
    <2>3. \A i \in T : \E l \in 1..k : f[l] = i  OBVIOUS
    <2> HIDE DEF T, f
    <2>4. \A x, y \in 1..k : f[x] = f[y] => x = y  BY <1>9, <2>1, <2>2
    <2>5. f \in Surjection(1..k, T)  BY <2>2, <2>3 DEF Surjection
    <2>6. f \in Injection(1..k, T)  BY <2>2, <2>4 DEF Injection, IsInjective
    <2>7. IsFiniteSet(1..k) /\ Cardinality(1..k) = k
      <3>1. PICK x \in Int : x = 1  OBVIOUS
      <3>2. PICK y \in Int : y = k  OBVIOUS
      <3>3. IsFiniteSet(x..y) /\ Cardinality(x..y) = IF x > y THEN 0 ELSE y - x + 1  BY FS_Interval
      <3>4. (IF x > y THEN 0 ELSE y - x + 1) = k  BY <3>1, <3>2
      <3> QED  BY <3>1, <3>2, <3>3, <3>4
    <2>8. Cardinality(T) = k  BY <2>5, <2>6, <2>7, FS_Surjection
    <2> QED  BY <2>8 DEF T
  <1>11. Cardinality(St) = n
    <2>1. St = {e[l] : l \in 1..n}  BY <1>8
    <2> QED  BY <1>10, <2>1
  <1> DEFINE Left == DS!Standing(p \o a, Len(p \o a))
             Place(i) == DS!Cardinality({j \in Left : j <= i})
  <1>12. Left = St  BY <1>1, <1>3, <1>7
  <1>13. ASSUME NEW k \in 1..n PROVE Place(e[k]) = k
    <2>1. {j \in St : j <= e[k]} = {e[l] : l \in 1..k}
      <3>1. ASSUME NEW j \in St, j <= e[k] PROVE j \in {e[l] : l \in 1..k}
        <4>1. PICK l \in 1..n : e[l] = j  BY <1>8
        <4>2. l <= k  BY <1>9, <3>1, <4>1
        <4> QED  BY <4>1, <4>2
      <3>2. ASSUME NEW l \in 1..k PROVE e[l] \in St /\ e[l] <= e[k]
        <4>1. l \in 1..n /\ l <= k  OBVIOUS
        <4> QED  BY <1>8, <1>9, <4>1
      <3> QED  BY <3>1, <3>2
    <2>2. Place(e[k]) = Cardinality({j \in St : j <= e[k]})  BY <1>12, SameCardinality
    <2>3. k \in 0..n  OBVIOUS
    <2>4. Cardinality({e[l] : l \in 1..k}) = k  BY <1>10, <2>3
    <2>5. Cardinality({j \in St : j <= e[k]}) = k  BY <2>1, <2>4
    <2> HIDE DEF Place
    <2> QED  BY <2>2, <2>5
  <1>14. ASSUME NEW k \in 1..n PROVE (CHOOSE i \in Left : Place(i) = k) = e[k]
    <2>1. e[k] \in Left /\ Place(e[k]) = k  BY <1>8, <1>13, <1>12
    <2>2. ASSUME NEW i \in Left, Place(i) = k PROVE i = e[k]
      <3>1. PICK l \in 1..n : e[l] = i  BY <1>8, <1>12
      <3>2. Place(e[l]) = l  BY <1>13
      <3>3. l = k  BY <2>2, <3>1, <3>2
      <3> QED  BY <3>1, <3>3
    <2> HIDE DEF Left, Place
    <2> QED  BY <2>1, <2>2
  <1>15. DS!Destination(p, a) =
            [k \in 1..DS!Cardinality(Left) |-> (p \o a)[CHOOSE i \in Left : Place(i) = k]]
    BY DEF DS!Destination
  <1>16. DS!Cardinality(Left) = n  BY <1>11, <1>12, SameCardinality
  <1> HIDE DEF Left, Place
  <1>17. \A k \in 1..n : (p \o a)[CHOOSE i \in Left : Place(i) = k] = q[k]
    BY <1>1, <1>8, <1>14
  <1>18. DS!Destination(p, a) = [k \in 1..n |-> q[k]]  BY <1>15, <1>16, <1>17
  <1>19. q = [k \in 1..n |-> q[k]]  BY <1>4, <1>5
  <1> QED  BY <1>1, <1>2, <1>18, <1>19

--------------------------------------------------------------------------------
(* Directory implements DirectoryService. *)

\* The variables of DirectoryService, session by session.
Cwd(s)     == IF pc[s] = "enter" THEN target[s] ELSE currentPath[s]
Command(s) == IF pc[s] = "idle" THEN [op |-> "none", arg |-> <<>>]
              ELSE [op |-> op[s], arg |-> arg[s]]
Answer(s)  == IF pc[s] \in {"enter", "list"} THEN "ACK" ELSE result[s]

Cwds     == [s \in Sessions |-> Cwd(s)]
Commands == [s \in Sessions |-> Command(s)]
Answers  == [s \in Sessions |-> Answer(s)]

\* A step changes them for the session that takes it only.
LEMMA OneChanges ==
    ASSUME IInv, NEW s \in Sessions, User(s) \/ Worker(s)
    PROVE  /\ Cwds' = [Cwds EXCEPT ![s] = Cwd(s)']
           /\ Commands' = [Commands EXCEPT ![s] = Command(s)']
           /\ Answers' = [Answers EXCEPT ![s] = Answer(s)']
  <1>1. ASSUME NEW t \in Sessions, t # s
        PROVE  Cwd(t)' = Cwd(t) /\ Command(t)' = Command(t) /\ Answer(t)' = Answer(t)
    BY <1>1, OthersKept DEF Cwd, Command, Answer
  <1>2. Cwds' = [t \in Sessions |-> IF t = s THEN Cwd(s)' ELSE Cwd(t)]  BY <1>1 DEF Cwds
  <1>3. Commands' = [t \in Sessions |-> IF t = s THEN Command(s)' ELSE Command(t)]
    BY <1>1 DEF Commands
  <1>4. Answers' = [t \in Sessions |-> IF t = s THEN Answer(s)' ELSE Answer(t)]
    BY <1>1 DEF Answers
  <1> QED  BY <1>2, <1>3, <1>4 DEF Cwds, Commands, Answers

LEMMA Stutter ==
    ASSUME IInv, NEW s \in Sessions, User(s) \/ Worker(s), tree' = tree,
           Cwd(s)' = Cwd(s), Command(s)' = Command(s), Answer(s)' = Answer(s)
    PROVE  UNCHANGED DS!vars
  <1>1. Cwds' = Cwds /\ Commands' = Commands /\ Answers' = Answers
    <2>1. /\ Cwds' = [Cwds EXCEPT ![s] = Cwd(s)]
          /\ Commands' = [Commands EXCEPT ![s] = Command(s)]
          /\ Answers' = [Answers EXCEPT ![s] = Answer(s)]
      BY OneChanges
    <2> QED  BY <2>1 DEF Cwds, Commands, Answers
  <1> QED  BY <1>1 DEF DS!vars, Cwds, Commands, Answers, Cwd, Command, Answer

\* resolve_target_path fails exactly when the argument is not acceptable.
LEMMA NormalizeFails ==
    ASSUME NEW p \in Seq(Names), NEW a \in Args
    PROVE  Normalize(p, a) = NoPath <=> ~DS!Acceptable(p, a)
  <1>1. a \in Seq(Names \cup {".", "..", "/"})  BY DirectoryAssumption
  <1>2. PathMax \in Nat  BY DirectoryAssumption
  <1>3. Len(p) \in Nat /\ Len(a) \in Nat  BY <1>1
  <1>4. DS!Acceptable(p, a) <=> ~(a = <<>> \/ a[1] = "/" \/ Len(p) + Len(a) > PathMax)
    BY <1>2, <1>3 DEF DS!Acceptable
  <1>5. ASSUME DS!Acceptable(p, a) PROVE Normalize(p, a) # NoPath
    <2>1. Normalize(p, a) = Walk(p \o a)[Len(p \o a)]  BY <1>4, <1>5 DEF Normalize
    <2>2. p \o a \in Seq(Tokens)
      <3>1. \A i \in 2..Len(a) : a[i] # "/"  BY DirectoryAssumption
      <3>2. \A i \in 1..Len(a) : a[i] \in Tokens  BY <1>1, <1>4, <1>5, <3>1 DEF Tokens
      <3>3. a \in Seq(Tokens)  BY <1>1, <3>2
      <3>4. p \in Seq(Tokens)  BY DEF Tokens
      <3> QED  BY <3>3, <3>4
    <2>3. Len(p \o a) \in 0..Len(p \o a)  BY <2>2
    <2>4. Walk(p \o a)[Len(p \o a)] \in Seq(Names)  BY <2>2, <2>3, WalkDef
    <2>5. NoPath \notin Seq(Names)  BY DirectoryAssumption
    <2> QED  BY <2>1, <2>4, <2>5
  <1>6. ASSUME ~DS!Acceptable(p, a) PROVE Normalize(p, a) = NoPath
    BY <1>4, <1>6 DEF Normalize
  <1> QED  BY <1>5, <1>6

\* The system call is made on the path DirectoryService defines.
LEMMA Resolved ==
    ASSUME IInv, NEW s \in Sessions, pc[s] = "call"
    PROVE  /\ op[s] = "ls" => target[s] = currentPath[s]
           /\ op[s] # "ls" => /\ target[s] = DS!Destination(currentPath[s], arg[s])
                              /\ DS!Acceptable(currentPath[s], arg[s])
  <1>1. target[s] = Wanted(s) /\ target[s] # NoPath /\ (op[s] # "ls" => arg[s] \in Args)
    BY DEF IInv, InHandler
  <1>2. currentPath[s] \in Seq(Names)  BY DEF IInv, TypeOK, IsPath
  <1>3. CASE op[s] # "ls"
    <2>1. PICK p \in Seq(Names) : p = currentPath[s]  BY <1>2
    <2>2. PICK a \in Args : a = arg[s]  BY <1>1, <1>3
    <2>3. Normalize(p, a) # NoPath /\ target[s] = Normalize(p, a)
      BY <1>1, <1>3, <2>1, <2>2 DEF Wanted
    <2>4. p \o a \in Seq(Tokens) /\ Normalize(p, a) = Walk(p \o a)[Len(p \o a)]
      BY <2>3, NormalizeType
    <2>5. target[s] = DS!Destination(p, a)  BY <2>3, <2>4, WalkIsDestination
    <2>6. DS!Acceptable(p, a)  BY <2>3, NormalizeFails
    <2> QED  BY <1>3, <2>1, <2>2, <2>5, <2>6
  <1> QED  BY <1>1, <1>3 DEF Wanted

\* A system call that succeeds.
LEMMA DoAck ==
    ASSUME IInv, NEW s \in Sessions, User(s) \/ Worker(s), pc[s] = "call",
           DS!Can(op[s], target[s]),
           tree' = CASE op[s] = "mkdir" -> DS!With(target[s], "dir")
                     [] op[s] = "puts"  -> DS!With(target[s], "file")
                     [] op[s] = "rm"    -> DS!Without(target[s])
                     [] OTHER           -> tree,
           Cwd(s)' = IF op[s] = "cd" THEN target[s] ELSE Cwd(s),
           Command(s)' = Command(s), Answer(s)' = "ACK"
    PROVE  DS!Do(s)
  <1>1. /\ Commands[s] = [op |-> op[s], arg |-> arg[s]] /\ Cwds[s] = currentPath[s]
        /\ Answers[s] = "none" /\ Commands[s].op = op[s] /\ Commands[s].arg = arg[s]
    BY DEF Commands, Command, Cwds, Cwd, Answers, Answer, IInv, InHandler
  <1>2. Commands[s] # DS!NoCommand
    <2>1. op[s] # "none"  BY DEF IInv, TypeOK, Ops
    <2>2. DS!NoCommand.op = "none"  BY DEF DS!NoCommand
    <2> QED  BY <1>1, <2>1, <2>2
  <1>3. target[s] = IF op[s] = "ls" THEN Cwds[s] ELSE DS!Destination(Cwds[s], arg[s])
    BY <1>1, Resolved
  <1>4. op[s] = "ls" \/ DS!Acceptable(Cwds[s], arg[s])  BY <1>1, Resolved
  <1>5. /\ Cwds' = [Cwds EXCEPT ![s] = Cwd(s)']
        /\ Commands' = [Commands EXCEPT ![s] = Command(s)]
        /\ Answers' = [Answers EXCEPT ![s] = "ACK"]
    BY OneChanges
  <1>6. Commands' = Commands  BY <1>5 DEF Commands
  <1>7. Cwds' = IF op[s] = "cd" THEN [Cwds EXCEPT ![s] = target[s]] ELSE Cwds
    <2>1. CASE op[s] = "cd"  BY <1>5, <2>1
    <2>2. CASE op[s] # "cd"  BY <1>5, <2>2 DEF Cwds
    <2> QED  BY <2>1, <2>2
  <1>8. DS!Effect(s, op[s], target[s])
    BY <1>7 DEF DS!Effect, Cwds, Cwd
  <1>9. LET c == Commands[s]
            p == IF c.op = "ls" THEN Cwds[s] ELSE DS!Destination(Cwds[s], c.arg)
        IN  /\ c # DS!NoCommand /\ Answers[s] = "none"
            /\ (c.op = "ls" \/ DS!Acceptable(Cwds[s], c.arg)) /\ DS!Can(c.op, p)
            /\ Answers' = [Answers EXCEPT ![s] = "ACK"] /\ DS!Effect(s, c.op, p)
            /\ Commands' = Commands
    <2>1. (IF Commands[s].op = "ls" THEN Cwds[s] ELSE DS!Destination(Cwds[s], Commands[s].arg))
             = target[s]
      BY <1>1, <1>3
    <2>2. Commands[s].op = "ls" \/ DS!Acceptable(Cwds[s], Commands[s].arg)  BY <1>1, <1>4
    <2>3. DS!Can(Commands[s].op, target[s]) /\ DS!Effect(s, Commands[s].op, target[s])
      BY <1>1, <1>8
    <2> DEFINE p == IF Commands[s].op = "ls" THEN Cwds[s]
                    ELSE DS!Destination(Cwds[s], Commands[s].arg)
    <2>4. p = target[s]  BY <2>1
    <2>5. DS!Can(Commands[s].op, p)
      <3> HIDE DEF p
      <3> QED  BY <2>3, <2>4
    <2>6. DS!Effect(s, Commands[s].op, p)
      <3> HIDE DEF p
      <3> QED  BY <2>3, <2>4 DEF DS!Effect
    <2> QED  BY <1>1, <1>2, <1>5, <1>6, <2>2, <2>5, <2>6, Zenon
  <1> QED  BY <1>9, Zenon DEF DS!Do, Cwds, Cwd, Commands, Command, Answers, Answer

\* A command that fails, in the resolution of its path or in the system call.
LEMMA DoError ==
    ASSUME IInv, NEW s \in Sessions, User(s) \/ Worker(s), pc[s] \in {"resolve", "call"},
           \/ op[s] # "ls" /\ ~DS!Acceptable(currentPath[s], arg[s])
           \/ pc[s] = "call" /\ ~DS!Can(op[s], target[s]),
           tree' = tree, Cwd(s)' = Cwd(s), Command(s)' = Command(s), Answer(s)' = "ERROR"
    PROVE  DS!Do(s)
  <1>1. /\ Commands[s] = [op |-> op[s], arg |-> arg[s]] /\ Cwds[s] = currentPath[s]
        /\ Answers[s] = "none" /\ Commands[s].op = op[s] /\ Commands[s].arg = arg[s]
    BY DEF Commands, Command, Cwds, Cwd, Answers, Answer, IInv, InHandler
  <1>2. Commands[s] # DS!NoCommand
    <2>1. op[s] # "none"  BY DEF IInv, TypeOK, Ops
    <2>2. DS!NoCommand.op = "none"  BY DEF DS!NoCommand
    <2> QED  BY <1>1, <2>1, <2>2
  <1>3. /\ Cwds' = [Cwds EXCEPT ![s] = Cwd(s)]
        /\ Commands' = [Commands EXCEPT ![s] = Command(s)]
        /\ Answers' = [Answers EXCEPT ![s] = "ERROR"]
    BY OneChanges
  <1>4. Commands' = Commands /\ Cwds' = Cwds  BY <1>3 DEF Commands, Cwds
  <1>5. LET c == Commands[s]
            p == IF c.op = "ls" THEN Cwds[s] ELSE DS!Destination(Cwds[s], c.arg)
        IN  /\ c # DS!NoCommand /\ Answers[s] = "none"
            /\ ~((c.op = "ls" \/ DS!Acceptable(Cwds[s], c.arg)) /\ DS!Can(c.op, p))
            /\ Answers' = [Answers EXCEPT ![s] = "ERROR"] /\ UNCHANGED <<tree, Cwds>>
            /\ UNCHANGED Commands
    <2>1. CASE op[s] # "ls" /\ ~DS!Acceptable(currentPath[s], arg[s])
      BY <1>1, <1>2, <1>3, <1>4, <2>1
    <2>2. CASE pc[s] = "call" /\ ~DS!Can(op[s], target[s])
      <3>1. target[s] = IF op[s] = "ls" THEN Cwds[s] ELSE DS!Destination(Cwds[s], arg[s])
        BY <1>1, <2>2, Resolved
      <3> QED  BY <1>1, <1>2, <1>3, <1>4, <2>2, <3>1
    <2> QED  BY <2>1, <2>2
  <1> QED  BY <1>5, Zenon DEF DS!Do, Cwds, Cwd, Commands, Command, Answers, Answer

\* A system call that fails although the tree allows what it does.
LEMMA DoFail ==
    ASSUME IInv, NEW s \in Sessions, User(s) \/ Worker(s), pc[s] = "call",
           tree' = tree, Cwd(s)' = Cwd(s), Command(s)' = Command(s), Answer(s)' = "FAILED"
    PROVE  DS!Fail(s)
  <1>1. /\ Commands[s] = [op |-> op[s], arg |-> arg[s]] /\ Cwds[s] = currentPath[s]
        /\ Answers[s] = "none" /\ Commands[s].op = op[s] /\ Commands[s].arg = arg[s]
    BY DEF Commands, Command, Cwds, Cwd, Answers, Answer, IInv, InHandler
  <1>2. Commands[s] # DS!NoCommand
    <2>1. op[s] # "none"  BY DEF IInv, TypeOK, Ops
    <2>2. DS!NoCommand.op = "none"  BY DEF DS!NoCommand
    <2> QED  BY <1>1, <2>1, <2>2
  <1>3. op[s] = "ls" \/ DS!Acceptable(Cwds[s], arg[s])  BY <1>1, Resolved
  <1>4. /\ Cwds' = [Cwds EXCEPT ![s] = Cwd(s)]
        /\ Commands' = [Commands EXCEPT ![s] = Command(s)]
        /\ Answers' = [Answers EXCEPT ![s] = "FAILED"]
    BY OneChanges
  <1>5. Commands' = Commands /\ Cwds' = Cwds  BY <1>4 DEF Commands, Cwds
  <1>6. LET c == Commands[s]
        IN  /\ c # DS!NoCommand /\ Answers[s] = "none"
            /\ c.op = "ls" \/ DS!Acceptable(Cwds[s], c.arg)
            /\ Answers' = [Answers EXCEPT ![s] = "FAILED"] /\ UNCHANGED <<tree, Cwds, Commands>>
    BY <1>1, <1>2, <1>3, <1>4, <1>5
  <1> QED  BY <1>6, Zenon DEF DS!Fail, Cwds, Cwd, Commands, Command, Answers, Answer

\* The file system calls mean the same in both modules.
LEMMA SameCalls ==
    ASSUME NEW p, NEW kind
    PROVE  /\ DS!IsDir(p) <=> IsDir(p)
           /\ DS!HasParent(p) <=> InDir(p)
           /\ DS!Empty(p) <=> ~HasEntries(p)
           /\ DS!With(p, kind) = With(p, kind)
           /\ DS!Without(p) = [q \in DOMAIN tree \ {p} |-> tree[q]]
  <1>1. DS!IsDir(p) <=> IsDir(p)  BY DEF DS!IsDir, IsDir
  <1>2. DS!HasParent(p) <=> InDir(p)
    BY DEF DS!HasParent, InDir, DS!IsDir, IsDir, DS!Parent, Parent
  <1>3. DS!Empty(p) <=> ~HasEntries(p)  BY DEF DS!Empty, HasEntries, DS!Parent, Parent
  <1>4. DS!With(p, kind) = With(p, kind)  BY DEF DS!With, With
  <1>5. DS!Without(p) = [q \in DOMAIN tree \ {p} |-> tree[q]]  BY DEF DS!Without
  <1> QED  BY <1>1, <1>2, <1>3, <1>4, <1>5

\* Files have no entries.
LEMMA EntriesInDirs ==
    ASSUME Closed, NEW p, HasEntries(p)
    PROVE  IsDir(p)
  BY DEF Closed, HasEntries

\* What a step of a handler is for a session when it only answers.
LEMMA Reported ==
    ASSUME IInv, NEW s \in Sessions, NEW a, Report(s, a), pc[s] # "idle", pc[s] # "enter"
    PROVE  Cwd(s)' = Cwd(s) /\ Command(s)' = Command(s) /\ Answer(s)' = a
  BY DEF Report, Goto, Cwd, Command, Answer, IInv, TypeOK, Shapes

LEMMA RefinementInit == Init => DS!Init
  BY DEF Init, DS!Init, DS!NoCommand

LEMMA RefinementStep ==
    ASSUME IInv, NEW s \in Sessions, User(s) \/ Worker(s)
    PROVE  DS!Next \/ UNCHANGED DS!vars
  <1> USE DEF IInv, Shapes, TypeOK, Goto, lsVars
  <1>1. ASSUME NEW o \in Ops, NEW a, Receive(s, o, a), IF o = "ls" THEN a = <<>> ELSE a \in Args
        PROVE  DS!Next
    <2>1. /\ Cwd(s)' = Cwd(s) /\ Command(s) = DS!NoCommand /\ Command(s)' = [op |-> o, arg |-> a]
          /\ Answer(s)' = Answer(s) /\ tree' = tree
      BY <1>1 DEF Receive, Cwd, Command, Answer, DS!NoCommand
    <2>2. /\ Cwds' = [Cwds EXCEPT ![s] = Cwd(s)]
          /\ Commands' = [Commands EXCEPT ![s] = [op |-> o, arg |-> a]]
          /\ Answers' = [Answers EXCEPT ![s] = Answer(s)]
      BY <2>1, OneChanges
    <2>3. Cwds' = Cwds /\ Answers' = Answers /\ Commands[s] = DS!NoCommand
      BY <2>1, <2>2 DEF Cwds, Answers, Commands
    <2>4. PICK c : c = [op |-> o, arg |-> a]  OBVIOUS
    <2>5. c \in DS!Commands  BY <1>1, <2>4 DEF DS!Commands, Ops
    <2>6. DS!Ask(s, c)
      <3>1. /\ Commands[s] = DS!NoCommand /\ Commands' = [Commands EXCEPT ![s] = c]
            /\ UNCHANGED <<tree, Cwds, Answers>>
        BY <2>1, <2>2, <2>3, <2>4
      <3> QED  BY <3>1, Zenon DEF DS!Ask, Cwds, Cwd, Commands, Command, Answers, Answer
    <2> QED  BY <2>5, <2>6 DEF DS!Next
  <1>2. CASE NewSession(s)
    <2>1. /\ Cwd(s)' = <<>> /\ Command(s)' = Command(s) /\ Command(s) = DS!NoCommand
          /\ Answer(s)' = Answer(s) /\ tree' = tree
      BY <1>2 DEF NewSession, Cwd, Command, Answer, DS!NoCommand
    <2>2. /\ Cwds' = [Cwds EXCEPT ![s] = <<>>]
          /\ Commands' = [Commands EXCEPT ![s] = Command(s)]
          /\ Answers' = [Answers EXCEPT ![s] = Answer(s)]
      BY <2>1, OneChanges
    <2>3. /\ Commands[s] = DS!NoCommand /\ Cwds' = [Cwds EXCEPT ![s] = <<>>]
          /\ UNCHANGED <<tree, Commands, Answers>>
      BY <2>1, <2>2 DEF Commands, Answers
    <2>4. DS!Reconnect(s)
      BY <2>3, Zenon DEF DS!Reconnect, Cwds, Cwd, Commands, Command, Answers, Answer
    <2> QED  BY <2>4 DEF DS!Next
  <1>3. CASE Resolve(s)
    <2>1. /\ Cwd(s)' = Cwd(s) /\ Command(s)' = Command(s) /\ tree' = tree
          /\ target'[s] = Wanted(s)
      BY <1>3 DEF Resolve, Cwd, Command, Wanted
    <2>2. CASE target'[s] = NoPath
      <3>1. Answer(s)' = "ERROR" /\ pc[s] = "resolve"  BY <1>3, <2>2 DEF Resolve, Answer
      <3>2. op[s] # "ls"
        <4>1. currentPath[s] # NoPath
          <5>1. NoPath \notin Seq(Names)  BY DirectoryAssumption
          <5> QED  BY <5>1 DEF IsPath
        <4> QED  BY <2>1, <2>2, <4>1 DEF Wanted
      <3>3. ~DS!Acceptable(currentPath[s], arg[s])
        <4>1. PICK p \in Seq(Names) : p = currentPath[s]  BY DEF IsPath
        <4>2. PICK a \in Args : a = arg[s]  BY <3>2 DEF InHandler
        <4>3. Normalize(p, a) = NoPath  BY <2>1, <2>2, <3>2, <4>1, <4>2 DEF Wanted
        <4>4. ~DS!Acceptable(p, a)  BY <4>3, NormalizeFails
        <4> QED  BY <4>1, <4>2, <4>4
      <3>4. DS!Do(s)  BY <2>1, <3>1, <3>2, <3>3, DoError
      <3> QED  BY <3>4 DEF DS!Next
    <2>3. CASE target'[s] # NoPath
      <3>1. Answer(s)' = Answer(s)  BY <1>3, <2>3 DEF Resolve, Answer
      <3> QED  BY <2>1, <3>1, Stutter
    <2> QED  BY <2>2, <2>3
  <1>4. CASE OpenDirForCd(s)
    <2>1. /\ pc[s] = "call" /\ op[s] = "cd" /\ DS!Can(op[s], target[s]) /\ tree' = tree
          /\ Cwd(s)' = target[s] /\ Command(s)' = Command(s) /\ Answer(s)' = "ACK"
      BY <1>4, SameCalls DEF OpenDirForCd, Calling, DS!Can, Cwd, Command, Answer
    <2>2. DS!Do(s)  BY <2>1, DoAck
    <2> QED  BY <2>2 DEF DS!Next
  <1>5. CASE OpenDirForLs(s)
    <2>1. /\ pc[s] = "call" /\ op[s] = "ls" /\ DS!Can(op[s], target[s]) /\ tree' = tree
          /\ Cwd(s)' = Cwd(s) /\ Command(s)' = Command(s) /\ Answer(s)' = "ACK"
      BY <1>5, SameCalls DEF OpenDirForLs, Calling, DS!Can, Cwd, Command, Answer
    <2>2. DS!Do(s)  BY <2>1, DoAck
    <2> QED  BY <2>2 DEF DS!Next
  <1>6. CASE OpenDirFails(s)
    <2>1. /\ pc[s] = "call" /\ ~DS!Can(op[s], target[s]) /\ tree' = tree /\ Report(s, "ERROR")
      BY <1>6, SameCalls DEF OpenDirFails, Calling, DS!Can
    <2>2. Cwd(s)' = Cwd(s) /\ Command(s)' = Command(s) /\ Answer(s)' = "ERROR"
      BY <2>1, Reported
    <2>3. DS!Do(s)  BY <2>1, <2>2, DoError
    <2> QED  BY <2>3 DEF DS!Next
  <1>7. CASE Enter(s)
    <2>1. /\ tree' = tree /\ Cwd(s)' = Cwd(s) /\ Command(s)' = Command(s) /\ Answer(s)' = Answer(s)
      BY <1>7 DEF Enter, Cwd, Command, Answer
    <2> QED  BY <2>1, Stutter
  <1>8. CASE ReadEntry(s)
    <2>1. pc[s] = "list" /\ op[s] = "ls" /\ tree' = tree /\ target' = target /\ Answer(s) = "ACK"
      BY <1>8 DEF ReadEntry, Answer, InHandler
    <2>2. CASE UNCHANGED <<currentPath, pc, op, arg, result, commands>>
      <3>1. Cwd(s)' = Cwd(s) /\ Command(s)' = Command(s) /\ Answer(s)' = Answer(s)
        BY <2>1, <2>2 DEF Cwd, Command, Answer
      <3> QED  BY <2>1, <3>1, Stutter
    <2>4. CASE Report(s, "ERROR")
      <3>1. /\ Cwds' = [Cwds EXCEPT ![s] = Cwd(s)]
            /\ Commands' = [Commands EXCEPT ![s] = Command(s)]
            /\ Answers' = [Answers EXCEPT ![s] = "ERROR"]
        BY <2>1, <2>4, Reported, OneChanges
      <3>2. /\ Commands[s].op = "ls" /\ Answers[s] = "ACK"
            /\ Answers' = [Answers EXCEPT ![s] = "ERROR"] /\ UNCHANGED <<tree, Cwds, Commands>>
        <4>1. Commands[s].op = "ls" /\ Answers[s] = "ACK"
          BY <2>1 DEF Commands, Command, Answers
        <4>2. Commands' = Commands /\ Cwds' = Cwds  BY <3>1 DEF Commands, Cwds
        <4> QED  BY <2>1, <3>1, <4>1, <4>2
      <3>3. DS!Refuse(s)
        BY <3>2, Zenon DEF DS!Refuse, Cwds, Cwd, Commands, Command, Answers, Answer
      <3> QED  BY <3>3 DEF DS!Next
    <2> QED  BY <1>8, <2>2, <2>4, ReadType
  <1>14. CASE ListEnds(s)
    <2>1. /\ pc[s] = "list" /\ tree' = tree /\ Report(s, "ACK") /\ Answer(s) = "ACK"
      BY <1>14 DEF ListEnds, Answer
    <2>2. Cwd(s)' = Cwd(s) /\ Command(s)' = Command(s) /\ Answer(s)' = "ACK"
      BY <2>1, Reported
    <2> QED  BY <2>1, <2>2, Stutter
  <1>15. CASE CallFails(s)
    <2>1. pc[s] = "call" /\ tree' = tree /\ Report(s, "FAILED")  BY <1>15 DEF CallFails
    <2>2. Cwd(s)' = Cwd(s) /\ Command(s)' = Command(s) /\ Answer(s)' = "FAILED"
      BY <2>1, Reported
    <2>3. DS!Fail(s)  BY <2>1, <2>2, DoFail
    <2> QED  BY <2>3 DEF DS!Next
  <1>9. CASE MakeDir(s)
    <2>1. pc[s] = "call" /\ op[s] = "mkdir"  BY <1>9 DEF MakeDir, Calling
    <2>2. DS!Can("mkdir", target[s]) <=> target[s] \notin DOMAIN tree /\ InDir(target[s])
      BY SameCalls DEF DS!Can
    <2>3. CASE target[s] \notin DOMAIN tree /\ InDir(target[s])
      <3>1. tree' = DS!With(target[s], "dir") /\ Report(s, "ACK")
        BY <1>9, <2>3, SameCalls DEF MakeDir, Make
      <3>2. Cwd(s)' = Cwd(s) /\ Command(s)' = Command(s) /\ Answer(s)' = "ACK"
        BY <2>1, <3>1, Reported
      <3>3. DS!Do(s)  BY <2>1, <2>2, <2>3, <3>1, <3>2, DoAck
      <3> QED  BY <3>3 DEF DS!Next
    <2>4. CASE ~(target[s] \notin DOMAIN tree /\ InDir(target[s]))
      <3>1. tree' = tree /\ Report(s, "ERROR")  BY <1>9, <2>4 DEF MakeDir
      <3>2. Cwd(s)' = Cwd(s) /\ Command(s)' = Command(s) /\ Answer(s)' = "ERROR"
        BY <2>1, <3>1, Reported
      <3>3. DS!Do(s)  BY <2>1, <2>2, <2>4, <3>1, <3>2, DoError
      <3> QED  BY <3>3 DEF DS!Next
    <2> QED  BY <2>3, <2>4
  <1>10. CASE CreateFile(s)
    <2>1. pc[s] = "call" /\ op[s] = "puts"  BY <1>10 DEF CreateFile, Calling
    <2>2. DS!Can("puts", target[s]) <=> ~IsDir(target[s]) /\ InDir(target[s])
      BY SameCalls DEF DS!Can
    <2>3. CASE ~IsDir(target[s]) /\ InDir(target[s])
      <3>1. tree' = DS!With(target[s], "file") /\ Report(s, "ACK")
        BY <1>10, <2>3, SameCalls DEF CreateFile, Make
      <3>2. Cwd(s)' = Cwd(s) /\ Command(s)' = Command(s) /\ Answer(s)' = "ACK"
        BY <2>1, <3>1, Reported
      <3>3. DS!Do(s)  BY <2>1, <2>2, <2>3, <3>1, <3>2, DoAck
      <3> QED  BY <3>3 DEF DS!Next
    <2>4. CASE ~(~IsDir(target[s]) /\ InDir(target[s]))
      <3>1. tree' = tree /\ Report(s, "ERROR")  BY <1>10, <2>4 DEF CreateFile
      <3>2. Cwd(s)' = Cwd(s) /\ Command(s)' = Command(s) /\ Answer(s)' = "ERROR"
        BY <2>1, <3>1, Reported
      <3>3. DS!Do(s)  BY <2>1, <2>2, <2>4, <3>1, <3>2, DoError
      <3> QED  BY <3>3 DEF DS!Next
    <2> QED  BY <2>3, <2>4
  <1>11. CASE RemovePath(s)
    <2>1. pc[s] = "call" /\ op[s] = "rm"  BY <1>11 DEF RemovePath, Calling
    <2>2. DS!Can("rm", target[s]) <=> target[s] \in DOMAIN tree /\ ~HasEntries(target[s])
      <3>1. DS!Can("rm", target[s]) <=>
               target[s] \in DOMAIN tree /\ (IsDir(target[s]) => ~HasEntries(target[s]))
        BY SameCalls DEF DS!Can
      <3>2. HasEntries(target[s]) => IsDir(target[s])  BY EntriesInDirs
      <3> QED  BY <3>1, <3>2
    <2>3. CASE target[s] \in DOMAIN tree /\ ~HasEntries(target[s])
      <3>1. tree' = DS!Without(target[s]) /\ Report(s, "ACK")
        BY <1>11, <2>3, SameCalls DEF RemovePath
      <3>2. Cwd(s)' = Cwd(s) /\ Command(s)' = Command(s) /\ Answer(s)' = "ACK"
        BY <2>1, <3>1, Reported
      <3>3. DS!Do(s)  BY <2>1, <2>2, <2>3, <3>1, <3>2, DoAck
      <3> QED  BY <3>3 DEF DS!Next
    <2>4. CASE ~(target[s] \in DOMAIN tree /\ ~HasEntries(target[s]))
      <3>1. tree' = tree /\ Report(s, "ERROR")  BY <1>11, <2>4 DEF RemovePath
      <3>2. Cwd(s)' = Cwd(s) /\ Command(s)' = Command(s) /\ Answer(s)' = "ERROR"
        BY <2>1, <3>1, Reported
      <3>3. DS!Do(s)  BY <2>1, <2>2, <2>4, <3>1, <3>2, DoError
      <3> QED  BY <3>3 DEF DS!Next
    <2> QED  BY <2>3, <2>4
  <1>12. CASE Reply(s)
    <2>1. /\ Cwd(s)' = Cwd(s) /\ Command(s)' = DS!NoCommand /\ tree' = tree
          /\ Answer(s) # "none" /\ Answer(s)' = "none"
      BY <1>12 DEF Reply, Cwd, Command, Answer, DS!NoCommand, InHandler
    <2>2. /\ Cwds' = [Cwds EXCEPT ![s] = Cwd(s)]
          /\ Commands' = [Commands EXCEPT ![s] = DS!NoCommand]
          /\ Answers' = [Answers EXCEPT ![s] = "none"]
      BY <2>1, OneChanges
    <2>3. /\ Answers[s] # "none" /\ Commands' = [Commands EXCEPT ![s] = DS!NoCommand]
          /\ Answers' = [Answers EXCEPT ![s] = "none"] /\ UNCHANGED <<tree, Cwds>>
      BY <2>1, <2>2 DEF Answers, Cwds
    <2>4. DS!Answer(s)
      BY <2>3, Zenon DEF DS!Answer, Cwds, Cwd, Commands, Command, Answers, Answer
    <2> QED  BY <2>4 DEF DS!Next
  <1>13. CASE User(s)
    <2>1. "ls" \in Ops  BY DEF Ops
    <2> QED  BY <1>1, <1>2, <1>13, <2>1 DEF User
  <1> QED
    BY <1>3, <1>4, <1>5, <1>6, <1>7, <1>8, <1>9, <1>10, <1>11, <1>12, <1>13, <1>14, <1>15
    DEF Worker

LEMMA RefinementNext == IInv /\ [Next]_vars => [DS!Next]_(DS!vars)
  <1> SUFFICES ASSUME IInv, [Next]_vars PROVE DS!Next \/ UNCHANGED DS!vars  OBVIOUS
  <1>1. CASE UNCHANGED vars  BY <1>1 DEF vars, DS!vars
  <1> QED  BY <1>1, RefinementStep DEF Next

\* Every command takes effect at one instant on the path its reader expects, for any
\* number of sessions, paths of any length and any interleaving of their system calls.
THEOREM Refinement == Spec => ImplementsDirectoryService
  BY RefinementInit, RefinementNext, Invariance, PTL DEF Spec, DS!Spec, ImplementsDirectoryService
================================================================================
