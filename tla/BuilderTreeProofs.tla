------------------------- MODULE BuilderTreeProofs -------------------------
(***************************************************************************)
(* For any builders and any calls that keep clear of the cases described   *)
(* with AvoidedAdd and AvoidedRename: the symbol and tag tables, the lists *)
(* of children and the parents of all builders agree, the numbers given on *)
(* Build differ, and a call that is refused changes nothing.               *)
(***************************************************************************)
EXTENDS BuilderTree, FiniteSetTheorems, SequenceTheorems, Induction, TLAPS

\* A list of children has the elements whose parent it belongs to, each of them once.
Ordered(t) ==
  \A p \in Parents :
    /\ \A i \in 1..Len(t.kids[p]) : t.parent[t.kids[p][i]] = p
    /\ \A i, j \in 1..Len(t.kids[p]) : t.kids[p][i] = t.kids[p][j] => i = j
    /\ \A b \in Builders : t.parent[b] = p => \E i \in 1..Len(t.kids[p]) : t.kids[p][i] = b

\* What may be below what.
Kinds(t) ==
  \A b \in Builders :
    /\ t.parent[b] \in Parents \cup Fields \cup {NoBuilder}
    /\ t.parent[b] \in Fields => b \in Messages
    /\ t.parent[b] \in Oneofs => b \in Fields
    /\ t.parent[b] \in Plain => b \notin Oneofs \cup Fields

\* Groups and their fields.
Grouped(t) ==
  /\ \A f \in Fields : t.group[f] # NoBuilder =>
       /\ t.parent[t.group[f]] = f /\ t.parent[f] \notin Oneofs
       /\ t.name[t.group[f]] \in Capital /\ t.name[f] = GroupName[t.name[t.group[f]]]
  /\ \A b \in Builders : t.parent[b] \in Fields => t.group[t.parent[b]] \in {b, NoBuilder}

Sound(t) == t \in Trees /\ Ordered(t) /\ Kinds(t) /\ Grouped(t)

\* Members, as the parents tell them: an element is a member of its parent, and a choice
\* and the message of a group are members of the message above their parent.
Through(t, c) ==
  \/ t.parent[c] \in Oneofs
  \/ t.parent[c] \in Fields /\ t.group[t.parent[c]] = c

In(t, q, c) ==
  \/ t.parent[c] = q
  \/ q \in Messages /\ Through(t, c) /\ t.parent[t.parent[c]] = q

\* The tables list the members.
SymbolsMatch(t) ==
  \A q \in Parents, n \in Names, c \in Builders :
    t.symbols[q][n] = c <=> In(t, q, c) /\ t.name[c] = n

TagsMatch(t) ==
  \A m \in Messages, i \in 1..MaxTag, f \in Fields :
    t.tags[m][i] = f <=> In(t, m, f) /\ t.number[f] = i

Good(t) == Sound(t) /\ SymbolsMatch(t) /\ TagsMatch(t)

-----------------------------------------------------------------------------
(* The parts of a tree, and what the elementary steps do to them. *)

LEMMA TreeTypes ==
  ASSUME NEW t \in Trees
  PROVE  /\ t.name \in [Builders -> Names]
         /\ t.parent \in [Builders -> Builders \cup {NoBuilder}]
         /\ t.kids \in [Parents -> Seq(Builders)]
         /\ t.symbols \in [Parents -> [Names -> Builders \cup {NoBuilder}]]
         /\ t.number \in [Fields -> 0..MaxTag]
         /\ t.tags \in [Messages -> [1..MaxTag -> Fields \cup {NoBuilder}]]
         /\ t.group \in [Fields -> Messages \cup {NoBuilder}]
  BY DEF Trees

\* One part replaced.
NewParent(t, x) == [t EXCEPT !.parent = x]
NewKids(t, x) == [t EXCEPT !.kids = x]
NewSymbols(t, x) == [t EXCEPT !.symbols = x]
NewNumber(t, x) == [t EXCEPT !.number = x]
NewTags(t, x) == [t EXCEPT !.tags = x]
NewGroup(t, x) == [t EXCEPT !.group = x]
NewName(t, x) == [t EXCEPT !.name = x]

LEMMA NewParentFields ==
  ASSUME NEW t \in Trees, NEW x \in [Builders -> Builders \cup {NoBuilder}]
  PROVE  LET u == NewParent(t, x) IN
         /\ u \in Trees /\ u.parent = x
         /\ u.name = t.name /\ u.kids = t.kids /\ u.symbols = t.symbols
         /\ u.number = t.number /\ u.tags = t.tags /\ u.group = t.group
  BY DEF NewParent, Trees

LEMMA NewKidsFields ==
  ASSUME NEW t \in Trees, NEW x \in [Parents -> Seq(Builders)]
  PROVE  LET u == NewKids(t, x) IN
         /\ u \in Trees /\ u.kids = x
         /\ u.name = t.name /\ u.parent = t.parent /\ u.symbols = t.symbols
         /\ u.number = t.number /\ u.tags = t.tags /\ u.group = t.group
  BY DEF NewKids, Trees

LEMMA NewSymbolsFields ==
  ASSUME NEW t \in Trees, NEW x \in [Parents -> [Names -> Builders \cup {NoBuilder}]]
  PROVE  LET u == NewSymbols(t, x) IN
         /\ u \in Trees /\ u.symbols = x
         /\ u.name = t.name /\ u.parent = t.parent /\ u.kids = t.kids
         /\ u.number = t.number /\ u.tags = t.tags /\ u.group = t.group
  BY DEF NewSymbols, Trees

LEMMA NewNumberFields ==
  ASSUME NEW t \in Trees, NEW x \in [Fields -> 0..MaxTag]
  PROVE  LET u == NewNumber(t, x) IN
         /\ u \in Trees /\ u.number = x
         /\ u.name = t.name /\ u.parent = t.parent /\ u.kids = t.kids
         /\ u.symbols = t.symbols /\ u.tags = t.tags /\ u.group = t.group
  BY DEF NewNumber, Trees

LEMMA NewTagsFields ==
  ASSUME NEW t \in Trees, NEW x \in [Messages -> [1..MaxTag -> Fields \cup {NoBuilder}]]
  PROVE  LET u == NewTags(t, x) IN
         /\ u \in Trees /\ u.tags = x
         /\ u.name = t.name /\ u.parent = t.parent /\ u.kids = t.kids
         /\ u.symbols = t.symbols /\ u.number = t.number /\ u.group = t.group
  BY DEF NewTags, Trees

LEMMA NewGroupFields ==
  ASSUME NEW t \in Trees, NEW x \in [Fields -> Messages \cup {NoBuilder}]
  PROVE  LET u == NewGroup(t, x) IN
         /\ u \in Trees /\ u.group = x
         /\ u.name = t.name /\ u.parent = t.parent /\ u.kids = t.kids
         /\ u.symbols = t.symbols /\ u.number = t.number /\ u.tags = t.tags
  BY DEF NewGroup, Trees

LEMMA NewNameFields ==
  ASSUME NEW t \in Trees, NEW x \in [Builders -> Names]
  PROVE  LET u == NewName(t, x) IN
         /\ u \in Trees /\ u.name = x
         /\ u.parent = t.parent /\ u.kids = t.kids /\ u.symbols = t.symbols
         /\ u.number = t.number /\ u.tags = t.tags /\ u.group = t.group
  BY DEF NewName, Trees

LEMMA WithSymbolFields ==
  ASSUME NEW t \in Trees, NEW p \in Parents, NEW b \in Builders
  PROVE  LET u == WithSymbol(t, p, b) IN
         /\ u \in Trees
         /\ u.name = t.name /\ u.parent = t.parent /\ u.kids = t.kids
         /\ u.number = t.number /\ u.tags = t.tags /\ u.group = t.group
         /\ \A q \in Parents, n \in Names :
              u.symbols[q][n] = IF q = p /\ n = t.name[b] THEN b ELSE t.symbols[q][n]
  BY DEF WithSymbol, Trees

LEMMA WithoutSymbolFields ==
  ASSUME NEW t \in Trees, NEW p \in Parents, NEW k \in Names
  PROVE  LET u == WithoutSymbol(t, p, k) IN
         /\ u \in Trees
         /\ u.name = t.name /\ u.parent = t.parent /\ u.kids = t.kids
         /\ u.number = t.number /\ u.tags = t.tags /\ u.group = t.group
         /\ \A q \in Parents, n \in Names :
              u.symbols[q][n] = IF q = p /\ n = k THEN NoBuilder ELSE t.symbols[q][n]
  BY DEF WithoutSymbol, Trees

LEMMA WithTagFields ==
  ASSUME NEW t \in Trees, NEW m \in Messages, NEW f \in Fields
  PROVE  LET u == WithTag(t, m, f) IN
         /\ u \in Trees
         /\ u.name = t.name /\ u.parent = t.parent /\ u.kids = t.kids
         /\ u.number = t.number /\ u.symbols = t.symbols /\ u.group = t.group
         /\ \A q \in Messages, i \in 1..MaxTag :
              u.tags[q][i] = IF q = m /\ i = t.number[f] THEN f ELSE t.tags[q][i]
<1>1. t.number[f] \in 0..MaxTag
  BY TreeTypes
<1>2. CASE t.number[f] = 0
  BY <1>2 DEF WithTag
<1>3. CASE t.number[f] # 0
  <2>1. t.number[f] \in 1..MaxTag
    BY <1>1, <1>3, BuilderAssumption
  <2> QED
    BY <1>3, <2>1 DEF WithTag, Trees
<1> QED
  BY <1>2, <1>3

LEMMA WithoutTagFields ==
  ASSUME NEW t \in Trees, NEW m \in Messages, NEW k \in 0..MaxTag
  PROVE  LET u == WithoutTag(t, m, k) IN
         /\ u \in Trees
         /\ u.name = t.name /\ u.parent = t.parent /\ u.kids = t.kids
         /\ u.number = t.number /\ u.symbols = t.symbols /\ u.group = t.group
         /\ \A q \in Messages, i \in 1..MaxTag :
              u.tags[q][i] = IF q = m /\ i = k THEN NoBuilder ELSE t.tags[q][i]
<1>1. CASE k = 0
  BY <1>1 DEF WithoutTag
<1>2. CASE k # 0
  <2>1. k \in 1..MaxTag
    BY <1>2, BuilderAssumption
  <2> QED
    BY <1>2, <2>1 DEF WithoutTag, Trees
<1> QED
  BY <1>1, <1>2

LEMMA ForgottenFields ==
  ASSUME NEW t \in Trees, NEW m \in Messages, NEW N, NEW I
  PROVE  LET u == Forgotten(t, m, N, I) IN
         /\ u \in Trees
         /\ u.name = t.name /\ u.parent = t.parent /\ u.kids = t.kids
         /\ u.number = t.number /\ u.group = t.group
         /\ \A q \in Parents, n \in Names :
              u.symbols[q][n] = IF q = m /\ n \in N THEN NoBuilder ELSE t.symbols[q][n]
         /\ \A q \in Messages, i \in 1..MaxTag :
              u.tags[q][i] = IF q = m /\ i \in I THEN NoBuilder ELSE t.tags[q][i]
<1> DEFINE S == [n \in Names |-> IF n \in N THEN NoBuilder ELSE t.symbols[m][n]]
           T == [i \in 1..MaxTag |-> IF i \in I THEN NoBuilder ELSE t.tags[m][i]]
           SS == [t.symbols EXCEPT ![m] = S]
           TT == [t.tags EXCEPT ![m] = T]
<1>1. m \in Parents
  BY DEF Parents
<1>2. S \in [Names -> Builders \cup {NoBuilder}] /\ T \in [1..MaxTag -> Fields \cup {NoBuilder}]
  <2>1. /\ t.symbols[m] \in [Names -> Builders \cup {NoBuilder}]
        /\ t.tags[m] \in [1..MaxTag -> Fields \cup {NoBuilder}]
    BY <1>1, TreeTypes
  <2> QED
    BY <2>1
<1>3. Forgotten(t, m, N, I) = NewTags(NewSymbols(t, SS), [NewSymbols(t,SS).tags EXCEPT ![m] = T])
  BY DEF Forgotten, NewTags, NewSymbols
<1>4. SS \in [Parents -> [Names -> Builders \cup {NoBuilder}]] /\ TT \in [Messages -> [1..MaxTag -> Fields \cup {NoBuilder}]]
  BY <1>1, <1>2, TreeTypes
<1> DEFINE v == NewSymbols(t, SS)
<1>5. /\ v \in Trees /\ v.symbols = SS
      /\ v.name = t.name /\ v.parent = t.parent /\ v.kids = t.kids
      /\ v.number = t.number /\ v.tags = t.tags /\ v.group = t.group
  <2> HIDE DEF SS
  <2> QED
    BY <1>4, NewSymbolsFields
<1>6. Forgotten(t, m, N, I) = NewTags(v, TT)
  <2>1. TT = [v.tags EXCEPT ![m] = T]
    BY <1>5
  <2> QED
    BY <1>3, <2>1
<1> HIDE DEF v, TT
<1>7. LET u == NewTags(v, TT) IN 
         /\ u \in Trees /\ u.tags = TT
         /\ u.name = v.name /\ u.parent = v.parent /\ u.kids = v.kids
         /\ u.symbols = v.symbols /\ u.number = v.number /\ u.group = v.group
  BY <1>4, <1>5, NewTagsFields
<1>8. \A q \in Parents, n \in Names :
         SS[q][n] = IF q = m /\ n \in N THEN NoBuilder ELSE t.symbols[q][n]
  BY <1>1, TreeTypes DEF SS
<1>9. \A q \in Messages, i \in 1..MaxTag :
         TT[q][i] = IF q = m /\ i \in I THEN NoBuilder ELSE t.tags[q][i]
  BY TreeTypes DEF TT
<1> QED
  BY <1>5, <1>6, <1>7, <1>8, <1>9

LEMMA JoinFacts ==
  ASSUME NEW S, NEW s \in Seq(S), NEW t \in Seq(S)
  PROVE  /\ s \o t \in Seq(S) /\ Len(s \o t) = Len(s) + Len(t)
         /\ \A i \in 1..Len(s) + Len(t) :
              (s \o t)[i] = IF i <= Len(s) THEN s[i] ELSE t[i - Len(s)]
<1>1. s \o t \in Seq(S)
  OBVIOUS
<1>2. Len(s \o t) = Len(s) + Len(t)
  OBVIOUS
<1>3. \A i \in 1..Len(s) + Len(t) :
         (s \o t)[i] = IF i <= Len(s) THEN s[i] ELSE t[i - Len(s)]
  OBVIOUS
<1> QED
  BY <1>1, <1>2, <1>3

\* A list without one of its elements.
LEMMA RemoveFirstFacts ==
  ASSUME NEW S, NEW s \in Seq(S), NEW k \in 1..Len(s),
         \A i, j \in 1..Len(s) : s[i] = s[j] => i = j
  PROVE  LET r == RemoveFirst(s, s[k]) IN
         /\ r \in Seq(S) /\ Len(r) = Len(s) - 1
         /\ \A i \in 1..Len(r) : r[i] = IF i < k THEN s[i] ELSE s[i + 1]
<1> DEFINE I == {i \in 1..Len(s) : s[i] = s[k]}
<1>1. I = {k}
  OBVIOUS
<1>2. Min(I) = k
  BY <1>1 DEF Min
<1>3. SelectInSeq(s, LAMBDA v : v = s[k]) = k
  BY <1>1, <1>2 DEF SelectInSeq
<1>4. RemoveFirst(s, s[k]) = RemoveAt(s, k)
  BY <1>3 DEF RemoveFirst
<1>5. Len(s) \in Nat /\ k \in 1..Len(s)
  OBVIOUS
<1>6. PICK head \in Seq(S) :
        /\ head = SubSeq(s, 1, k - 1) /\ Len(head) = k - 1
        /\ \A i \in 1..k - 1 : head[i] = s[i]
  <2>1. \A i \in 1..k - 1 : s[i] \in S
    BY <1>5
  <2> DEFINE r == SubSeq(s, 1, k - 1)
  <2>2. r \in Seq(S) /\ Len(r) = k - 1 /\ \A i \in 1..k - 1 : r[i] = s[i]
    BY <1>5, <2>1, SubSeqProperties
  <2> HIDE DEF r
  <2> QED
    BY <2>2 DEF r
<1>7. PICK tail \in Seq(S) :
        /\ tail = SubSeq(s, k + 1, Len(s)) /\ Len(tail) = Len(s) - k
        /\ \A i \in 1..Len(s) - k : tail[i] = s[k + i]
  <2>1. \A i \in k + 1..Len(s) : s[i] \in S
    BY <1>5
  <2> DEFINE r == SubSeq(s, k + 1, Len(s))
  <2>2. r \in Seq(S) /\ Len(r) = Len(s) - k /\ \A i \in 1..Len(s) - k : r[i] = s[k + i]
    BY <1>5, <2>1, SubSeqProperties
  <2> HIDE DEF r
  <2> QED
    BY <2>2 DEF r
<1>8. /\ head \o tail \in Seq(S) /\ Len(head \o tail) = Len(s) - 1
      /\ \A i \in 1..Len(s) - 1 :
           (head \o tail)[i] = IF i <= k - 1 THEN head[i] ELSE tail[i - (k - 1)]
  <2>1. Len(head) = k - 1 /\ Len(tail) = Len(s) - k /\ Len(head) + Len(tail) = Len(s) - 1
    <3>1. Len(head) = k - 1
      BY <1>6
    <3>2. Len(tail) = Len(s) - k
      BY <1>7
    <3> QED
      BY <1>5, <3>1, <3>2
  <2>2. /\ head \o tail \in Seq(S) /\ Len(head \o tail) = Len(head) + Len(tail)
        /\ \A i \in 1..Len(head) + Len(tail) :
             (head \o tail)[i] = IF i <= Len(head) THEN head[i] ELSE tail[i - Len(head)]
    <3>1. head \in Seq(S) /\ tail \in Seq(S)
      BY <1>6, <1>7
    <3> QED
      BY <3>1, JoinFacts, Zenon
  <2> QED
    BY <2>1, <2>2
<1>9. ASSUME NEW i \in 1..Len(s) - 1
      PROVE  (head \o tail)[i] = IF i < k THEN s[i] ELSE s[i + 1]
  <2>1. CASE i < k
    BY <1>5, <1>6, <1>8, <2>1
  <2>2. CASE ~(i < k)
    <3>1. i - (k - 1) \in 1..Len(s) - k /\ k + (i - (k - 1)) = i + 1 /\ ~(i <= k - 1)
      BY <1>5, <2>2
    <3>2. (head \o tail)[i] = tail[i - (k - 1)]
      BY <1>8, <3>1
    <3>3. tail[i - (k - 1)] = s[k + (i - (k - 1))]
      BY <1>7, <3>1
    <3> QED
      BY <2>2, <3>1, <3>2, <3>3
  <2> QED
    BY <2>1, <2>2
<1> QED
  BY <1>4, <1>6, <1>7, <1>8, <1>9 DEF RemoveAt

LEMMA LinkedFields ==
  ASSUME NEW t \in Trees, NEW p \in Parents, NEW b \in Builders
  PROVE  LET u == Linked(t, p, b) IN
         /\ u \in Trees
         /\ u.name = t.name /\ u.symbols = t.symbols /\ u.tags = t.tags
         /\ u.number = t.number /\ u.group = t.group
         /\ u.parent = [t.parent EXCEPT ![b] = p]
         /\ u.kids = [t.kids EXCEPT ![p] = Append(t.kids[p], b)]
<1> DEFINE P == [t.parent EXCEPT ![b] = p]
           K == [t.kids EXCEPT ![p] = Append(t.kids[p], b)]
           v == NewParent(t, P)
<1>1. P \in [Builders -> Builders \cup {NoBuilder}] /\ K \in [Parents -> Seq(Builders)]
  <2>1. t.kids[p] \in Seq(Builders) /\ p \in Builders
    BY TreeTypes DEF Builders
  <2>2. Append(t.kids[p], b) \in Seq(Builders)
    BY <2>1
  <2> QED
    BY <2>1, <2>2, TreeTypes
<1>2. Linked(t, p, b) = NewKids(v, [v.kids EXCEPT ![p] = Append(@, b)])
  BY DEF Linked, NewParent, NewKids
<1> HIDE DEF P
<1>3. /\ v \in Trees /\ v.parent = P
      /\ v.name = t.name /\ v.symbols = t.symbols /\ v.tags = t.tags
      /\ v.number = t.number /\ v.group = t.group /\ v.kids = t.kids
  BY <1>1, NewParentFields
<1>4. Linked(t, p, b) = NewKids(v, K)
  BY <1>2, <1>3
<1> HIDE DEF K, v
<1>5. LET u == NewKids(v, K) IN
      /\ u \in Trees /\ u.kids = K
      /\ u.name = v.name /\ u.symbols = v.symbols /\ u.tags = v.tags
      /\ u.number = v.number /\ u.group = v.group /\ u.parent = v.parent
  BY <1>1, <1>3, NewKidsFields
<1> QED
  BY <1>3, <1>4, <1>5 DEF P, K

LEMMA DetachedFields ==
  ASSUME NEW t \in Trees, NEW p \in Parents, NEW b \in Builders, Ordered(t), t.parent[b] = p
  PROVE  LET u == Detached(t, p, b) IN
         /\ u \in Trees
         /\ u.name = t.name /\ u.symbols = t.symbols /\ u.tags = t.tags
         /\ u.number = t.number /\ u.group = t.group
         /\ u.parent = [t.parent EXCEPT ![b] = NoBuilder]
         /\ u.kids = [t.kids EXCEPT ![p] = RemoveFirst(t.kids[p], b)]
<1> DEFINE P == [t.parent EXCEPT ![b] = NoBuilder]
           K == [t.kids EXCEPT ![p] = RemoveFirst(t.kids[p], b)]
           v == NewKids(t, K)
<1>1. P \in [Builders -> Builders \cup {NoBuilder}] /\ K \in [Parents -> Seq(Builders)]
  <2>1. PICK k \in 1..Len(t.kids[p]) : t.kids[p][k] = b
    BY DEF Ordered
  <2>2. t.kids[p] \in Seq(Builders)
    BY TreeTypes
  <2>3. \A i, j \in 1..Len(t.kids[p]) : t.kids[p][i] = t.kids[p][j] => i = j
    BY DEF Ordered
  <2> HIDE DEF Ordered
  <2>4. RemoveFirst(t.kids[p], t.kids[p][k]) \in Seq(Builders)
    BY <2>2, <2>3, RemoveFirstFacts
  <2> QED
    BY <2>1, <2>4, TreeTypes
<1>2. Detached(t, p, b) = NewParent(v, [v.parent EXCEPT ![b] = NoBuilder])
  BY DEF Detached, NewParent, NewKids
<1> HIDE DEF K
<1>3. /\ v \in Trees /\ v.kids = K
      /\ v.name = t.name /\ v.symbols = t.symbols /\ v.tags = t.tags
      /\ v.number = t.number /\ v.group = t.group /\ v.parent = t.parent
  BY <1>1, NewKidsFields
<1>4. Detached(t, p, b) = NewParent(v, P)
  BY <1>2, <1>3
<1> HIDE DEF P, v
<1>5. LET u == NewParent(v, P) IN
      /\ u \in Trees /\ u.parent = P
      /\ u.name = v.name /\ u.symbols = v.symbols /\ u.tags = v.tags
      /\ u.number = v.number /\ u.group = v.group /\ u.kids = v.kids
  BY <1>1, <1>3, NewParentFields
<1> QED
  BY <1>3, <1>4, <1>5 DEF P, K

-----------------------------------------------------------------------------
(* Unlinking an element. *)

LEMMA KindFacts ==
  /\ \A x \in Messages : x \in Parents /\ x \in Builders /\ x \notin Plain \cup Oneofs \cup Fields \cup Leaves
  /\ \A x \in Oneofs : x \in Parents /\ x \in Builders /\ x \notin Plain \cup Messages \cup Fields \cup Leaves
  /\ \A x \in Plain : x \in Parents /\ x \in Builders /\ x \notin Messages \cup Oneofs \cup Fields \cup Leaves
  /\ \A x \in Fields : x \in Builders /\ x \notin Parents \cup Leaves
  /\ \A x \in Parents : x \in Builders /\ x \in Plain \cup Messages \cup Oneofs
  /\ NoBuilder \notin Builders \cup Fields \cup Parents
  BY BuilderAssumption DEF Parents, Builders

\* The members that leave q with b: b itself, and what is a member of q through b.
Leaving(t, b, q) == {c \in Builders : In(t, q, c) /\ (c = b \/ (t.parent[c] = b /\ q # b))}

\* The tables of u are those of t without the elements that leave with b.
Cleared(t, u, b) ==
  /\ \A q \in Parents, n \in Names :
       u.symbols[q][n] = IF \E c \in Leaving(t, b, q) : t.name[c] = n THEN NoBuilder
                         ELSE t.symbols[q][n]
  /\ \A m \in Messages, i \in 1..MaxTag :
       u.tags[m][i] = IF \E f \in Leaving(t, b, m) \cap Fields : t.number[f] = i THEN NoBuilder
                      ELSE t.tags[m][i]

LEMMA ForgottenFieldFields ==
  ASSUME NEW t \in Trees, NEW m \in Messages, NEW f \in Fields
  PROVE  LET u == ForgottenField(t, m, f) IN
         /\ u \in Trees
         /\ u.name = t.name /\ u.parent = t.parent /\ u.kids = t.kids
         /\ u.number = t.number /\ u.group = t.group
         /\ \A q \in Parents, n \in Names : u.symbols[q][n] =
              IF q = m /\ (n = t.name[f] \/ (t.group[f] # NoBuilder /\ n = t.name[t.group[f]]))
              THEN NoBuilder ELSE t.symbols[q][n]
         /\ \A q \in Messages, i \in 1..MaxTag : u.tags[q][i] =
              IF q = m /\ i = t.number[f] THEN NoBuilder ELSE t.tags[q][i]
<1>0. PICK k \in 0..MaxTag : k = t.number[f]
  BY TreeTypes
<1> DEFINE v == WithoutSymbol(t, m, t.name[f])
           w == WithoutTag(v, m, k)
<1>1. m \in Parents /\ f \in Builders /\ t.name[f] \in Names /\ k \in 0..MaxTag
  BY <1>0, TreeTypes, KindFacts
<1>2. /\ v \in Trees
      /\ v.name = t.name /\ v.parent = t.parent /\ v.kids = t.kids
      /\ v.number = t.number /\ v.tags = t.tags /\ v.group = t.group
      /\ \A q \in Parents, n \in Names :
           v.symbols[q][n] = IF q = m /\ n = t.name[f] THEN NoBuilder ELSE t.symbols[q][n]
  BY <1>1, WithoutSymbolFields
<1> HIDE DEF v
<1>3. /\ w \in Trees
      /\ w.name = v.name /\ w.parent = v.parent /\ w.kids = v.kids
      /\ w.number = v.number /\ w.symbols = v.symbols /\ w.group = v.group
      /\ \A q \in Messages, i \in 1..MaxTag :
           w.tags[q][i] = IF q = m /\ i = k THEN NoBuilder ELSE v.tags[q][i]
  <2>1. v \in Trees /\ k \in 0..MaxTag
    BY <1>1, <1>2
  <2> QED
    BY <2>1, WithoutTagFields
<1>4. ForgottenField(t, m, f) = IF t.group[f] = NoBuilder THEN w ELSE WithoutSymbol(w, m, t.name[t.group[f]])
  BY <1>0 DEF ForgottenField, v
<1> HIDE DEF w
<1>5. CASE t.group[f] = NoBuilder
  <2>1. ForgottenField(t, m, f) = w
    BY <1>4, <1>5
  <2>2. ASSUME NEW q \in Parents, NEW n \in Names
        PROVE  w.symbols[q][n] =
              IF q = m /\ (n = t.name[f] \/ (t.group[f] # NoBuilder /\ n = t.name[t.group[f]]))
              THEN NoBuilder ELSE t.symbols[q][n]
    BY <1>2, <1>3, <1>5
  <2>3. ASSUME NEW q \in Messages, NEW i \in 1..MaxTag
        PROVE  w.tags[q][i] = IF q = m /\ i = t.number[f] THEN NoBuilder ELSE t.tags[q][i]
    BY <1>0, <1>2, <1>3
  <2> QED
    BY <1>2, <1>3, <2>1, <2>2, <2>3
<1>6. CASE t.group[f] # NoBuilder
  <2> DEFINE g == t.name[t.group[f]]
             x == WithoutSymbol(w, m, g)
  <2>1. g \in Names
    BY <1>6, TreeTypes, KindFacts
  <2> HIDE DEF g
  <2>2. /\ x \in Trees
        /\ x.name = w.name /\ x.parent = w.parent /\ x.kids = w.kids
        /\ x.number = w.number /\ x.tags = w.tags /\ x.group = w.group
        /\ \A q \in Parents, n \in Names :
             x.symbols[q][n] = IF q = m /\ n = g THEN NoBuilder ELSE w.symbols[q][n]
    <3>1. w \in Trees /\ m \in Parents /\ g \in Names
      BY <1>1, <1>3, <2>1
    <3> HIDE DEF w
    <3> QED
      BY <3>1, WithoutSymbolFields
  <2>3. ForgottenField(t, m, f) = x
    BY <1>4, <1>6 DEF g
  <2> HIDE DEF x
  <2>4. ASSUME NEW q \in Parents, NEW n \in Names
        PROVE  x.symbols[q][n] =
              IF q = m /\ (n = t.name[f] \/ (t.group[f] # NoBuilder /\ n = t.name[t.group[f]]))
              THEN NoBuilder ELSE t.symbols[q][n]
    BY <1>2, <1>3, <1>6, <2>2 DEF g
  <2>5. ASSUME NEW q \in Messages, NEW i \in 1..MaxTag
        PROVE  x.tags[q][i] = IF q = m /\ i = t.number[f] THEN NoBuilder ELSE t.tags[q][i]
    BY <1>0, <1>2, <1>3, <2>2
  <2> QED
    BY <1>2, <1>3, <2>2, <2>3, <2>4, <2>5
<1> QED
  BY <1>5, <1>6

\* What is above a oneof and a field.
LEMMA AboveFacts ==
  ASSUME NEW t, Sound(t)
  PROVE  /\ t \in Trees
         /\ \A b \in Builders : t.parent[b] \in Parents \cup Fields \cup {NoBuilder}
         /\ \A o \in Oneofs : t.parent[o] \in Messages \cup {NoBuilder}
         /\ \A f \in Fields : t.parent[f] \in Messages \cup Oneofs \cup {NoBuilder}
         /\ \A f \in Fields : t.group[f] \in Messages \cup {NoBuilder}
         /\ \A f \in Fields : t.group[f] # NoBuilder => t.parent[t.group[f]] = f /\ t.parent[f] \notin Oneofs
<1>1. t \in Trees /\ Kinds(t) /\ Grouped(t)
  BY DEF Sound
<1>2. \A o \in Oneofs : t.parent[o] \in Messages \cup {NoBuilder}
  BY <1>1, KindFacts DEF Kinds
<1>3. \A f \in Fields : t.parent[f] \in Messages \cup Oneofs \cup {NoBuilder}
  BY <1>1, KindFacts DEF Kinds
<1> QED
  BY <1>1, <1>2, <1>3, TreeTypes DEF Kinds, Grouped

\* Which members leave with b, by the kind of its parent.
LEMMA LeavingNone ==
  ASSUME NEW t, Sound(t), NEW b \in Builders, NEW q \in Parents,
         t.parent[b] = NoBuilder \/ (t.parent[b] \in Fields /\ t.group[t.parent[b]] # b)
  PROVE  Leaving(t, b, q) = {}
<1> SUFFICES ASSUME NEW c \in Builders, In(t, q, c), c = b \/ (t.parent[c] = b /\ q # b)
             PROVE  FALSE
  BY DEF Leaving
<1> QED
  BY AboveFacts, KindFacts DEF In, Through, Sound, Kinds

LEMMA LeavingGroup ==
  ASSUME NEW t, Sound(t), NEW b \in Builders, NEW q \in Parents,
         t.parent[b] \in Fields, t.group[t.parent[b]] = b
  PROVE  Leaving(t, b, q) = IF t.parent[t.parent[b]] = q THEN {b} ELSE {}
<1>1. ASSUME NEW c \in Builders
      PROVE  c \in Leaving(t, b, q) <=> c = b /\ t.parent[t.parent[b]] = q
  BY AboveFacts, KindFacts DEF In, Through, Sound, Kinds, Leaving
<1> QED
  BY <1>1 DEF Leaving

LEMMA LeavingChoice ==
  ASSUME NEW t, Sound(t), NEW b \in Builders, NEW q \in Parents, t.parent[b] \in Oneofs
  PROVE  Leaving(t, b, q) = IF q = t.parent[b] \/ q = t.parent[t.parent[b]] THEN {b} ELSE {}
<1>1. ASSUME NEW c \in Builders
      PROVE  c \in Leaving(t, b, q) <=> c = b /\ (q = t.parent[b] \/ q = t.parent[t.parent[b]])
  BY AboveFacts, KindFacts DEF In, Through, Sound, Kinds, Leaving
<1> QED
  BY <1>1 DEF Leaving

LEMMA LeavingOneof ==
  ASSUME NEW t, Sound(t), NEW b \in Oneofs, NEW q \in Parents, t.parent[b] \in Messages
  PROVE  Leaving(t, b, q) = IF q = t.parent[b] THEN {b} \cup {c \in Builders : t.parent[c] = b} ELSE {}
<1>1. ASSUME NEW c \in Builders
      PROVE  c \in Leaving(t, b, q) <=> q = t.parent[b] /\ (c = b \/ t.parent[c] = b)
  BY AboveFacts, KindFacts DEF In, Through, Sound, Kinds, Leaving
<1> QED
  BY <1>1, KindFacts DEF Leaving

LEMMA LeavingField ==
  ASSUME NEW t, Sound(t), NEW b \in Fields, NEW q \in Parents, t.parent[b] \in Messages
  PROVE  Leaving(t, b, q) = IF q = t.parent[b] THEN {b} \cup ({t.group[b]} \ {NoBuilder}) ELSE {}
<1>1. ASSUME NEW c \in Builders
      PROVE  c \in Leaving(t, b, q) <=> q = t.parent[b] /\ (c = b \/ c = t.group[b])
  BY AboveFacts, KindFacts DEF In, Through, Sound, Kinds, Leaving
<1> QED
  BY <1>1, AboveFacts, KindFacts DEF Leaving

LEMMA LeavingPlain ==
  ASSUME NEW t, Sound(t), NEW b \in Builders, NEW q \in Parents,
         t.parent[b] \in Plain \cup Messages, b \notin Oneofs \cup Fields
  PROVE  Leaving(t, b, q) = IF q = t.parent[b] THEN {b} ELSE {}
<1>1. ASSUME NEW c \in Builders
      PROVE  c \in Leaving(t, b, q) <=> q = t.parent[b] /\ c = b
  BY AboveFacts, KindFacts DEF In, Through, Sound, Kinds, Leaving
<1> QED
  BY <1>1 DEF Leaving

\* What unlinking b does to t.
Apart(t, u, b) ==
  LET p == t.parent[b] IN
  /\ u \in Trees /\ u.name = t.name /\ u.number = t.number
  /\ p \in Fields =>
       /\ u.parent = t.parent /\ u.kids = t.kids
       /\ u.group = IF t.group[p] = b THEN [t.group EXCEPT ![p] = NoBuilder] ELSE t.group
  /\ p \notin Fields =>
       /\ u.group = t.group
       /\ u.parent = [t.parent EXCEPT ![b] = NoBuilder]
       /\ u.kids = IF p \in Parents THEN [t.kids EXCEPT ![p] = RemoveFirst(t.kids[p], b)] ELSE t.kids
  /\ Cleared(t, u, b)

LEMMA ClearedNone ==
  ASSUME NEW t, Sound(t), NEW b \in Builders,
         t.parent[b] = NoBuilder \/ (t.parent[b] \in Fields /\ t.group[t.parent[b]] # b)
  PROVE  Cleared(t, t, b)
<1>1. \A q \in Parents : Leaving(t, b, q) = {}
  BY LeavingNone
<1> QED
  BY <1>1, KindFacts DEF Cleared

LEMMA SameOrder ==
  ASSUME NEW t, NEW v, v.parent = t.parent, v.kids = t.kids, Ordered(t)
  PROVE  Ordered(v)
  BY DEF Ordered

LEMMA UnlinkedFree ==
  ASSUME NEW t, Sound(t), NEW b \in Builders,
         t.parent[b] = NoBuilder \/ (t.parent[b] \in Fields /\ t.group[t.parent[b]] # b)
  PROVE  Apart(t, Unlinked(t, b), b)
<1>1. Unlinked(t, b) = t
  BY AboveFacts, KindFacts DEF Unlinked
<1>2. t \in Trees /\ t.parent \in [Builders -> Builders \cup {NoBuilder}]
  BY TreeTypes DEF Sound
<1> QED
  BY <1>1, <1>2, ClearedNone, KindFacts DEF Apart

LEMMA UnlinkedPlain ==
  ASSUME NEW t, Sound(t), NEW b \in Builders,
         t.parent[b] \in Plain \cup Messages, b \notin Oneofs \cup Fields
  PROVE  Apart(t, Unlinked(t, b), b)
<1> DEFINE p == t.parent[b]
           v == WithoutSymbol(t, p, t.name[b])
           u == Detached(v, p, b)
<1>1. t \in Trees /\ p \in Parents /\ p \in Builders /\ p \notin Oneofs \cup Fields \cup {NoBuilder} /\ t.name[b] \in Names
  BY TreeTypes, KindFacts DEF Sound
<1>2. Unlinked(t, b) = u
  BY <1>1 DEF Unlinked
<1>3. /\ v \in Trees
      /\ v.name = t.name /\ v.parent = t.parent /\ v.kids = t.kids
      /\ v.number = t.number /\ v.tags = t.tags /\ v.group = t.group
      /\ \A q \in Parents, n \in Names :
           v.symbols[q][n] = IF q = p /\ n = t.name[b] THEN NoBuilder ELSE t.symbols[q][n]
  BY <1>1, WithoutSymbolFields
<1> HIDE DEF v
<1>4. Ordered(v) /\ v.parent[b] = p
  BY <1>3, SameOrder DEF Sound
<1>5. /\ u \in Trees
      /\ u.name = v.name /\ u.symbols = v.symbols /\ u.tags = v.tags
      /\ u.number = v.number /\ u.group = v.group
      /\ u.parent = [v.parent EXCEPT ![b] = NoBuilder]
      /\ u.kids = [v.kids EXCEPT ![p] = RemoveFirst(v.kids[p], b)]
  <2>1. v \in Trees /\ p \in Parents /\ Ordered(v) /\ v.parent[b] = p
    BY <1>1, <1>3, <1>4
  <2> HIDE DEF p
  <2> QED
    BY <2>1, DetachedFields
<1> HIDE DEF u
<1>6. Cleared(t, u, b)
  <2>1. \A q \in Parents : Leaving(t, b, q) = IF q = p THEN {b} ELSE {}
    BY LeavingPlain
  <2>2. \A m \in Messages : Leaving(t, b, m) \cap Fields = {}
    BY <2>1, KindFacts
  <2> HIDE DEF p
  <2> QED
    BY <1>3, <1>5, <2>1, <2>2 DEF Cleared
<1> QED
  BY <1>1, <1>2, <1>3, <1>5, <1>6 DEF Apart

LEMMA UnlinkedField ==
  ASSUME NEW t, Sound(t), NEW b \in Fields, t.parent[b] \in Messages
  PROVE  Apart(t, Unlinked(t, b), b)
<1> DEFINE p == t.parent[b]
           v == ForgottenField(t, p, b)
           u == Detached(v, p, b)
<1>1. /\ t \in Trees /\ p \in Parents /\ p \in Builders /\ p \notin Oneofs \cup Fields \cup {NoBuilder}
      /\ t.name[b] \in Names /\ b \notin Oneofs /\ b \in Builders /\ t.group[b] \in Messages \cup {NoBuilder}
  BY TreeTypes, KindFacts DEF Sound
<1>2. Unlinked(t, b) = u
  BY <1>1 DEF Unlinked
<1>3. /\ v \in Trees
      /\ v.name = t.name /\ v.parent = t.parent /\ v.kids = t.kids
      /\ v.number = t.number /\ v.group = t.group
      /\ \A q \in Parents, n \in Names : v.symbols[q][n] =
           IF q = p /\ (n = t.name[b] \/ (t.group[b] # NoBuilder /\ n = t.name[t.group[b]]))
           THEN NoBuilder ELSE t.symbols[q][n]
      /\ \A q \in Messages, i \in 1..MaxTag : v.tags[q][i] =
           IF q = p /\ i = t.number[b] THEN NoBuilder ELSE t.tags[q][i]
  BY <1>1, ForgottenFieldFields
<1> HIDE DEF v
<1>4. Ordered(v) /\ v.parent[b] = p
  BY <1>3, SameOrder DEF Sound
<1>5. /\ u \in Trees
      /\ u.name = v.name /\ u.symbols = v.symbols /\ u.tags = v.tags
      /\ u.number = v.number /\ u.group = v.group
      /\ u.parent = [v.parent EXCEPT ![b] = NoBuilder]
      /\ u.kids = [v.kids EXCEPT ![p] = RemoveFirst(v.kids[p], b)]
  <2>1. v \in Trees /\ p \in Parents /\ b \in Builders /\ Ordered(v) /\ v.parent[b] = p
    BY <1>1, <1>3, <1>4
  <2> HIDE DEF p
  <2> QED
    BY <2>1, DetachedFields
<1> HIDE DEF u
<1>6. Cleared(t, u, b)
  <2>1. \A q \in Parents : Leaving(t, b, q) = IF q = p THEN {b} \cup ({t.group[b]} \ {NoBuilder}) ELSE {}
    BY LeavingField
  <2>2. \A m \in Messages : Leaving(t, b, m) \cap Fields = IF m = p THEN {b} ELSE {}
    BY <1>1, <2>1, KindFacts
  <2> HIDE DEF p
  <2>3. ASSUME NEW q \in Parents, NEW n \in Names
        PROVE  u.symbols[q][n] = IF \E c \in Leaving(t, b, q) : t.name[c] = n THEN NoBuilder
                                 ELSE t.symbols[q][n]
    BY <1>3, <1>5, <2>1
  <2>4. ASSUME NEW q \in Messages, NEW i \in 1..MaxTag
        PROVE  u.tags[q][i] = IF \E f \in Leaving(t, b, q) \cap Fields : t.number[f] = i THEN NoBuilder
                              ELSE t.tags[q][i]
    BY <1>3, <1>5, <2>2
  <2> QED
    BY <2>3, <2>4 DEF Cleared
<1> QED
  BY <1>1, <1>2, <1>3, <1>5, <1>6 DEF Apart

LEMMA UnlinkedGroup ==
  ASSUME NEW t, Sound(t), NEW b \in Builders,
         t.parent[b] \in Fields, t.group[t.parent[b]] = b
  PROVE  Apart(t, Unlinked(t, b), b)
<1> DEFINE f == t.parent[b]
           G == [t.group EXCEPT ![f] = NoBuilder]
           v == NewGroup(t, G)
           m == t.parent[f]
<1>1. /\ t \in Trees /\ f \in Fields /\ f \notin Parents /\ f # NoBuilder /\ t.name[b] \in Names
      /\ m \in Messages \cup {NoBuilder} /\ t.group \in [Fields -> Messages \cup {NoBuilder}]
      /\ b # NoBuilder /\ t.group[f] = b
  <2>1. t \in Trees /\ f \in Fields /\ f \in Builders /\ f \notin Parents /\ f # NoBuilder /\ b # NoBuilder
    BY KindFacts DEF Sound
  <2>2. m \in Messages \cup Oneofs \cup {NoBuilder} /\ m \notin Oneofs
    BY <2>1, AboveFacts
  <2> QED
    BY <2>1, <2>2, TreeTypes
<1>2. G \in [Fields -> Messages \cup {NoBuilder}]
  BY <1>1
<1> DEFINE u == IF m \in Messages THEN WithoutSymbol(v, m, t.name[b]) ELSE v
<1>3. Unlinked(t, b) = u
  <2>1. Unlinked(t, b) = GroupRemoved(t, f)
    <3>1. f # NoBuilder /\ f \in Fields /\ t.group[f] = b /\ f \notin Oneofs /\ f \notin Messages
      BY <1>1 DEF Parents
    <3> QED
      BY <3>1, Zenon DEF Unlinked
  <2>2. GroupRemoved(t, f) = u
    BY <1>1 DEF GroupRemoved, NewGroup
  <2> QED
    BY <2>1, <2>2
<1>4. /\ v \in Trees /\ v.group = G
      /\ v.name = t.name /\ v.parent = t.parent /\ v.kids = t.kids
      /\ v.symbols = t.symbols /\ v.number = t.number /\ v.tags = t.tags
  <2> HIDE DEF G
  <2> QED
    BY <1>1, <1>2, NewGroupFields
<1> HIDE DEF v
<1>5. /\ u \in Trees
      /\ u.name = v.name /\ u.parent = v.parent /\ u.kids = v.kids
      /\ u.number = v.number /\ u.tags = v.tags /\ u.group = v.group
      /\ \A q \in Parents, n \in Names :
           u.symbols[q][n] = IF q = m /\ n = t.name[b] THEN NoBuilder ELSE v.symbols[q][n]
  <2>1. CASE m \in Messages
    <3>1. v \in Trees /\ m \in Parents /\ t.name[b] \in Names
      BY <1>1, <1>4, <2>1, KindFacts
    <3>2. u = WithoutSymbol(v, m, t.name[b])
      BY <2>1
    <3> HIDE DEF u, m
    <3> QED
      BY <3>1, <3>2, WithoutSymbolFields
  <2>2. CASE m \notin Messages
    BY <1>1, <1>4, <2>2, KindFacts
  <2> QED
    BY <2>1, <2>2
<1> HIDE DEF u
<1>6. Cleared(t, u, b)
  <2>1. \A q \in Parents : Leaving(t, b, q) = IF q = m THEN {b} ELSE {}
    BY LeavingGroup
  <2>2. \A q \in Messages : Leaving(t, b, q) \cap Fields = {}
    <3>1. b \notin Fields
      BY <1>1, AboveFacts, KindFacts
    <3> QED
      BY <2>1, <3>1, KindFacts
  <2> HIDE DEF m
  <2> QED
    BY <1>4, <1>5, <2>1, <2>2 DEF Cleared
<1> QED
  BY <1>1, <1>3, <1>4, <1>5, <1>6 DEF Apart

LEMMA UnlinkedChoice ==
  ASSUME NEW t, Sound(t), NEW b \in Builders, t.parent[b] \in Oneofs
  PROVE  Apart(t, Unlinked(t, b), b)
<1> DEFINE p == t.parent[b]
           m == t.parent[p]
           v == WithoutSymbol(t, p, t.name[b])
           w == IF m = NoBuilder THEN v ELSE ForgottenField(v, m, b)
           u == Detached(w, p, b)
<1>1. /\ t \in Trees /\ p \in Parents /\ p \in Builders /\ p \notin Messages \cup Plain \cup Fields \cup {NoBuilder}
      /\ t.name[b] \in Names /\ b \in Fields /\ m \in Messages \cup {NoBuilder}
      /\ t.group[b] = NoBuilder /\ p \in Oneofs
  <2>1. t \in Trees /\ p \in Parents /\ p \in Builders /\ p \notin Messages \cup Plain \cup Fields \cup {NoBuilder}
    BY KindFacts DEF Sound
  <2>2. b \in Fields
    BY DEF Sound, Kinds
  <2> QED
    BY <2>1, <2>2, AboveFacts, TreeTypes
<1>2. Unlinked(t, b) = u
  BY <1>1 DEF Unlinked, ChoiceRemoved
<1>3. /\ v \in Trees
      /\ v.name = t.name /\ v.parent = t.parent /\ v.kids = t.kids
      /\ v.number = t.number /\ v.tags = t.tags /\ v.group = t.group
      /\ \A q \in Parents, n \in Names :
           v.symbols[q][n] = IF q = p /\ n = t.name[b] THEN NoBuilder ELSE t.symbols[q][n]
  BY <1>1, WithoutSymbolFields
<1> HIDE DEF v
<1>4. /\ w \in Trees
      /\ w.name = t.name /\ w.parent = t.parent /\ w.kids = t.kids
      /\ w.number = t.number /\ w.group = t.group
      /\ \A q \in Parents, n \in Names :
           w.symbols[q][n] = IF q \in {p, m} /\ n = t.name[b] THEN NoBuilder ELSE t.symbols[q][n]
      /\ \A q \in Messages, i \in 1..MaxTag :
           w.tags[q][i] = IF q = m /\ i = t.number[b] THEN NoBuilder ELSE t.tags[q][i]
  <2>1. CASE m = NoBuilder
    BY <1>3, <2>1, KindFacts
  <2>2. CASE m # NoBuilder
    <3>1. v \in Trees /\ m \in Messages /\ b \in Fields /\ v.group[b] = NoBuilder
      BY <1>1, <1>3, <2>2
    <3>2. w = ForgottenField(v, m, b)
      BY <2>2
    <3> HIDE DEF w, m
    <3>3. /\ w \in Trees
          /\ w.name = v.name /\ w.parent = v.parent /\ w.kids = v.kids
          /\ w.number = v.number /\ w.group = v.group
          /\ \A q \in Parents, n \in Names : w.symbols[q][n] =
               IF q = m /\ (n = v.name[b] \/ (v.group[b] # NoBuilder /\ n = v.name[v.group[b]]))
               THEN NoBuilder ELSE v.symbols[q][n]
          /\ \A q \in Messages, i \in 1..MaxTag : w.tags[q][i] =
               IF q = m /\ i = v.number[b] THEN NoBuilder ELSE v.tags[q][i]
      BY <3>1, <3>2, ForgottenFieldFields
    <3>4. ASSUME NEW q \in Parents, NEW n \in Names
          PROVE  w.symbols[q][n] = IF q \in {p, m} /\ n = t.name[b] THEN NoBuilder ELSE t.symbols[q][n]
      BY <1>3, <3>1, <3>3
    <3> QED
      BY <1>3, <3>3, <3>4
  <2> QED
    BY <2>1, <2>2
<1> HIDE DEF w
<1>5. /\ u \in Trees
      /\ u.name = w.name /\ u.symbols = w.symbols /\ u.tags = w.tags
      /\ u.number = w.number /\ u.group = w.group
      /\ u.parent = [w.parent EXCEPT ![b] = NoBuilder]
      /\ u.kids = [w.kids EXCEPT ![p] = RemoveFirst(w.kids[p], b)]
  <2>1. w \in Trees /\ p \in Parents /\ b \in Builders /\ Ordered(w) /\ w.parent[b] = p
    BY <1>1, <1>4, SameOrder DEF Sound
  <2> HIDE DEF p
  <2> QED
    BY <2>1, DetachedFields
<1> HIDE DEF u
<1>6. Cleared(t, u, b)
  <2>1. \A q \in Parents : Leaving(t, b, q) = IF q \in {p, m} THEN {b} ELSE {}
    BY LeavingChoice
  <2>2. \A q \in Messages : Leaving(t, b, q) \cap Fields = IF q = m THEN {b} ELSE {}
    BY <1>1, <2>1, KindFacts
  <2> HIDE DEF p, m
  <2>3. ASSUME NEW q \in Parents, NEW n \in Names
        PROVE  u.symbols[q][n] = IF \E c \in Leaving(t, b, q) : t.name[c] = n THEN NoBuilder
                                 ELSE t.symbols[q][n]
    BY <1>4, <1>5, <2>1
  <2>4. ASSUME NEW q \in Messages, NEW i \in 1..MaxTag
        PROVE  u.tags[q][i] = IF \E f \in Leaving(t, b, q) \cap Fields : t.number[f] = i THEN NoBuilder
                              ELSE t.tags[q][i]
    BY <1>4, <1>5, <2>2
  <2> QED
    BY <2>3, <2>4 DEF Cleared
<1> QED
  BY <1>1, <1>2, <1>4, <1>5, <1>6 DEF Apart

\* The elements of a list are the builders below its owner.
LEMMA KidsRange ==
  ASSUME NEW t, t \in Trees, Ordered(t), NEW p \in Parents
  PROVE  Range(t.kids[p]) = {c \in Builders : t.parent[c] = p}
<1>1. t.kids[p] \in Seq(Builders)
  BY TreeTypes
<1>2. DOMAIN t.kids[p] = 1..Len(t.kids[p]) /\ \A i \in 1..Len(t.kids[p]) : t.kids[p][i] \in Builders
  BY <1>1
<1> QED
  BY <1>2 DEF Range, Ordered

LEMMA UnlinkedOneof ==
  ASSUME NEW t, Sound(t), NEW b \in Oneofs, t.parent[b] \in Messages
  PROVE  Apart(t, Unlinked(t, b), b)
<1> DEFINE p == t.parent[b]
           choices == {c \in Builders : t.parent[c] = b}
           v == Forgotten(t, p, NamesOf(t, choices \cup {b}), NumbersOf(t, choices))
           u == Detached(v, p, b)
<1>1. /\ t \in Trees /\ p \in Parents /\ p \in Builders /\ p \in Messages
      /\ p \notin Plain \cup Oneofs \cup Fields \cup {NoBuilder}
      /\ b \in Builders /\ b \in Parents /\ b \notin Fields
  BY KindFacts DEF Sound
<1>2. Unlinked(t, b) = u
  <2>1. Range(t.kids[b]) = choices
    BY <1>1, KidsRange DEF Sound
  <2> QED
    BY <1>1, <2>1 DEF Unlinked, OneofRemovedFromMessage
<1> HIDE DEF choices
<1>3. /\ v \in Trees
      /\ v.name = t.name /\ v.parent = t.parent /\ v.kids = t.kids
      /\ v.number = t.number /\ v.group = t.group
      /\ \A q \in Parents, n \in Names :
           v.symbols[q][n] = IF q = p /\ n \in NamesOf(t, choices \cup {b}) THEN NoBuilder ELSE t.symbols[q][n]
      /\ \A q \in Messages, i \in 1..MaxTag :
           v.tags[q][i] = IF q = p /\ i \in NumbersOf(t, choices) THEN NoBuilder ELSE t.tags[q][i]
  <2>1. t \in Trees /\ p \in Messages
    BY <1>1
  <2> HIDE DEF p
  <2> QED
    BY <2>1, ForgottenFields
<1> HIDE DEF v
<1>4. /\ u \in Trees
      /\ u.name = v.name /\ u.symbols = v.symbols /\ u.tags = v.tags
      /\ u.number = v.number /\ u.group = v.group
      /\ u.parent = [v.parent EXCEPT ![b] = NoBuilder]
      /\ u.kids = [v.kids EXCEPT ![p] = RemoveFirst(v.kids[p], b)]
  <2>1. v \in Trees /\ p \in Parents /\ b \in Builders /\ Ordered(v) /\ v.parent[b] = p
    BY <1>1, <1>3, SameOrder DEF Sound
  <2> HIDE DEF p
  <2> QED
    BY <2>1, DetachedFields
<1> HIDE DEF u
<1>5. Cleared(t, u, b)
  <2>1. \A q \in Parents : Leaving(t, b, q) = IF q = p THEN {b} \cup choices ELSE {}
    BY LeavingOneof DEF choices
  <2>2. choices \subseteq Fields
    BY <1>1 DEF choices, Sound, Kinds
  <2>3. \A q \in Messages : Leaving(t, b, q) \cap Fields = IF q = p THEN choices ELSE {}
    BY <1>1, <2>1, <2>2, KindFacts
  <2> HIDE DEF p
  <2>4. ASSUME NEW q \in Parents, NEW n \in Names
        PROVE  u.symbols[q][n] = IF \E c \in Leaving(t, b, q) : t.name[c] = n THEN NoBuilder
                                 ELSE t.symbols[q][n]
    BY <1>3, <1>4, <2>1 DEF NamesOf
  <2>5. ASSUME NEW q \in Messages, NEW i \in 1..MaxTag
        PROVE  u.tags[q][i] = IF \E f \in Leaving(t, b, q) \cap Fields : t.number[f] = i THEN NoBuilder
                              ELSE t.tags[q][i]
    BY <1>3, <1>4, <2>3 DEF NumbersOf
  <2> QED
    BY <2>4, <2>5 DEF Cleared
<1> QED
  BY <1>1, <1>2, <1>3, <1>4, <1>5 DEF Apart

\* What Unlink does, whatever the parent is.
LEMMA UnlinkedApart ==
  ASSUME NEW t, Sound(t), NEW b \in Builders
  PROVE  Apart(t, Unlinked(t, b), b)
<1> DEFINE p == t.parent[b]
<1>1. CASE p = NoBuilder \/ (p \in Fields /\ t.group[p] # b)
  BY <1>1, UnlinkedFree
<1>2. CASE p \in Fields /\ t.group[p] = b
  BY <1>2, UnlinkedGroup
<1>3. CASE p \in Oneofs
  BY <1>3, UnlinkedChoice
<1>4. CASE p \in Plain \cup Messages
  <2>1. CASE b \in Oneofs
    <3>1. p \in Messages
      BY <1>4, <2>1, AboveFacts, KindFacts
    <3> QED
      BY <2>1, <3>1, UnlinkedOneof
  <2>2. CASE b \in Fields
    <3>1. p \in Messages
      BY <1>4, <2>2, AboveFacts, KindFacts
    <3> QED
      BY <2>2, <3>1, UnlinkedField
  <2>3. CASE b \notin Oneofs \cup Fields
    BY <1>4, <2>3, UnlinkedPlain
  <2> QED
    BY <2>1, <2>2, <2>3
<1> QED
  BY <1>1, <1>2, <1>3, <1>4, AboveFacts, KindFacts

\* An element that is a member of nothing.
Loose(t, b) == t.parent[b] \notin Parents /\ ~Through(t, b)

\* A list from which b was taken.
LEMMA ShorterList ==
  ASSUME NEW t, t \in Trees, Ordered(t), NEW b \in Builders, NEW p \in Parents, t.parent[b] = p
  PROVE  LET r == RemoveFirst(t.kids[p], b) IN
         /\ \A i \in 1..Len(r) : r[i] # b /\ t.parent[r[i]] = p
         /\ \A i, j \in 1..Len(r) : r[i] = r[j] => i = j
         /\ \A c \in Builders : c # b /\ t.parent[c] = p => \E i \in 1..Len(r) : r[i] = c
         /\ \A i \in 1..Len(r) : r[i] \in Builders
<1> DEFINE s == t.kids[p]
           r == RemoveFirst(s, b)
<1>1. PICK k \in 1..Len(s) : s[k] = b
  BY DEF Ordered
<1>2. /\ s \in Seq(Builders)
      /\ \A i, j \in 1..Len(s) : s[i] = s[j] => i = j
      /\ \A i \in 1..Len(s) : t.parent[s[i]] = p
      /\ \A c \in Builders : t.parent[c] = p => \E i \in 1..Len(s) : s[i] = c
  BY TreeTypes DEF Ordered
<1> HIDE DEF s
<1>3. /\ r \in Seq(Builders) /\ Len(r) = Len(s) - 1
      /\ \A i \in 1..Len(r) : r[i] = IF i < k THEN s[i] ELSE s[i + 1]
  BY <1>1, <1>2, RemoveFirstFacts
<1> HIDE DEF r
<1>4. Len(s) \in Nat /\ k \in 1..Len(s) /\ Len(r) \in Nat
  BY <1>1, <1>2, <1>3
<1>5. ASSUME NEW i \in 1..Len(r)
      PROVE  r[i] # b /\ t.parent[r[i]] = p /\ r[i] \in Builders
  <2>1. i \in 1..Len(s) /\ i + 1 \in 1..Len(s)
    BY <1>3, <1>4
  <2>2. CASE i < k
    BY <1>1, <1>2, <1>3, <1>4, <2>1, <2>2
  <2>3. CASE ~(i < k)
    <3>1. r[i] = s[i + 1] /\ i + 1 # k
      BY <1>3, <1>4, <2>3
    <3> QED
      BY <1>1, <1>2, <2>1, <3>1
  <2> QED
    BY <2>2, <2>3
<1>6. ASSUME NEW i \in 1..Len(r), NEW j \in 1..Len(r), r[i] = r[j]
      PROVE  i = j
  <2> DEFINE I == IF i < k THEN i ELSE i + 1
             J == IF j < k THEN j ELSE j + 1
  <2>1. I \in 1..Len(s) /\ J \in 1..Len(s) /\ (I = J => i = j)
    BY <1>3, <1>4
  <2>2. r[i] = s[I] /\ r[j] = s[J]
    BY <1>3, <1>4
  <2> QED
    BY <1>2, <1>6, <2>1, <2>2
<1>7. ASSUME NEW c \in Builders, c # b, t.parent[c] = p
      PROVE  \E i \in 1..Len(r) : r[i] = c
  <2>1. PICK j \in 1..Len(s) : s[j] = c
    BY <1>2, <1>7
  <2>2. j # k
    BY <1>1, <1>7, <2>1
  <2>3. CASE j < k
    <3>1. j \in 1..Len(r) /\ r[j] = s[j]
      BY <1>3, <1>4, <2>3
    <3> QED
      BY <2>1, <3>1
  <2>4. CASE j > k
    <3>1. j - 1 \in 1..Len(r) /\ r[j - 1] = s[j]
      BY <1>3, <1>4, <2>4
    <3> QED
      BY <2>1, <3>1
  <2> QED
    BY <1>4, <2>2, <2>3, <2>4
<1> QED
  BY <1>5, <1>6, <1>7 DEF r, s

LEMMA ApartOrdered ==
  ASSUME NEW t, Sound(t), NEW b \in Builders, NEW u, Apart(t, u, b)
  PROVE  Ordered(u)
<1> DEFINE p == t.parent[b]
<1>1. t \in Trees /\ Ordered(t) /\ p \in Parents \cup Fields \cup {NoBuilder}
  BY AboveFacts DEF Sound
<1>2. t.parent \in [Builders -> Builders \cup {NoBuilder}] /\ t.kids \in [Parents -> Seq(Builders)]
  BY <1>1, TreeTypes
<1>3. CASE p \notin Parents
  <2>1. u.parent = t.parent /\ u.kids = t.kids
    <3>1. CASE p \in Fields
      BY <3>1 DEF Apart
    <3>2. CASE p = NoBuilder
      BY <1>2, <3>2, KindFacts DEF Apart
    <3> QED
      BY <1>1, <1>3, <3>1, <3>2
  <2> QED
    BY <1>1, <2>1, SameOrder
<1>4. CASE p \in Parents
  <2>1. /\ u.parent = [t.parent EXCEPT ![b] = NoBuilder]
        /\ u.kids = [t.kids EXCEPT ![p] = RemoveFirst(t.kids[p], b)]
    BY <1>4, KindFacts DEF Apart
  <2> DEFINE r == RemoveFirst(t.kids[p], b)
  <2>2. /\ \A i \in 1..Len(r) : r[i] # b /\ t.parent[r[i]] = p
        /\ \A i, j \in 1..Len(r) : r[i] = r[j] => i = j
        /\ \A c \in Builders : c # b /\ t.parent[c] = p => \E i \in 1..Len(r) : r[i] = c
        /\ \A i \in 1..Len(r) : r[i] \in Builders
    BY <1>1, <1>4, ShorterList
  <2>3. ASSUME NEW q \in Parents
        PROVE  /\ \A i \in 1..Len(u.kids[q]) : u.parent[u.kids[q][i]] = q
               /\ \A i, j \in 1..Len(u.kids[q]) : u.kids[q][i] = u.kids[q][j] => i = j
               /\ \A c \in Builders : u.parent[c] = q => \E i \in 1..Len(u.kids[q]) : u.kids[q][i] = c
    <3>1. CASE q = p
      <4>1. u.kids[q] = r /\ \A c \in Builders : u.parent[c] = IF c = b THEN NoBuilder ELSE t.parent[c]
        BY <1>2, <2>1, <3>1
      <4>2. q # NoBuilder
        BY KindFacts
      <4> HIDE DEF r, p
      <4> QED
        BY <2>2, <3>1, <4>1, <4>2
    <3>2. CASE q # p
      <4>1. u.kids[q] = t.kids[q] /\ \A c \in Builders : u.parent[c] = IF c = b THEN NoBuilder ELSE t.parent[c]
        BY <1>2, <2>1, <3>2
      <4>2. q # NoBuilder /\ t.kids[q] \in Seq(Builders)
        BY <1>2, KindFacts
      <4>3. \A i \in 1..Len(t.kids[q]) : t.kids[q][i] \in Builders /\ t.parent[t.kids[q][i]] = q
        BY <1>1, <4>2 DEF Ordered
      <4> QED
        BY <1>1, <3>2, <4>1, <4>2, <4>3 DEF Ordered
    <3> QED
      BY <3>1, <3>2
  <2> QED
    BY <2>3 DEF Ordered
<1> QED
  BY <1>3, <1>4

LEMMA ApartFields ==
  ASSUME NEW t, Sound(t), NEW b \in Builders, NEW u, Apart(t, u, b)
  PROVE  /\ u \in Trees /\ u.name = t.name /\ u.number = t.number
         /\ \A c \in Builders : u.parent[c] =
              IF c = b /\ t.parent[b] \notin Fields THEN NoBuilder ELSE t.parent[c]
         /\ \A f \in Fields : u.group[f] =
              IF f = t.parent[b] /\ t.group[f] = b THEN NoBuilder ELSE t.group[f]
<1>1. t \in Trees
  BY DEF Sound
<1>2. t.parent \in [Builders -> Builders \cup {NoBuilder}] /\ t.group \in [Fields -> Messages \cup {NoBuilder}]
  BY <1>1, TreeTypes
<1>3. CASE t.parent[b] \in Fields
  BY <1>2, <1>3 DEF Apart
<1>4. CASE t.parent[b] \notin Fields
  BY <1>2, <1>4 DEF Apart
<1> QED
  BY <1>3, <1>4

LEMMA ApartSound ==
  ASSUME NEW t, Sound(t), NEW b \in Builders, NEW u, Apart(t, u, b)
  PROVE  /\ Sound(u) /\ Loose(u, b)
         /\ \A q \in Parents, c \in Builders : In(u, q, c) <=> In(t, q, c) /\ c \notin Leaving(t, b, q)
<1>1. /\ u \in Trees /\ u.name = t.name /\ u.number = t.number
      /\ \A c \in Builders : u.parent[c] =
           IF c = b /\ t.parent[b] \notin Fields THEN NoBuilder ELSE t.parent[c]
      /\ \A f \in Fields : u.group[f] =
           IF f = t.parent[b] /\ t.group[f] = b THEN NoBuilder ELSE t.group[f]
  BY ApartFields
<1>2. /\ t \in Trees /\ Kinds(t) /\ Grouped(t)
      /\ \A f \in Fields : t.group[f] \in Messages \cup {NoBuilder}
      /\ \A c \in Builders : t.parent[c] \in Parents \cup Fields \cup {NoBuilder}
  BY AboveFacts DEF Sound
<1>3. Kinds(u)
  BY <1>1, <1>2, KindFacts DEF Kinds
<1>4. Grouped(u)
  <2>1. ASSUME NEW f \in Fields, u.group[f] # NoBuilder
        PROVE  /\ u.parent[u.group[f]] = f /\ u.parent[f] \notin Oneofs
               /\ u.name[u.group[f]] \in Capital /\ u.name[f] = GroupName[u.name[u.group[f]]]
    <3>1. u.group[f] = t.group[f] /\ t.group[f] # NoBuilder /\ t.group[f] \in Builders /\ f \in Builders
      BY <1>1, <1>2, <2>1, KindFacts
    <3>2. /\ t.parent[t.group[f]] = f /\ t.parent[f] \notin Oneofs
          /\ t.name[t.group[f]] \in Capital /\ t.name[f] = GroupName[t.name[t.group[f]]]
      BY <1>2, <3>1 DEF Grouped
    <3>3. u.parent[f] \notin Oneofs
      BY <1>1, <3>1, <3>2, KindFacts
    <3>4. u.parent[t.group[f]] = f
      BY <1>1, <3>1, <3>2
    <3> QED
      BY <1>1, <3>1, <3>2, <3>3, <3>4
  <2>2. ASSUME NEW c \in Builders, u.parent[c] \in Fields
        PROVE  u.group[u.parent[c]] \in {c, NoBuilder}
    <3>1. u.parent[c] = t.parent[c] /\ t.parent[c] \in Fields
      BY <1>1, <2>2, KindFacts
    <3>2. t.group[t.parent[c]] \in {c, NoBuilder}
      BY <1>2, <3>1 DEF Grouped
    <3> QED
      BY <1>1, <3>1, <3>2
  <2> QED
    BY <2>1, <2>2 DEF Grouped
<1>5. Sound(u)
  BY <1>1, <1>3, <1>4, ApartOrdered DEF Sound
<1>6. Loose(u, b)
  <2>1. CASE t.parent[b] \in Fields
    BY <1>1, <2>1, KindFacts DEF Loose, Through
  <2>2. CASE t.parent[b] \notin Fields
    BY <1>1, <2>2, KindFacts DEF Loose, Through
  <2> QED
    BY <2>1, <2>2
<1>7. ASSUME NEW q \in Parents, NEW c \in Builders
      PROVE  In(u, q, c) <=> In(t, q, c) /\ c \notin Leaving(t, b, q)
  <2>1. CASE c = b
    <3>1. ~In(u, q, b)
      BY <1>6 DEF Loose, In
    <3> QED
      BY <2>1, <3>1 DEF Leaving
  <2>2. CASE c # b /\ t.parent[c] = b
    <3>1. u.parent[c] = b
      BY <1>1, <2>2
    <3>2. CASE q = b
      <4>1. In(t, q, c) /\ c \notin Leaving(t, b, q) /\ In(u, q, c)
        BY <2>2, <3>1, <3>2 DEF In, Leaving
      <4> QED
        BY <4>1
    <3>3. CASE q # b
      <4>1. c \in Leaving(t, b, q) <=> In(t, q, c)
        BY <2>2, <3>3 DEF Leaving
      <4>2. ~In(u, q, c)
        <5>1. SUFFICES ASSUME Through(u, c), u.parent[b] = q
                       PROVE  FALSE
          BY <3>1, <3>3 DEF In
        <5>2. u.parent[b] \notin Parents
          BY <1>6 DEF Loose
        <5> QED
          BY <5>1, <5>2
      <4> QED
        BY <4>1, <4>2
    <3> QED
      BY <3>2, <3>3
  <2>3. CASE c # b /\ t.parent[c] # b
    <3>1. u.parent[c] = t.parent[c] /\ c \notin Leaving(t, b, q)
      BY <1>1, <2>3 DEF Leaving
    <3>2. Through(u, c) <=> Through(t, c)
      <4>1. t.parent[c] \in Fields => u.group[t.parent[c]] = c <=> t.group[t.parent[c]] = c
        BY <1>1, <2>3, KindFacts
      <4> QED
        BY <3>1, <4>1 DEF Through
    <3>3. Through(t, c) => u.parent[t.parent[c]] = t.parent[t.parent[c]]
      BY <1>1, <2>3, KindFacts DEF Through
    <3> QED
      BY <3>1, <3>2, <3>3 DEF In
  <2> QED
    BY <2>1, <2>2, <2>3
<1> QED
  BY <1>5, <1>6, <1>7

LEMMA UnlinkedGood ==
  ASSUME NEW t, Good(t), NEW b \in Builders
  PROVE  Good(Unlinked(t, b))
<1> DEFINE u == Unlinked(t, b)
<1>1. Sound(t) /\ SymbolsMatch(t) /\ TagsMatch(t)
  BY DEF Good
<1>2. Apart(t, u, b)
  BY <1>1, UnlinkedApart
<1> HIDE DEF u
<1>3. /\ Sound(u)
      /\ \A q \in Parents, c \in Builders : In(u, q, c) <=> In(t, q, c) /\ c \notin Leaving(t, b, q)
  BY <1>1, <1>2, ApartSound
<1>4. Cleared(t, u, b) /\ u.name = t.name /\ u.number = t.number
  BY <1>2 DEF Apart
<1>5. ASSUME NEW q \in Parents, NEW n \in Names, NEW c \in Builders
      PROVE  u.symbols[q][n] = c <=> In(u, q, c) /\ u.name[c] = n
  <2>1. t.symbols[q][n] = c <=> In(t, q, c) /\ t.name[c] = n
    BY <1>1 DEF SymbolsMatch
  <2>2. CASE \E d \in Leaving(t, b, q) : t.name[d] = n
    <3>1. PICK d \in Leaving(t, b, q) : t.name[d] = n
      BY <2>2
    <3>2. t.symbols[q][n] = d /\ d \in Builders
      BY <1>1, <3>1 DEF SymbolsMatch, Leaving
    <3>3. u.symbols[q][n] = NoBuilder
      BY <1>4, <2>2 DEF Cleared
    <3> QED
      BY <1>3, <1>4, <2>1, <3>1, <3>2, <3>3, KindFacts
  <2>3. CASE ~\E d \in Leaving(t, b, q) : t.name[d] = n
    <3>1. u.symbols[q][n] = t.symbols[q][n]
      BY <1>4, <2>3 DEF Cleared
    <3> QED
      BY <1>3, <1>4, <2>1, <2>3, <3>1
  <2> QED
    BY <2>2, <2>3
<1>6. ASSUME NEW m \in Messages, NEW i \in 1..MaxTag, NEW f \in Fields
      PROVE  u.tags[m][i] = f <=> In(u, m, f) /\ u.number[f] = i
  <2>0. m \in Parents /\ f \in Builders
    BY KindFacts
  <2>1. t.tags[m][i] = f <=> In(t, m, f) /\ t.number[f] = i
    BY <1>1 DEF TagsMatch
  <2>2. CASE \E d \in Leaving(t, b, m) \cap Fields : t.number[d] = i
    <3>1. PICK d \in Leaving(t, b, m) \cap Fields : t.number[d] = i
      BY <2>2
    <3>2. t.tags[m][i] = d
      BY <1>1, <3>1 DEF TagsMatch, Leaving
    <3>3. u.tags[m][i] = NoBuilder
      BY <1>4, <2>2 DEF Cleared
    <3> QED
      BY <1>3, <1>4, <2>0, <2>1, <3>1, <3>2, <3>3, KindFacts
  <2>3. CASE ~\E d \in Leaving(t, b, m) \cap Fields : t.number[d] = i
    <3>1. u.tags[m][i] = t.tags[m][i]
      BY <1>4, <2>3 DEF Cleared
    <3> QED
      BY <1>3, <1>4, <2>0, <2>1, <2>3, <3>1
  <2> QED
    BY <2>2, <2>3
<1> QED
  BY <1>3, <1>5, <1>6 DEF Good, SymbolsMatch, TagsMatch, u

-----------------------------------------------------------------------------
(* Adding an element. *)

\* An element that may be below p.
Fits(t, p, b) ==
  /\ p \in Parents /\ b \in Builders
  /\ p \in Oneofs => b \in Fields /\ t.group[b] = NoBuilder
  /\ p \in Plain => b \notin Oneofs \cup Fields

\* The members that q gets when b is put below p: b itself, and what is below b.
Joins(t, p, b, q) ==
  {c \in Builders :
    \/ c = b /\ (q = p \/ (p \in Oneofs /\ t.parent[p] = q))
    \/ /\ q = p /\ p \in Messages /\ t.parent[c] = b
       /\ b \in Oneofs \/ (b \in Fields /\ t.group[b] = c)}

\* The names and numbers of these are not in use.
Vacant(t, p, b) ==
  \A q \in Parents : \A c \in Joins(t, p, b, q) :
    /\ t.symbols[q][t.name[c]] = NoBuilder
    /\ q \in Messages /\ c \in Fields => TagFree(t, q, t.number[c])

\* v is t with these in its tables.
Entered(t, v, p, b) ==
  /\ v \in Trees /\ v.name = t.name /\ v.parent = t.parent /\ v.kids = t.kids
  /\ v.number = t.number /\ v.group = t.group
  /\ \A q \in Parents, n \in Names :
       /\ \A c \in Joins(t, p, b, q) : t.name[c] = n => v.symbols[q][n] = c
       /\ (\A c \in Joins(t, p, b, q) : t.name[c] # n) => v.symbols[q][n] = t.symbols[q][n]
  /\ \A m \in Messages, i \in 1..MaxTag :
       /\ \A f \in Joins(t, p, b, m) \cap Fields : t.number[f] = i => v.tags[m][i] = f
       /\ (\A f \in Joins(t, p, b, m) \cap Fields : t.number[f] # i) => v.tags[m][i] = t.tags[m][i]

LEMMA LinkedSound ==
  ASSUME NEW t, Sound(t), NEW p, NEW b, Fits(t, p, b), Loose(t, b),
         NEW u, u \in Trees, u.name = t.name, u.group = t.group,
         u.parent = [t.parent EXCEPT ![b] = p],
         u.kids = [t.kids EXCEPT ![p] = Append(t.kids[p], b)]
  PROVE  /\ Sound(u)
         /\ \A q \in Parents, c \in Builders : In(u, q, c) <=> In(t, q, c) \/ c \in Joins(t, p, b, q)
<1>1. /\ t \in Trees /\ Ordered(t) /\ Kinds(t) /\ Grouped(t) /\ p \in Parents /\ b \in Builders
      /\ p \in Builders /\ p # NoBuilder /\ p \notin Fields
      /\ t.parent[b] \notin Parents /\ t.kids[p] \in Seq(Builders)
  BY TreeTypes, KindFacts DEF Sound, Fits, Loose
<1>2. /\ \A c \in Builders : u.parent[c] = IF c = b THEN p ELSE t.parent[c]
      /\ \A q \in Parents : u.kids[q] = IF q = p THEN Append(t.kids[p], b) ELSE t.kids[q]
  <2>1. /\ t.parent \in [Builders -> Builders \cup {NoBuilder}]
        /\ t.kids \in [Parents -> Seq(Builders)]
    BY <1>1, TreeTypes
  <2> QED
    BY <1>1, <2>1
<1>3. Ordered(u)
  <2> DEFINE s == t.kids[p]
             r == Append(s, b)
  <2>1. Len(s) \in Nat /\ Len(r) = Len(s) + 1 /\ \A i \in 1..Len(r) : r[i] = IF i = Len(s) + 1 THEN b ELSE s[i]
    BY <1>1
  <2>2. \A i \in 1..Len(s) : s[i] \in Builders /\ t.parent[s[i]] = p
    BY <1>1 DEF Ordered
  <2>3. ASSUME NEW q \in Parents
        PROVE  /\ \A i \in 1..Len(u.kids[q]) : u.parent[u.kids[q][i]] = q
               /\ \A i, j \in 1..Len(u.kids[q]) : u.kids[q][i] = u.kids[q][j] => i = j
               /\ \A c \in Builders : u.parent[c] = q => \E i \in 1..Len(u.kids[q]) : u.kids[q][i] = c
    <3>1. CASE q = p
      <4>0. u.kids[q] = r
        BY <1>2, <3>1
      <4>1. /\ \A i, j \in 1..Len(s) : s[i] = s[j] => i = j
            /\ \A c \in Builders : t.parent[c] = p => \E i \in 1..Len(s) : s[i] = c
        BY <1>1 DEF Ordered
      <4>2. \A i \in 1..Len(s) : s[i] # b
        BY <1>1, <2>2
      <4> HIDE DEF r, s
      <4>3. \A i \in 1..Len(r) : u.parent[r[i]] = p
        BY <1>1, <1>2, <2>1, <2>2
      <4>4. \A i, j \in 1..Len(r) : r[i] = r[j] => i = j
        BY <2>1, <4>1, <4>2
      <4>5. ASSUME NEW c \in Builders, u.parent[c] = p
            PROVE  \E i \in 1..Len(r) : r[i] = c
        <5>1. CASE c = b
          BY <2>1, <5>1
        <5>2. CASE c # b
          <6>1. PICK i \in 1..Len(s) : s[i] = c
            BY <1>2, <4>1, <4>5, <5>2
          <6> QED
            BY <2>1, <6>1
        <5> QED
          BY <5>1, <5>2
      <4>6. \A i \in 1..Len(u.kids[q]) : u.parent[u.kids[q][i]] = q
        BY ONLY <3>1, <4>0, <4>3
      <4>7. \A i, j \in 1..Len(u.kids[q]) : u.kids[q][i] = u.kids[q][j] => i = j
        BY ONLY <4>0, <4>4
      <4>8. \A c \in Builders : u.parent[c] = q => \E i \in 1..Len(u.kids[q]) : u.kids[q][i] = c
        BY ONLY <3>1, <4>0, <4>5
      <4> QED
        BY ONLY <4>6, <4>7, <4>8
    <3>2. CASE q # p
      <4>1. u.kids[q] = t.kids[q] /\ t.kids[q] \in Seq(Builders)
        BY <1>1, <1>2, <3>2, TreeTypes
      <4>2. \A i \in 1..Len(t.kids[q]) : t.kids[q][i] \in Builders /\ t.parent[t.kids[q][i]] = q
        BY <1>1, <4>1 DEF Ordered
      <4>3. \A i \in 1..Len(t.kids[q]) : t.kids[q][i] # b
        BY <1>1, <4>2
      <4> QED
        BY <1>1, <1>2, <3>2, <4>1, <4>2, <4>3 DEF Ordered
    <3> QED
      BY <3>1, <3>2
  <2> QED
    BY <2>3 DEF Ordered
<1>4. Kinds(u)
  BY <1>1, <1>2, KindFacts DEF Kinds, Fits
<1>5. Grouped(u)
  <2>1. ASSUME NEW f \in Fields, u.group[f] # NoBuilder
        PROVE  /\ u.parent[u.group[f]] = f /\ u.parent[f] \notin Oneofs
               /\ u.name[u.group[f]] \in Capital /\ u.name[f] = GroupName[u.name[u.group[f]]]
    <3>1. /\ t.group[f] \in Builders /\ f \in Builders /\ t.parent[t.group[f]] = f /\ t.parent[f] \notin Oneofs
          /\ t.name[t.group[f]] \in Capital /\ t.name[f] = GroupName[t.name[t.group[f]]]
      BY <1>1, <2>1, TreeTypes, KindFacts DEF Grouped
    <3>2. t.group[f] # b
      BY <3>1 DEF Loose, Through
    <3>3. u.parent[f] \notin Oneofs
      BY <1>2, <2>1, <3>1 DEF Fits
    <3> QED
      BY <1>2, <3>1, <3>2, <3>3
  <2>2. ASSUME NEW c \in Builders, u.parent[c] \in Fields
        PROVE  u.group[u.parent[c]] \in {c, NoBuilder}
    <3>1. u.parent[c] = t.parent[c]
      BY <1>1, <1>2, <2>2
    <3> QED
      BY <1>1, <2>2, <3>1 DEF Grouped
  <2> QED
    BY <2>1, <2>2 DEF Grouped
<1>6. ASSUME NEW q \in Parents, NEW c \in Builders
      PROVE  In(u, q, c) <=> In(t, q, c) \/ c \in Joins(t, p, b, q)
  <2>1. CASE c = b
    <3>1. ~In(t, q, b)
      BY DEF Loose, In
    <3>2. In(u, q, b) <=> p = q \/ (q \in Messages /\ p \in Oneofs /\ u.parent[p] = q)
      BY <1>1, <1>2 DEF In, Through
    <3>3. p \in Oneofs => p # b /\ u.parent[p] = t.parent[p] /\ t.parent[p] \in Messages \cup {NoBuilder}
      BY <1>2, AboveFacts, KindFacts DEF Fits
    <3>4. t.parent[b] = b => b \notin Oneofs \cup Fields
      BY <1>1, AboveFacts, KindFacts
    <3> QED
      BY <2>1, <3>1, <3>2, <3>3, <3>4, KindFacts DEF Joins
  <2>2. CASE c # b /\ t.parent[c] = b
    <3>1. u.parent[c] = b /\ u.parent[b] = p
      BY <1>1, <1>2, <2>2
    <3>2. In(t, q, c) <=> b = q
      <4>1. t.parent[b] # q
        BY <1>1
      <4> QED
        BY <2>2, <4>1 DEF In
    <3>3. In(u, q, c) <=> b = q \/ (q \in Messages /\ Through(u, c) /\ p = q)
      BY <3>1 DEF In
    <3>4. Through(u, c) <=> b \in Oneofs \/ (b \in Fields /\ t.group[b] = c)
      BY <3>1 DEF Through
    <3> QED
      BY <2>2, <3>2, <3>3, <3>4 DEF Joins
  <2>3. CASE c # b /\ t.parent[c] # b
    <3>1. u.parent[c] = t.parent[c] /\ c \notin Joins(t, p, b, q)
      BY <1>2, <2>3 DEF Joins
    <3>2. Through(u, c) <=> Through(t, c)
      BY <3>1 DEF Through
    <3>3. Through(t, c) => u.parent[t.parent[c]] = t.parent[t.parent[c]]
      BY <1>2, <2>3, KindFacts DEF Through
    <3> QED
      BY <3>1, <3>2, <3>3 DEF In
  <2> QED
    BY <2>1, <2>2, <2>3
<1> QED
  BY <1>3, <1>4, <1>5, <1>6 DEF Sound

LEMMA LinkedGood ==
  ASSUME NEW t, Good(t), NEW p, NEW b, Fits(t, p, b), Loose(t, b), Vacant(t, p, b),
         NEW v, Entered(t, v, p, b)
  PROVE  Good(Linked(v, p, b))
<1> DEFINE u == Linked(v, p, b)
<1>1. Sound(t) /\ SymbolsMatch(t) /\ TagsMatch(t) /\ p \in Parents /\ b \in Builders /\ t \in Trees
  BY DEF Good, Fits, Sound
<1>2. /\ v \in Trees /\ v.name = t.name /\ v.parent = t.parent /\ v.kids = t.kids
      /\ v.number = t.number /\ v.group = t.group
  BY DEF Entered
<1>3. /\ u \in Trees
      /\ u.name = v.name /\ u.symbols = v.symbols /\ u.tags = v.tags
      /\ u.number = v.number /\ u.group = v.group
      /\ u.parent = [v.parent EXCEPT ![b] = p]
      /\ u.kids = [v.kids EXCEPT ![p] = Append(v.kids[p], b)]
  BY <1>1, <1>2, LinkedFields
<1> HIDE DEF u
<1>4. /\ Sound(u)
      /\ \A q \in Parents, c \in Builders : In(u, q, c) <=> In(t, q, c) \/ c \in Joins(t, p, b, q)
  BY <1>1, <1>2, <1>3, LinkedSound
<1>5. ASSUME NEW q \in Parents, NEW n \in Names, NEW c \in Builders
      PROVE  u.symbols[q][n] = c <=> In(u, q, c) /\ u.name[c] = n
  <2> DEFINE J == Joins(t, p, b, q)
  <2>0. /\ \A d \in J : d \in Builders /\ (t.name[d] = n => v.symbols[q][n] = d)
        /\ (\A d \in J : t.name[d] # n) => v.symbols[q][n] = t.symbols[q][n]
        /\ \A d \in J : t.symbols[q][t.name[d]] = NoBuilder
    <3>1. \A d \in J : d \in Builders
      BY DEF Joins
    <3> HIDE DEF J
    <3> QED
      BY <3>1 DEF Entered, Vacant, J
  <2>1. t.symbols[q][n] = c <=> In(t, q, c) /\ t.name[c] = n
    BY <1>1 DEF SymbolsMatch
  <2>2. (In(u, q, c) <=> In(t, q, c) \/ c \in J) /\ u.symbols = v.symbols /\ u.name = t.name /\ c # NoBuilder
    BY <1>2, <1>3, <1>4, KindFacts
  <2> HIDE DEF J
  <2>3. CASE \E d \in J : t.name[d] = n
    BY <2>0, <2>1, <2>2, <2>3
  <2>4. CASE ~\E d \in J : t.name[d] = n
    BY <2>0, <2>1, <2>2, <2>4
  <2> QED
    BY <2>3, <2>4
<1>6. ASSUME NEW m \in Messages, NEW i \in 1..MaxTag, NEW f \in Fields
      PROVE  u.tags[m][i] = f <=> In(u, m, f) /\ u.number[f] = i
  <2> DEFINE J == Joins(t, p, b, m) \cap Fields
  <2>0. /\ \A d \in J : t.number[d] = i => v.tags[m][i] = d
        /\ (\A d \in J : t.number[d] # i) => v.tags[m][i] = t.tags[m][i]
        /\ \A d \in J : t.number[d] = i => t.tags[m][i] = NoBuilder
    <3>1. m \in Parents /\ i # 0
      BY KindFacts, BuilderAssumption
    <3>2. \A d \in J : t.number[d] = i => t.tags[m][i] = NoBuilder
      BY <3>1 DEF Vacant, TagFree
    <3> QED
      BY <3>2 DEF Entered
  <2>1. t.tags[m][i] = f <=> In(t, m, f) /\ t.number[f] = i
    BY <1>1 DEF TagsMatch
  <2>2. /\ In(u, m, f) <=> In(t, m, f) \/ f \in J
        /\ u.tags = v.tags /\ u.number = t.number /\ f # NoBuilder
    BY <1>2, <1>3, <1>4, KindFacts
  <2> HIDE DEF J
  <2>3. CASE \E d \in J : t.number[d] = i
    BY <2>0, <2>1, <2>2, <2>3
  <2>4. CASE ~\E d \in J : t.number[d] = i
    BY <2>0, <2>1, <2>2, <2>4
  <2> QED
    BY <2>3, <2>4
<1> QED
  BY <1>4, <1>5, <1>6 DEF Good, SymbolsMatch, TagsMatch, u

\* Where b goes it was not before.
LEMMA ElsewhereBefore ==
  ASSUME NEW t, Good(t), NEW p, NEW b, Fits(t, p, b), Vacant(t, p, b), NEW q \in Parents
  PROVE  Joins(t, p, b, q) = {} \/ Leaving(t, b, q) = {}
<1> SUFFICES ASSUME NEW c \in Joins(t, p, b, q), NEW d \in Leaving(t, b, q)
             PROVE  FALSE
  OBVIOUS
<1>1. b \in Joins(t, p, b, q) /\ b \in Builders /\ t.name[b] \in Names
  BY TreeTypes DEF Joins, Fits, Good, Sound
<1>2. In(t, q, b)
  <2>1. CASE d = b
    BY <2>1 DEF Leaving
  <2>2. CASE d # b
    <3>1. In(t, q, d) /\ t.parent[d] = b /\ q # b
      BY <2>2 DEF Leaving
    <3> QED
      BY <3>1 DEF In
  <2> QED
    BY <2>1, <2>2
<1>3. t.symbols[q][t.name[b]] = b
  BY <1>1, <1>2 DEF Good, SymbolsMatch
<1>4. t.symbols[q][t.name[b]] = NoBuilder
  BY <1>1 DEF Vacant
<1> QED
  BY <1>1, <1>3, <1>4, KindFacts

LEMMA SameStructure ==
  ASSUME NEW t, NEW v, v.name = t.name, v.parent = t.parent, v.kids = t.kids, v.group = t.group
  PROVE  /\ Sound(t) /\ v \in Trees => Sound(v)
         /\ \A b \in Builders, q \in Parents : Leaving(v, b, q) = Leaving(t, b, q)
         /\ \A q, c : In(v, q, c) <=> In(t, q, c)
<1>1. \A q, c : In(v, q, c) <=> In(t, q, c)
  BY DEF In, Through
<1>2. \A b \in Builders, q \in Parents : Leaving(v, b, q) = Leaving(t, b, q)
  BY <1>1 DEF Leaving
<1>3. Sound(t) /\ v \in Trees => Sound(v)
  BY SameOrder DEF Sound, Kinds, Grouped
<1> QED
  BY <1>1, <1>2, <1>3

\* Unlinking b leaves alone what will join with it.
LEMMA SameJoins ==
  ASSUME NEW t, Sound(t), NEW p, NEW b, Fits(t, p, b), NEW u, Apart(t, u, b), NEW q \in Parents
  PROVE  Fits(u, p, b) /\ Joins(u, p, b, q) = Joins(t, p, b, q)
<1>1. /\ p \in Parents /\ b \in Builders
      /\ \A c \in Builders : u.parent[c] =
           IF c = b /\ t.parent[b] \notin Fields THEN NoBuilder ELSE t.parent[c]
      /\ \A f \in Fields : u.group[f] =
           IF f = t.parent[b] /\ t.group[f] = b THEN NoBuilder ELSE t.group[f]
  BY ApartFields DEF Fits
<1>2. b \in Oneofs \cup Fields => t.parent[b] # b /\ u.parent[b] # b
  BY <1>1, AboveFacts, KindFacts
<1>3. Fits(u, p, b)
  BY <1>1 DEF Fits
<1>4. ASSUME NEW c \in Builders
      PROVE  c \in Joins(u, p, b, q) <=> c \in Joins(t, p, b, q)
  <2>1. p \in Oneofs => u.parent[p] = t.parent[p]
    BY <1>1, KindFacts DEF Fits
  <2>2. b \in Oneofs \cup Fields => (u.parent[c] = b <=> t.parent[c] = b)
    BY <1>1, <1>2
  <2>3. b \in Fields => u.group[b] = t.group[b]
    BY <1>1, <1>2
  <2> QED
    BY <2>1, <2>2, <2>3 DEF Joins
<1> QED
  BY <1>3, <1>4 DEF Joins

\* First into the tables, then out of the old place, then into the new list.
LEMMA MovedGood ==
  ASSUME NEW t, Good(t), NEW p, NEW b, Fits(t, p, b), Vacant(t, p, b), NEW v, Entered(t, v, p, b)
  PROVE  Good(Linked(Unlinked(v, b), p, b))
<1> DEFINE u == Unlinked(t, b)
           w == Unlinked(v, b)
<1>1. /\ v \in Trees /\ v.name = t.name /\ v.parent = t.parent /\ v.kids = t.kids
      /\ v.number = t.number /\ v.group = t.group /\ Sound(t) /\ b \in Builders
  BY DEF Entered, Good, Fits
<1>2. Sound(v) /\ \A q \in Parents : Leaving(v, b, q) = Leaving(t, b, q)
  BY <1>1, SameStructure
<1>3. Apart(t, u, b) /\ Apart(v, w, b) /\ Good(u)
  BY <1>1, <1>2, UnlinkedApart, UnlinkedGood
<1> HIDE DEF u, w
<1>4. Loose(u, b)
  BY <1>1, <1>3, ApartSound
<1>5. \A q \in Parents : Fits(u, p, b) /\ Joins(u, p, b, q) = Joins(t, p, b, q)
  BY <1>1, <1>3, SameJoins
<1>6. Fits(u, p, b)
  BY <1>5 DEF Fits
<1>7. \A q \in Parents : Joins(t, p, b, q) = {} \/ Leaving(t, b, q) = {}
  BY ElsewhereBefore
<1>8. Cleared(t, u, b) /\ Cleared(v, w, b) /\ u.name = t.name /\ u.number = t.number
  BY <1>3 DEF Apart
<1>9. Vacant(u, p, b)
  <2>1. ASSUME NEW q \in Parents, NEW c \in Joins(u, p, b, q)
        PROVE  /\ u.symbols[q][u.name[c]] = NoBuilder
               /\ q \in Messages /\ c \in Fields => TagFree(u, q, u.number[c])
    <3>1. c \in Joins(t, p, b, q) /\ c \in Builders /\ Leaving(t, b, q) = {}
      BY <1>5, <1>7, <2>1 DEF Joins
    <3>2. t.name[c] \in Names
      BY <1>1, <3>1, TreeTypes DEF Sound
    <3>3. /\ t.symbols[q][t.name[c]] = NoBuilder
          /\ q \in Messages /\ c \in Fields => TagFree(t, q, t.number[c])
      BY <3>1 DEF Vacant
    <3>4. u.symbols[q][u.name[c]] = NoBuilder
      BY <1>8, <3>1, <3>2, <3>3 DEF Cleared
    <3>5. ASSUME q \in Messages, c \in Fields, u.number[c] # 0
          PROVE  u.tags[q][u.number[c]] = NoBuilder
      <4>1. PICK k \in 0..MaxTag : k = t.number[c]
        BY <1>1, <3>5, TreeTypes DEF Sound
      <4>2. k \in 1..MaxTag /\ u.number[c] = k
        BY <1>8, <3>5, <4>1, BuilderAssumption
      <4>3. t.tags[q][k] = NoBuilder
        BY <3>3, <3>5, <4>1, <4>2 DEF TagFree
      <4>4. u.tags[q][k] = t.tags[q][k]
        BY <1>8, <3>1, <3>5, <4>2 DEF Cleared
      <4> QED
        BY <4>2, <4>3, <4>4
    <3> QED
      BY <3>4, <3>5 DEF TagFree
  <2> QED
    BY <2>1 DEF Vacant
<1>10. Entered(u, w, p, b)
  <2>1. /\ w \in Trees /\ w.name = u.name /\ w.parent = u.parent /\ w.kids = u.kids
        /\ w.number = u.number /\ w.group = u.group
    BY <1>1, <1>3 DEF Apart
  <2>2. ASSUME NEW q \in Parents, NEW n \in Names
        PROVE  /\ \A c \in Joins(u, p, b, q) : u.name[c] = n => w.symbols[q][n] = c
               /\ (\A c \in Joins(u, p, b, q) : u.name[c] # n) => w.symbols[q][n] = u.symbols[q][n]
    <3> DEFINE J == Joins(t, p, b, q)
               L == Leaving(t, b, q)
    <3>1. /\ Joins(u, p, b, q) = J /\ (J = {} \/ L = {}) /\ u.name = t.name
          /\ w.symbols[q][n] = IF \E c \in L : t.name[c] = n THEN NoBuilder ELSE v.symbols[q][n]
          /\ u.symbols[q][n] = IF \E c \in L : t.name[c] = n THEN NoBuilder ELSE t.symbols[q][n]
      BY <1>1, <1>2, <1>5, <1>7, <1>8 DEF Cleared
    <3>2. /\ \A c \in J : t.name[c] = n => v.symbols[q][n] = c
          /\ (\A c \in J : t.name[c] # n) => v.symbols[q][n] = t.symbols[q][n]
      BY DEF Entered
    <3> HIDE DEF J, L
    <3> QED
      BY <3>1, <3>2
  <2>3. ASSUME NEW m \in Messages, NEW i \in 1..MaxTag
        PROVE  /\ \A f \in Joins(u, p, b, m) \cap Fields : u.number[f] = i => w.tags[m][i] = f
               /\ (\A f \in Joins(u, p, b, m) \cap Fields : u.number[f] # i) => w.tags[m][i] = u.tags[m][i]
    <3> DEFINE J == Joins(t, p, b, m)
               L == Leaving(t, b, m)
    <3>0. m \in Parents
      BY KindFacts
    <3>1. /\ Joins(u, p, b, m) = J /\ (J = {} \/ L = {}) /\ u.number = t.number
          /\ w.tags[m][i] = IF \E f \in L \cap Fields : t.number[f] = i THEN NoBuilder ELSE v.tags[m][i]
          /\ u.tags[m][i] = IF \E f \in L \cap Fields : t.number[f] = i THEN NoBuilder ELSE t.tags[m][i]
      BY <1>1, <1>2, <1>5, <1>7, <1>8, <3>0 DEF Cleared
    <3>2. /\ \A f \in J \cap Fields : t.number[f] = i => v.tags[m][i] = f
          /\ (\A f \in J \cap Fields : t.number[f] # i) => v.tags[m][i] = t.tags[m][i]
      BY DEF Entered
    <3> HIDE DEF J, L
    <3> QED
      BY <3>1, <3>2
  <2> QED
    BY <2>1, <2>2, <2>3 DEF Entered
<1> QED
  BY <1>3, <1>4, <1>6, <1>9, <1>10, LinkedGood DEF w

\* What joins, by the kinds of p and b.
LEMMA JoinsPlain ==
  ASSUME NEW t, NEW p \in Plain \cup Messages, NEW b \in Builders, b \notin Oneofs \cup Fields,
         NEW q \in Parents
  PROVE  Joins(t, p, b, q) = IF q = p THEN {b} ELSE {}
<1>1. p \notin Oneofs
  BY KindFacts
<1> QED
  BY <1>1 DEF Joins

LEMMA JoinsField ==
  ASSUME NEW t, Sound(t), NEW p \in Messages, NEW b \in Fields, NEW q \in Parents
  PROVE  Joins(t, p, b, q) = IF q = p THEN {b} \cup ({t.group[b]} \ {NoBuilder}) ELSE {}
<1>1. p \notin Oneofs /\ b \in Builders /\ b \notin Oneofs
  BY KindFacts
<1>2. t.group[b] # NoBuilder => t.group[b] \in Builders /\ t.parent[t.group[b]] = b
  BY AboveFacts, KindFacts
<1>3. ASSUME NEW c \in Builders
      PROVE  c \in Joins(t, p, b, q) <=> q = p /\ (c = b \/ (c = t.group[b] /\ c # NoBuilder))
  BY <1>1, <1>2, KindFacts DEF Joins
<1> QED
  BY <1>1, <1>2, <1>3 DEF Joins

LEMMA JoinsChoice ==
  ASSUME NEW t, NEW p \in Oneofs, NEW b \in Fields, NEW q \in Parents
  PROVE  Joins(t, p, b, q) = IF q = p \/ q = t.parent[p] THEN {b} ELSE {}
<1>1. p \notin Messages /\ b \in Builders
  BY KindFacts
<1> QED
  BY <1>1 DEF Joins

LEMMA JoinsOneof ==
  ASSUME NEW t, NEW p \in Messages, NEW b \in Oneofs, NEW q \in Parents
  PROVE  Joins(t, p, b, q) = IF q = p THEN {b} \cup {c \in Builders : t.parent[c] = b} ELSE {}
<1>1. p \notin Oneofs /\ b \in Builders
  BY KindFacts
<1> QED
  BY <1>1 DEF Joins

LEMMA WithSymbolEntered ==
  ASSUME NEW t, t \in Trees, NEW p \in Plain \cup Messages, NEW b \in Builders,
         b \notin Oneofs \cup Fields
  PROVE  /\ Fits(t, p, b) /\ Entered(t, WithSymbol(t, p, b), p, b)
         /\ Free(t, p, t.name[b]) => Vacant(t, p, b)
<1> DEFINE v == WithSymbol(t, p, b)
<1>1. p \in Parents /\ p \notin Oneofs /\ \A q \in Parents : Joins(t, p, b, q) = IF q = p THEN {b} ELSE {}
  BY JoinsPlain, KindFacts
<1>2. /\ v \in Trees
      /\ v.name = t.name /\ v.parent = t.parent /\ v.kids = t.kids
      /\ v.number = t.number /\ v.tags = t.tags /\ v.group = t.group
      /\ \A q \in Parents, n \in Names :
           v.symbols[q][n] = IF q = p /\ n = t.name[b] THEN b ELSE t.symbols[q][n]
  BY <1>1, WithSymbolFields
<1> HIDE DEF v
<1>3. \A q \in Parents : Joins(t, p, b, q) \cap Fields = {}
  BY <1>1
<1>4. Entered(t, v, p, b)
  <2>1. ASSUME NEW q \in Parents, NEW n \in Names
        PROVE  /\ \A c \in Joins(t, p, b, q) : t.name[c] = n => v.symbols[q][n] = c
               /\ (\A c \in Joins(t, p, b, q) : t.name[c] # n) => v.symbols[q][n] = t.symbols[q][n]
    BY <1>1, <1>2
  <2>2. ASSUME NEW m \in Messages, NEW i \in 1..MaxTag
        PROVE  /\ \A f \in Joins(t, p, b, m) \cap Fields : t.number[f] = i => v.tags[m][i] = f
               /\ (\A f \in Joins(t, p, b, m) \cap Fields : t.number[f] # i) => v.tags[m][i] = t.tags[m][i]
    BY <1>2, <1>3, KindFacts
  <2> QED
    BY <1>2, <2>1, <2>2 DEF Entered
<1>5. Free(t, p, t.name[b]) => Vacant(t, p, b)
  BY <1>1 DEF Vacant, Free
<1>6. Fits(t, p, b)
  BY <1>1 DEF Fits
<1> QED
  BY <1>4, <1>5, <1>6 DEF v

LEMMA RegisteredFieldFields ==
  ASSUME NEW t \in Trees, NEW m \in Messages, NEW f \in Fields
  PROVE  LET u == RegisteredField(t, m, f) IN
         /\ u \in Trees
         /\ u.name = t.name /\ u.parent = t.parent /\ u.kids = t.kids
         /\ u.number = t.number /\ u.group = t.group
         /\ \A q \in Parents, n \in Names : u.symbols[q][n] =
              IF q = m /\ t.group[f] # NoBuilder /\ n = t.name[t.group[f]] THEN t.group[f]
              ELSE IF q = m /\ n = t.name[f] THEN f ELSE t.symbols[q][n]
         /\ \A q \in Messages, i \in 1..MaxTag : u.tags[q][i] =
              IF q = m /\ i = t.number[f] THEN f ELSE t.tags[q][i]
<1> DEFINE v == WithSymbol(t, m, f)
           w == WithTag(v, m, f)
<1>1. m \in Parents /\ f \in Builders /\ t.group[f] \in Messages \cup {NoBuilder}
  BY TreeTypes, KindFacts
<1>2. /\ v \in Trees
      /\ v.name = t.name /\ v.parent = t.parent /\ v.kids = t.kids
      /\ v.number = t.number /\ v.tags = t.tags /\ v.group = t.group
      /\ \A q \in Parents, n \in Names :
           v.symbols[q][n] = IF q = m /\ n = t.name[f] THEN f ELSE t.symbols[q][n]
  BY <1>1, WithSymbolFields
<1> HIDE DEF v
<1>3. /\ w \in Trees
      /\ w.name = v.name /\ w.parent = v.parent /\ w.kids = v.kids
      /\ w.number = v.number /\ w.symbols = v.symbols /\ w.group = v.group
      /\ \A q \in Messages, i \in 1..MaxTag :
           w.tags[q][i] = IF q = m /\ i = v.number[f] THEN f ELSE v.tags[q][i]
  BY <1>2, WithTagFields
<1> HIDE DEF w
<1>4. RegisteredField(t, m, f) = IF t.group[f] = NoBuilder THEN w ELSE WithSymbol(w, m, t.group[f])
  BY DEF RegisteredField, v, w
<1>5. CASE t.group[f] = NoBuilder
  BY <1>2, <1>3, <1>4, <1>5
<1>6. CASE t.group[f] # NoBuilder
  <2> DEFINE g == t.group[f]
             x == WithSymbol(w, m, g)
  <2>1. g \in Builders
    BY <1>1, <1>6, KindFacts
  <2> HIDE DEF g
  <2>2. /\ x \in Trees
        /\ x.name = w.name /\ x.parent = w.parent /\ x.kids = w.kids
        /\ x.number = w.number /\ x.tags = w.tags /\ x.group = w.group
        /\ \A q \in Parents, n \in Names :
             x.symbols[q][n] = IF q = m /\ n = w.name[g] THEN g ELSE w.symbols[q][n]
    BY <1>1, <1>3, <2>1, WithSymbolFields
  <2>3. RegisteredField(t, m, f) = x
    BY <1>4, <1>6 DEF g
  <2> HIDE DEF x
  <2> QED
    BY <1>2, <1>3, <1>6, <2>2, <2>3 DEF g
<1> QED
  BY <1>5, <1>6

LEMMA RegisteredFieldEntered ==
  ASSUME NEW t, Sound(t), NEW m \in Messages, NEW f \in Fields
  PROVE  /\ Fits(t, m, f) /\ Entered(t, RegisteredField(t, m, f), m, f)
         /\ CanRegister(t, m, f) => Vacant(t, m, f)
<1> DEFINE v == RegisteredField(t, m, f)
           g == t.group[f]
           J(q) == Joins(t, m, f, q)
<1>1. /\ t \in Trees /\ m \in Parents /\ m \notin Plain \cup Oneofs /\ f \in Builders
      /\ g \in Messages \cup {NoBuilder} /\ g \notin Fields
  <2>1. NoBuilder \notin Fields /\ Messages \cap Fields = {}
    BY KindFacts
  <2> QED
    BY <2>1, AboveFacts, KindFacts
<1>2. \A q \in Parents : J(q) = IF q = m THEN {f} \cup ({g} \ {NoBuilder}) ELSE {}
  BY JoinsField
<1>3. \A q \in Messages : J(q) \cap Fields = IF q = m THEN {f} ELSE {}
  BY <1>1, <1>2, KindFacts
<1>4. /\ v \in Trees
      /\ v.name = t.name /\ v.parent = t.parent /\ v.kids = t.kids
      /\ v.number = t.number /\ v.group = t.group
      /\ \A q \in Parents, n \in Names : v.symbols[q][n] =
           IF q = m /\ g # NoBuilder /\ n = t.name[g] THEN g
           ELSE IF q = m /\ n = t.name[f] THEN f ELSE t.symbols[q][n]
      /\ \A q \in Messages, i \in 1..MaxTag : v.tags[q][i] =
           IF q = m /\ i = t.number[f] THEN f ELSE t.tags[q][i]
  BY <1>1, RegisteredFieldFields
<1>5. g # NoBuilder => t.name[g] # t.name[f]
  <2>1. g # NoBuilder => t.name[g] \in Capital /\ t.name[f] = GroupName[t.name[g]]
    BY DEF Sound, Grouped
  <2> QED
    BY <2>1, BuilderAssumption
<1> HIDE DEF v, g, J
<1>6. Entered(t, v, m, f)
  <2>1. ASSUME NEW q \in Parents, NEW n \in Names
        PROVE  /\ \A c \in J(q) : t.name[c] = n => v.symbols[q][n] = c
               /\ (\A c \in J(q) : t.name[c] # n) => v.symbols[q][n] = t.symbols[q][n]
    BY <1>2, <1>4, <1>5
  <2>2. ASSUME NEW q \in Messages, NEW i \in 1..MaxTag
        PROVE  /\ \A c \in J(q) \cap Fields : t.number[c] = i => v.tags[q][i] = c
               /\ (\A c \in J(q) \cap Fields : t.number[c] # i) => v.tags[q][i] = t.tags[q][i]
    BY <1>3, <1>4
  <2> QED
    BY <1>4, <2>1, <2>2 DEF Entered, J
<1>7. ASSUME CanRegister(t, m, f)
      PROVE  Vacant(t, m, f)
  <2>1. /\ t.symbols[m][t.name[f]] = NoBuilder /\ TagFree(t, m, t.number[f])
        /\ g # NoBuilder => t.symbols[m][t.name[g]] = NoBuilder
    BY <1>7 DEF CanRegister, Free, g
  <2>2. ASSUME NEW q \in Parents, NEW c \in J(q)
        PROVE  /\ t.symbols[q][t.name[c]] = NoBuilder
               /\ q \in Messages /\ c \in Fields => TagFree(t, q, t.number[c])
    BY <1>1, <1>2, <2>1, <2>2
  <2> QED
    BY <2>2 DEF Vacant, J
<1> QED
  BY <1>1, <1>6, <1>7 DEF v, Fits

\* Two trees with the same parts are one.
LEMMA TreesEqual ==
  ASSUME NEW t \in Trees, NEW u \in Trees,
         u.name = t.name, u.parent = t.parent, u.kids = t.kids, u.number = t.number, u.group = t.group,
         \A q \in Parents, n \in Names : u.symbols[q][n] = t.symbols[q][n],
         \A q \in Messages, i \in 1..MaxTag : u.tags[q][i] = t.tags[q][i]
  PROVE  u = t
<1>1. u.symbols = t.symbols
  <2>1. /\ u.symbols \in [Parents -> [Names -> Builders \cup {NoBuilder}]]
        /\ t.symbols \in [Parents -> [Names -> Builders \cup {NoBuilder}]]
    BY TreeTypes
  <2>2. \A q \in Parents : u.symbols[q] = t.symbols[q]
    BY <2>1
  <2> QED
    BY <2>1, <2>2
<1>2. u.tags = t.tags
  <2>1. /\ u.tags \in [Messages -> [1..MaxTag -> Fields \cup {NoBuilder}]]
        /\ t.tags \in [Messages -> [1..MaxTag -> Fields \cup {NoBuilder}]]
    BY TreeTypes
  <2>2. ASSUME NEW q \in Messages
        PROVE  u.tags[q] = t.tags[q]
    <3> DEFINE x == u.tags[q]
               y == t.tags[q]
               I == 1..MaxTag
    <3>1. x \in [I -> Fields \cup {NoBuilder}] /\ y \in [I -> Fields \cup {NoBuilder}]
      BY <2>1
    <3>2. \A i \in I : x[i] = y[i]
      OBVIOUS
    <3> HIDE DEF x, y, I
    <3>3. x = y
      BY <3>1, <3>2
    <3> QED
      BY <3>3 DEF x, y
  <2> QED
    BY <2>1, <2>2
<1>3. /\ t = [name |-> t.name, parent |-> t.parent, kids |-> t.kids, symbols |-> t.symbols,
              number |-> t.number, tags |-> t.tags, group |-> t.group]
      /\ u = [name |-> u.name, parent |-> u.parent, kids |-> u.kids, symbols |-> u.symbols,
              number |-> u.number, tags |-> u.tags, group |-> u.group]
  BY DEF Trees
<1> QED
  BY <1>1, <1>2, <1>3

\* A name that was free is undone by deleting it.
LEMMA SymbolUndone ==
  ASSUME NEW t \in Trees, NEW p \in Parents, NEW b \in Builders, NEW k \in Names,
         k = t.name[b], Free(t, p, k)
  PROVE  WithoutSymbol(WithSymbol(t, p, b), p, k) = t
<1> DEFINE v == WithSymbol(t, p, b)
           u == WithoutSymbol(v, p, k)
<1>1. /\ v \in Trees
      /\ v.name = t.name /\ v.parent = t.parent /\ v.kids = t.kids
      /\ v.number = t.number /\ v.tags = t.tags /\ v.group = t.group
      /\ \A q \in Parents, n \in Names :
           v.symbols[q][n] = IF q = p /\ n = t.name[b] THEN b ELSE t.symbols[q][n]
  BY WithSymbolFields
<1> HIDE DEF v
<1>2. /\ u \in Trees
      /\ u.name = v.name /\ u.parent = v.parent /\ u.kids = v.kids
      /\ u.number = v.number /\ u.tags = v.tags /\ u.group = v.group
      /\ \A q \in Parents, n \in Names :
           u.symbols[q][n] = IF q = p /\ n = k THEN NoBuilder ELSE v.symbols[q][n]
  BY <1>1, WithoutSymbolFields
<1> HIDE DEF u
<1>3. \A q \in Parents, n \in Names : u.symbols[q][n] = t.symbols[q][n]
  BY <1>1, <1>2 DEF Free
<1>4. \A q \in Messages, i \in 1..MaxTag : u.tags[q][i] = t.tags[q][i]
  BY <1>1, <1>2
<1>5. u = t
  BY <1>1, <1>2, <1>3, <1>4, TreesEqual
<1> QED
  BY <1>5 DEF u, v

\* registerField undoes all it did before an error.
LEMMA RefusedFieldSame ==
  ASSUME NEW t \in Trees, NEW m \in Messages, NEW f \in Fields
  PROVE  RefusedField(t, m, f) = t
<1> DEFINE name == t.name[f]
           u == WithSymbol(t, m, f)
           v == WithTag(u, m, f)
           w == WithoutSymbol(v, m, name)
           x == WithoutTag(w, m, t.number[f])
<1>1. m \in Parents /\ f \in Builders /\ name \in Names /\ t.number[f] \in 0..MaxTag
  BY TreeTypes, KindFacts
<1>2. CASE ~Free(t, m, name)
  BY <1>2 DEF RefusedField
<1>3. CASE Free(t, m, name) /\ ~TagFree(t, m, t.number[f])
  <2>1. RefusedField(t, m, f) = WithoutSymbol(u, m, name)
    BY <1>3 DEF RefusedField
  <2> HIDE DEF name
  <2>2. WithoutSymbol(u, m, name) = t
    BY <1>1, <1>3, SymbolUndone DEF name
  <2> QED
    BY <2>1, <2>2
<1>4. CASE Free(t, m, name) /\ TagFree(t, m, t.number[f])
  <2>1. RefusedField(t, m, f) = x
    BY <1>4 DEF RefusedField
  <2> HIDE DEF name, x
  <2>2. /\ u \in Trees
        /\ u.name = t.name /\ u.parent = t.parent /\ u.kids = t.kids
        /\ u.number = t.number /\ u.tags = t.tags /\ u.group = t.group
        /\ \A q \in Parents, n \in Names :
             u.symbols[q][n] = IF q = m /\ n = t.name[f] THEN f ELSE t.symbols[q][n]
    BY <1>1, WithSymbolFields
  <2> HIDE DEF u
  <2>3. /\ v \in Trees
        /\ v.name = u.name /\ v.parent = u.parent /\ v.kids = u.kids
        /\ v.number = u.number /\ v.symbols = u.symbols /\ v.group = u.group
        /\ \A q \in Messages, i \in 1..MaxTag :
             v.tags[q][i] = IF q = m /\ i = u.number[f] THEN f ELSE u.tags[q][i]
    BY <2>2, WithTagFields
  <2> HIDE DEF v
  <2>4. /\ w \in Trees
        /\ w.name = v.name /\ w.parent = v.parent /\ w.kids = v.kids
        /\ w.number = v.number /\ w.tags = v.tags /\ w.group = v.group
        /\ \A q \in Parents, n \in Names :
             w.symbols[q][n] = IF q = m /\ n = name THEN NoBuilder ELSE v.symbols[q][n]
    BY <1>1, <2>3, WithoutSymbolFields
  <2> HIDE DEF w
  <2>5. PICK k \in 0..MaxTag : k = t.number[f]
    BY <1>1
  <2>6. /\ x \in Trees
        /\ x.name = w.name /\ x.parent = w.parent /\ x.kids = w.kids
        /\ x.number = w.number /\ x.symbols = w.symbols /\ x.group = w.group
        /\ \A q \in Messages, i \in 1..MaxTag :
             x.tags[q][i] = IF q = m /\ i = k THEN NoBuilder ELSE w.tags[q][i]
    <3>1. x = WithoutTag(w, m, k)
      BY <2>5 DEF x
    <3> QED
      BY <2>4, <3>1, WithoutTagFields
  <2>7. \A q \in Parents, n \in Names : x.symbols[q][n] = t.symbols[q][n]
    BY <1>4, <2>2, <2>3, <2>4, <2>6 DEF Free, name
  <2>8. ASSUME NEW q \in Messages, NEW i \in 1..MaxTag
        PROVE  x.tags[q][i] = t.tags[q][i]
    <3>1. q = m /\ i = k => t.tags[q][i] = NoBuilder
      <4>1. i # 0
        BY BuilderAssumption
      <4> QED
        BY <1>4, <2>5, <4>1 DEF TagFree
    <3> QED
      BY <2>2, <2>3, <2>4, <2>5, <2>6, <3>1
  <2>9. x = t
    BY <2>2, <2>3, <2>4, <2>6, <2>7, <2>8, TreesEqual
  <2> QED
    BY <2>1, <2>9
<1> QED
  BY <1>2, <1>3, <1>4

-----------------------------------------------------------------------------
(* The calls. *)

\* The call leaves a good tree, the one there was if it is refused.
Kept ==
  /\ Good(tree') /\ outcome' \in {"done", "refused"}
  /\ outcome' = "refused" => tree' = tree
  /\ fieldType' = fieldType \/ \E f \in Fields : fieldType' = [fieldType EXCEPT ![f] = "other"]

LEMMA DoneKept ==
  ASSUME NEW t, Good(t), Done(t)
  PROVE  Kept
  BY DEF Done, Kept

LEMMA RefusedKept ==
  ASSUME Good(tree), NEW t, t = tree, Refuse(t)
  PROVE  Kept
  BY DEF Refuse, Kept

\* An element that is unlinked has left all tables.
LEMMA GoneVacant ==
  ASSUME NEW t, Good(t), NEW b \in Builders, NEW q \in Parents, NEW u, Apart(t, u, b),
         t.symbols[q][t.name[b]] = b
  PROVE  /\ u.symbols[q][u.name[b]] = NoBuilder
         /\ q \in Messages /\ b \in Fields => TagFree(u, q, u.number[b])
<1>1. t.name[b] \in Names /\ u.name = t.name /\ u.number = t.number /\ Cleared(t, u, b)
  BY TreeTypes DEF Good, Sound, Apart
<1>2. b \in Leaving(t, b, q)
  BY <1>1 DEF Good, SymbolsMatch, Leaving
<1>3. u.symbols[q][u.name[b]] = NoBuilder
  BY <1>1, <1>2 DEF Cleared
<1>4. ASSUME q \in Messages, b \in Fields, u.number[b] # 0
      PROVE  u.tags[q][u.number[b]] = NoBuilder
  <2>1. PICK k \in 0..MaxTag : k = t.number[b]
    BY <1>4, TreeTypes DEF Good, Sound
  <2>2. k \in 1..MaxTag /\ u.number[b] = k
    BY <1>1, <1>4, <2>1, BuilderAssumption
  <2>3. u.tags[q][k] = NoBuilder
    BY <1>1, <1>2, <1>4, <2>1, <2>2 DEF Cleared
  <2> QED
    BY <2>2, <2>3
<1> QED
  BY <1>3, <1>4 DEF TagFree

LEMMA AddPlainKept ==
  ASSUME Good(tree), NEW p \in Parents, NEW b \in Builders, AddPlain(p, b)
  PROVE  Kept
<1>1. CASE ~Free(tree, p, tree.name[b])
  BY <1>1, RefusedKept DEF AddPlain
<1>2. CASE Free(tree, p, tree.name[b])
  <2>1. p \in Plain \cup Messages /\ b \notin Oneofs \cup Fields /\ tree \in Trees
    BY KindFacts DEF AddPlain, Good, Sound
  <2>2. Fits(tree, p, b) /\ Entered(tree, WithSymbol(tree, p, b), p, b) /\ Vacant(tree, p, b)
    BY <1>2, <2>1, WithSymbolEntered
  <2>3. Good(Linked(Unlinked(WithSymbol(tree, p, b), b), p, b))
    BY <2>2, MovedGood
  <2> QED
    BY <1>2, <2>3, DoneKept DEF AddPlain
<1> QED
  BY <1>1, <1>2

LEMMA AddNestedMessageKept ==
  ASSUME Good(tree), NEW m, NEW b, AddNestedMessage(m, b)
  PROVE  Kept
<1>1. /\ m \in Messages /\ b \in Messages /\ m \in Parents /\ b \in Builders
      /\ b \notin Oneofs \cup Fields /\ tree \in Trees /\ Sound(tree)
  BY KindFacts DEF AddNestedMessage, Good, Sound
<1>2. CASE PresentButNotChild(tree, m, b)
  <2> DEFINE u == Unlinked(tree, b)
  <2>1. Apart(tree, u, b) /\ Good(u)
    BY <1>1, UnlinkedApart, UnlinkedGood
  <2>2. Done(Linked(WithSymbol(u, m, b), m, b))
    BY <1>2 DEF AddNestedMessage
  <2> HIDE DEF u
  <2>3. u \in Trees /\ Loose(u, b)
    BY <1>1, <2>1, ApartSound DEF Good, Sound
  <2>4. Free(u, m, u.name[b])
    BY <1>1, <1>2, <2>1, GoneVacant DEF PresentButNotChild, Free
  <2>5. Fits(u, m, b) /\ Entered(u, WithSymbol(u, m, b), m, b) /\ Vacant(u, m, b)
    BY <1>1, <2>3, <2>4, WithSymbolEntered
  <2>6. Good(Linked(WithSymbol(u, m, b), m, b))
    BY <2>1, <2>3, <2>5, LinkedGood
  <2> QED
    BY <2>2, <2>6, DoneKept
<1>3. CASE ~PresentButNotChild(tree, m, b) /\ Free(tree, m, tree.name[b])
  <2>1. Fits(tree, m, b) /\ Entered(tree, WithSymbol(tree, m, b), m, b) /\ Vacant(tree, m, b)
    BY <1>1, <1>3, WithSymbolEntered
  <2>2. Good(Linked(Unlinked(WithSymbol(tree, m, b), b), m, b))
    BY <2>1, MovedGood
  <2> QED
    BY <1>3, <2>2, DoneKept DEF AddNestedMessage
<1>4. CASE ~PresentButNotChild(tree, m, b) /\ ~Free(tree, m, tree.name[b])
  BY <1>4, RefusedKept DEF AddNestedMessage
<1> QED
  BY <1>2, <1>3, <1>4

LEMMA AddFieldKept ==
  ASSUME Good(tree), NEW m, NEW f, AddField(m, f)
  PROVE  Kept
<1>1. m \in Messages /\ f \in Fields /\ m \in Parents /\ f \in Builders /\ Sound(tree)
  BY KindFacts DEF AddField, Good
<1>2. CASE PresentButNotChild(tree, m, f)
  <2> DEFINE u == Unlinked(tree, f)
  <2>1. Apart(tree, u, f) /\ Good(u)
    BY <1>1, UnlinkedApart, UnlinkedGood
  <2>2. IF CanRegister(u, m, f) THEN Done(Linked(RegisteredField(u, m, f), m, f))
        ELSE Refuse(RefusedField(u, m, f))
    BY <1>2 DEF AddField
  <2> HIDE DEF u
  <2>3. Sound(u) /\ Loose(u, f)
    BY <1>1, <2>1, ApartSound
  <2>4. Free(u, m, u.name[f]) /\ TagFree(u, m, u.number[f])
    BY <1>1, <1>2, <2>1, GoneVacant DEF PresentButNotChild, Free
  <2>5. u.group[f] = NoBuilder
    <3>1. In(tree, m, f)
      <4>1. tree.name[f] \in Names
        BY <1>1, TreeTypes DEF Sound
      <4> QED
        BY <1>1, <1>2, <4>1 DEF PresentButNotChild, Good, SymbolsMatch
    <3>2. tree.parent[f] \in Oneofs
      BY <1>1, <1>2, <3>1, AboveFacts, KindFacts DEF PresentButNotChild, In, Through
    <3>3. tree.group[f] = NoBuilder
      BY <1>1, <3>2, AboveFacts
    <3> QED
      BY <1>1, <2>1, <3>3, ApartFields
  <2>6. Fits(u, m, f) /\ Entered(u, RegisteredField(u, m, f), m, f) /\ Vacant(u, m, f)
    BY <1>1, <2>3, <2>4, <2>5, RegisteredFieldEntered DEF CanRegister
  <2>7. Good(Linked(RegisteredField(u, m, f), m, f))
    BY <2>1, <2>3, <2>6, LinkedGood
  <2>8. CanRegister(u, m, f)
    BY <2>4, <2>5 DEF CanRegister
  <2> QED
    BY <2>2, <2>7, <2>8, DoneKept
<1>3. CASE ~PresentButNotChild(tree, m, f) /\ CanRegister(tree, m, f)
  <2>1. Fits(tree, m, f) /\ Entered(tree, RegisteredField(tree, m, f), m, f) /\ Vacant(tree, m, f)
    BY <1>1, <1>3, RegisteredFieldEntered
  <2>2. Good(Linked(Unlinked(RegisteredField(tree, m, f), f), m, f))
    BY <2>1, MovedGood
  <2> QED
    BY <1>3, <2>2, DoneKept DEF AddField
<1>4. CASE ~PresentButNotChild(tree, m, f) /\ ~CanRegister(tree, m, f)
  <2>1. Refuse(RefusedField(tree, m, f))
    BY <1>4 DEF AddField
  <2>2. RefusedField(tree, m, f) = tree
    BY <1>1, RefusedFieldSame DEF Sound
  <2> QED
    BY <2>1, <2>2, RefusedKept
<1> QED
  BY <1>2, <1>3, <1>4

\* A choice enters its oneof and the message above, where it leaves what it is listed in.
LEMMA ChoiceEntered ==
  ASSUME NEW t, Sound(t), NEW o \in Oneofs, NEW f \in Fields, t.group[f] = NoBuilder,
         NEW v, v \in Trees, v.name = t.name, v.parent = t.parent, v.kids = t.kids,
         v.number = t.number, v.group = t.group,
         \A q \in Parents, n \in Names : v.symbols[q][n] =
           IF (q = o \/ q = t.parent[o]) /\ n = t.name[f] THEN f ELSE t.symbols[q][n],
         \A q \in Messages, i \in 1..MaxTag : v.tags[q][i] =
           IF q = t.parent[o] /\ i = t.number[f] THEN f ELSE t.tags[q][i]
  PROVE  Fits(t, o, f) /\ Entered(t, v, o, f)
<1> DEFINE m == t.parent[o]
           J(q) == Joins(t, o, f, q)
<1>1. o \in Parents /\ o \notin Plain \cup Messages /\ f \in Builders
  BY KindFacts
<1>2. \A q \in Parents : J(q) = IF q = o \/ q = m THEN {f} ELSE {}
  BY JoinsChoice
<1>3. \A q \in Messages : J(q) \cap Fields = IF q = m THEN {f} ELSE {}
  BY <1>1, <1>2, KindFacts
<1> HIDE DEF J, m
<1>4. ASSUME NEW q \in Parents, NEW n \in Names
      PROVE  /\ \A c \in J(q) : t.name[c] = n => v.symbols[q][n] = c
             /\ (\A c \in J(q) : t.name[c] # n) => v.symbols[q][n] = t.symbols[q][n]
  BY <1>2 DEF m
<1>5. ASSUME NEW q \in Messages, NEW i \in 1..MaxTag
      PROVE  /\ \A c \in J(q) \cap Fields : t.number[c] = i => v.tags[q][i] = c
             /\ (\A c \in J(q) \cap Fields : t.number[c] # i) => v.tags[q][i] = t.tags[q][i]
  BY <1>3 DEF m
<1> QED
  BY <1>1, <1>4, <1>5 DEF Fits, Entered, J

LEMMA ChoiceVacant ==
  ASSUME NEW t, NEW o \in Oneofs, NEW f \in Fields, Free(t, o, t.name[f]),
         t.parent[o] \in Messages =>
           Free(t, t.parent[o], t.name[f]) /\ TagFree(t, t.parent[o], t.number[f]),
         t.parent[o] \in Messages \cup {NoBuilder}
  PROVE  Vacant(t, o, f)
<1>1. \A q \in Parents : Joins(t, o, f, q) = IF q = o \/ q = t.parent[o] THEN {f} ELSE {}
  BY JoinsChoice
<1>2. o \notin Messages /\ NoBuilder \notin Parents
  BY KindFacts
<1> QED
  BY <1>1, <1>2 DEF Vacant, Free

LEMMA AddChoiceKept ==
  ASSUME Careful, Good(tree), NEW o, NEW f, AddChoice(o, f), ~AvoidedAdd(o, f)
  PROVE  Kept
<1> DEFINE m == tree.parent[o]
           s == WithSymbol(tree, o, f)
<1>1. /\ o \in Oneofs /\ f \in Fields /\ o \in Parents /\ f \in Builders /\ Sound(tree) /\ tree \in Trees
      /\ o \notin Messages /\ m \in Messages \cup {NoBuilder} /\ tree.name[f] \in Names
      /\ tree.parent[f] # f
  <2>1. o \in Oneofs /\ f \in Fields /\ Sound(tree) /\ tree \in Trees
    BY DEF AddChoice, Good, Sound
  <2>2. o \in Parents /\ f \in Builders /\ o \notin Messages
    BY <2>1, KindFacts
  <2>3. m \in Messages \cup {NoBuilder} /\ tree.parent[f] # f
    BY <2>1, AboveFacts, KindFacts
  <2> QED
    BY <2>1, <2>2, <2>3, TreeTypes
<1>2. tree.group[f] = NoBuilder /\ (m = NoBuilder => tree.parent[f] = NoBuilder)
  BY <1>1 DEF AvoidedAdd, Careful, Pitfalls
<1>3. /\ s \in Trees
      /\ s.name = tree.name /\ s.parent = tree.parent /\ s.kids = tree.kids
      /\ s.number = tree.number /\ s.tags = tree.tags /\ s.group = tree.group
      /\ \A q \in Parents, n \in Names :
           s.symbols[q][n] = IF q = o /\ n = tree.name[f] THEN f ELSE tree.symbols[q][n]
  BY <1>1, WithSymbolFields
<1>4. /\ ~Free(tree, o, tree.name[f]) => Refuse(tree)
      /\ Free(tree, o, tree.name[f]) =>
           IF m = NoBuilder THEN Done(Linked(s, o, f))
           ELSE IF PresentButNotChild(tree, m, f)
           THEN IF CanRegister(Unlinked(s, f), m, f)
                THEN Done(Linked(RegisteredField(Unlinked(s, f), m, f), o, f))
                ELSE Refuse(RefusedField(Unlinked(s, f), m, f))
           ELSE IF CanRegister(tree, m, f)
           THEN Done(Linked(Unlinked(RegisteredField(s, m, f), f), o, f))
           ELSE Refuse(WithoutSymbol(RefusedField(s, m, f), o, tree.name[f]))
  BY DEF AddChoice
<1> HIDE DEF s
<1>5. CASE ~Free(tree, o, tree.name[f])
  BY <1>4, <1>5, RefusedKept
<1>6. CASE Free(tree, o, tree.name[f]) /\ m = NoBuilder
  <2>1. Loose(tree, f)
    BY <1>2, <1>6, KindFacts DEF Loose, Through
  <2>2. \A q \in Parents, n \in Names : s.symbols[q][n] =
          IF (q = o \/ q = m) /\ n = tree.name[f] THEN f ELSE tree.symbols[q][n]
    BY <1>3, <1>6, KindFacts
  <2>3. \A q \in Messages, i \in 1..MaxTag : s.tags[q][i] =
          IF q = m /\ i = tree.number[f] THEN f ELSE tree.tags[q][i]
    BY <1>3, <1>6, KindFacts
  <2>4. Fits(tree, o, f) /\ Entered(tree, s, o, f)
    BY <1>1, <1>2, <1>3, <2>2, <2>3, ChoiceEntered
  <2>5. Vacant(tree, o, f)
    BY <1>1, <1>6, ChoiceVacant, KindFacts
  <2>6. Good(Linked(s, o, f))
    BY <2>1, <2>4, <2>5, LinkedGood
  <2> QED
    BY <1>4, <1>6, <2>6, DoneKept
<1>7. CASE Free(tree, o, tree.name[f]) /\ m # NoBuilder /\ PresentButNotChild(tree, m, f)
  <2> DEFINE u == Unlinked(tree, f)
             v == Unlinked(s, f)
             w == RegisteredField(v, m, f)
  <2>0. /\ IF CanRegister(v, m, f) THEN Done(Linked(w, o, f)) ELSE Refuse(RefusedField(v, m, f))
        /\ m \in Messages /\ m \in Parents /\ m # o
    BY <1>1, <1>4, <1>7, KindFacts
  <2>1. Apart(tree, u, f) /\ Good(u)
    BY <1>1, UnlinkedApart, UnlinkedGood
  <2>2. Sound(s) /\ \A q \in Parents : Leaving(s, f, q) = Leaving(tree, f, q)
    BY <1>1, <1>3, SameStructure
  <2>3. Apart(s, v, f)
    BY <1>1, <2>2, UnlinkedApart
  <2> HIDE DEF u, v
  <2>4. Sound(u) /\ Loose(u, f)
    BY <1>1, <2>1, ApartSound
  <2>5. /\ v \in Trees /\ v.name = u.name /\ v.parent = u.parent /\ v.kids = u.kids
        /\ v.number = u.number /\ v.group = u.group
    BY <1>3, <2>1, <2>3 DEF Apart
  <2>6. u.name = tree.name /\ u.number = tree.number /\ u.parent[o] = m /\ u.group[f] = NoBuilder
    <3>1. f # o
      BY <1>1, KindFacts
    <3>2. o \in Builders
      BY <1>1, KindFacts
    <3> QED
      BY <1>1, <1>2, <2>1, <3>1, <3>2, ApartFields
  <2>7. /\ w \in Trees
        /\ w.name = v.name /\ w.parent = v.parent /\ w.kids = v.kids
        /\ w.number = v.number /\ w.group = v.group
        /\ \A q \in Parents, n \in Names : w.symbols[q][n] =
             IF q = m /\ v.group[f] # NoBuilder /\ n = v.name[v.group[f]] THEN v.group[f]
             ELSE IF q = m /\ n = v.name[f] THEN f ELSE v.symbols[q][n]
        /\ \A q \in Messages, i \in 1..MaxTag : w.tags[q][i] =
             IF q = m /\ i = v.number[f] THEN f ELSE v.tags[q][i]
    <3>1. v \in Trees /\ m \in Messages /\ f \in Fields
      BY <1>1, <2>0, <2>5
    <3> HIDE DEF m
    <3> QED
      BY <3>1, RegisteredFieldFields
  <2> HIDE DEF w
  <2>8. Cleared(tree, u, f) /\ Cleared(s, v, f)
    BY <2>1, <2>3 DEF Apart
  <2>9. Leaving(tree, f, o) = {}
    <3>1. SUFFICES ASSUME NEW c \in Builders, In(tree, o, c), c = f \/ tree.parent[c] = f
                   PROVE  FALSE
      BY DEF Leaving
    <3>2. tree.parent[c] = o
      BY <1>1, <3>1 DEF In
    <3>3. c = f
      BY <1>1, <3>1, <3>2, KindFacts
    <3>4. tree.symbols[o][tree.name[f]] = f
      BY <1>1, <3>1, <3>3 DEF Good, SymbolsMatch
    <3> QED
      BY <1>1, <1>7, <3>4, KindFacts DEF Free
  <2>10. ASSUME NEW q \in Parents, NEW n \in Names
         PROVE  w.symbols[q][n] =
                  IF (q = o \/ q = u.parent[o]) /\ n = u.name[f] THEN f ELSE u.symbols[q][n]
    <3> DEFINE L == Leaving(tree, f, q)
    <3>1. /\ v.symbols[q][n] = IF \E c \in L : tree.name[c] = n THEN NoBuilder ELSE s.symbols[q][n]
          /\ u.symbols[q][n] = IF \E c \in L : tree.name[c] = n THEN NoBuilder ELSE tree.symbols[q][n]
      BY <1>3, <2>2, <2>8 DEF Cleared
    <3>2. w.symbols[q][n] = IF q = m /\ n = tree.name[f] THEN f ELSE v.symbols[q][n]
      BY <2>5, <2>6, <2>7
    <3>3. q = o => L = {}
      BY <2>9
    <3> HIDE DEF L, m
    <3> QED
      BY <1>3, <2>0, <2>6, <3>1, <3>2, <3>3
  <2>11. ASSUME NEW q \in Messages, NEW i \in 1..MaxTag
         PROVE  w.tags[q][i] = IF q = u.parent[o] /\ i = u.number[f] THEN f ELSE u.tags[q][i]
    <3>1. q \in Parents
      BY KindFacts
    <3>2. v.tags[q][i] = u.tags[q][i]
      BY <1>3, <2>2, <2>8, <3>1 DEF Cleared
    <3> QED
      BY <2>5, <2>6, <2>7, <3>2
  <2>12. Fits(u, o, f) /\ Entered(u, w, o, f)
    BY <1>1, <2>4, <2>5, <2>6, <2>7, <2>10, <2>11, ChoiceEntered
  <2>13. Vacant(u, o, f)
    <3>1. u.symbols[o][tree.name[f]] = NoBuilder
      BY <1>1, <1>7, <2>8 DEF Cleared, Free
    <3>2. u.symbols[m][u.name[f]] = NoBuilder /\ TagFree(u, m, u.number[f])
      BY <1>1, <1>7, <2>0, <2>1, GoneVacant DEF PresentButNotChild
    <3> QED
      BY <1>1, <2>0, <2>6, <3>1, <3>2, ChoiceVacant DEF Free
  <2>14. Good(Linked(w, o, f))
    BY <2>1, <2>4, <2>12, <2>13, LinkedGood
  <2>15. CanRegister(v, m, f)
    <3>1. u.symbols[m][u.name[f]] = NoBuilder /\ TagFree(u, m, u.number[f])
      BY <1>1, <1>7, <2>0, <2>1, GoneVacant DEF PresentButNotChild
    <3>2. v.symbols[m][tree.name[f]] = u.symbols[m][tree.name[f]]
      BY <1>1, <1>3, <2>0, <2>2, <2>8 DEF Cleared
    <3>3. v.number[f] # 0 => v.tags[m][v.number[f]] = NoBuilder
      <4>1. ASSUME v.number[f] # 0
            PROVE  v.tags[m][v.number[f]] = NoBuilder
        <5>1. PICK k \in 0..MaxTag : k = v.number[f]
          BY <1>1, <2>5, TreeTypes
        <5>2. k \in 1..MaxTag
          BY <4>1, <5>1, BuilderAssumption
        <5>3. v.tags[m][k] = u.tags[m][k]
          BY <1>3, <2>0, <2>2, <2>8, <5>2 DEF Cleared
        <5>4. u.tags[m][k] = NoBuilder
          BY <2>5, <3>1, <4>1, <5>1 DEF TagFree
        <5> QED
          BY <5>1, <5>3, <5>4
      <4> QED
        BY <4>1
    <3> QED
      BY <2>5, <2>6, <3>1, <3>2, <3>3 DEF CanRegister, Free, TagFree
  <2> QED
    BY <2>0, <2>14, <2>15, DoneKept
<1>8. CASE /\ Free(tree, o, tree.name[f]) /\ m # NoBuilder
           /\ ~PresentButNotChild(tree, m, f) /\ CanRegister(tree, m, f)
  <2> DEFINE w == RegisteredField(s, m, f)
  <2>0. Done(Linked(Unlinked(w, f), o, f)) /\ m \in Messages /\ m # o
    BY <1>1, <1>4, <1>8
  <2>1. /\ w \in Trees
        /\ w.name = s.name /\ w.parent = s.parent /\ w.kids = s.kids
        /\ w.number = s.number /\ w.group = s.group
        /\ \A q \in Parents, n \in Names : w.symbols[q][n] =
             IF q = m /\ s.group[f] # NoBuilder /\ n = s.name[s.group[f]] THEN s.group[f]
             ELSE IF q = m /\ n = s.name[f] THEN f ELSE s.symbols[q][n]
        /\ \A q \in Messages, i \in 1..MaxTag : w.tags[q][i] =
             IF q = m /\ i = s.number[f] THEN f ELSE s.tags[q][i]
    <3>1. s \in Trees /\ m \in Messages /\ f \in Fields
      BY <1>1, <1>3, <2>0
    <3> HIDE DEF m
    <3> QED
      BY <3>1, RegisteredFieldFields
  <2> HIDE DEF w
  <2>2. \A q \in Parents, n \in Names : w.symbols[q][n] =
          IF (q = o \/ q = m) /\ n = tree.name[f] THEN f ELSE tree.symbols[q][n]
    BY <1>2, <1>3, <2>1
  <2>3. \A q \in Messages, i \in 1..MaxTag : w.tags[q][i] =
          IF q = m /\ i = tree.number[f] THEN f ELSE tree.tags[q][i]
    BY <1>3, <2>1
  <2>4. Fits(tree, o, f) /\ Entered(tree, w, o, f)
    BY <1>1, <1>2, <1>3, <2>1, <2>2, <2>3, ChoiceEntered
  <2>5. Vacant(tree, o, f)
    BY <1>1, <1>8, ChoiceVacant DEF CanRegister
  <2>6. Good(Linked(Unlinked(w, f), o, f))
    BY <2>4, <2>5, MovedGood
  <2> QED
    BY <2>0, <2>6, DoneKept
<1>9. CASE /\ Free(tree, o, tree.name[f]) /\ m # NoBuilder
           /\ ~PresentButNotChild(tree, m, f) /\ ~CanRegister(tree, m, f)
  <2>1. Refuse(WithoutSymbol(RefusedField(s, m, f), o, tree.name[f])) /\ m \in Messages
    BY <1>1, <1>4, <1>9
  <2>2. RefusedField(s, m, f) = s
    <3> HIDE DEF m
    <3> QED
      BY <1>1, <1>3, <2>1, RefusedFieldSame
  <2>3. WithoutSymbol(s, o, tree.name[f]) = tree
    BY <1>1, <1>9, SymbolUndone DEF s
  <2> QED
    BY <2>1, <2>2, <2>3, RefusedKept
<1> QED
  BY <1>5, <1>6, <1>7, <1>8, <1>9

\* The element of a set that has a name, and the field that has a number.
Called(t, set, n) == CHOOSE b \in set : t.name[b] = n
Numbered(t, set, i) == CHOOSE f \in set \cap Fields : t.number[f] = i

LEMMA ListedFields ==
  ASSUME NEW t \in Trees, NEW m \in Messages, NEW set \in SUBSET Builders
  PROVE  LET u == Listed(t, m, set) IN
         /\ u \in Trees
         /\ u.name = t.name /\ u.parent = t.parent /\ u.kids = t.kids
         /\ u.number = t.number /\ u.group = t.group
         /\ \A q \in Parents, n \in Names : u.symbols[q][n] =
              IF q = m /\ n \in NamesOf(t, set) THEN Called(t, set, n)
              ELSE t.symbols[q][n]
         /\ \A q \in Messages, i \in 1..MaxTag : u.tags[q][i] =
              IF q = m /\ i \in NumbersOf(t, set \cap Fields)
              THEN Numbered(t, set, i)
              ELSE t.tags[q][i]
<1> DEFINE S == [n \in Names |->
             IF n \in NamesOf(t, set) THEN Called(t, set, n) ELSE t.symbols[m][n]]
           T == [i \in 1..MaxTag |->
             IF i \in NumbersOf(t, set \cap Fields) THEN Numbered(t, set, i)
             ELSE t.tags[m][i]]
           SS == [t.symbols EXCEPT ![m] = S]
           TT == [t.tags EXCEPT ![m] = T]
           v == NewSymbols(t, SS)
<1>1. m \in Parents /\ t.symbols[m] \in [Names -> Builders \cup {NoBuilder}]
      /\ t.tags[m] \in [1..MaxTag -> Fields \cup {NoBuilder}]
  BY TreeTypes DEF Parents
<1>2. S \in [Names -> Builders \cup {NoBuilder}] /\ T \in [1..MaxTag -> Fields \cup {NoBuilder}]
  <2>1. ASSUME NEW n \in NamesOf(t, set)
        PROVE  Called(t, set, n) \in Builders
    <3>1. \E b \in set : t.name[b] = n
      BY DEF NamesOf
    <3> QED
      BY <3>1 DEF Called
  <2>2. ASSUME NEW i \in NumbersOf(t, set \cap Fields)
        PROVE  Numbered(t, set, i) \in Fields
    <3>1. \E f \in set \cap Fields : t.number[f] = i
      BY DEF NumbersOf
    <3> QED
      BY <3>1 DEF Numbered
  <2>3. S \in [Names -> Builders \cup {NoBuilder}]
    BY <1>1, <2>1
  <2>4. T \in [1..MaxTag -> Fields \cup {NoBuilder}]
    BY <1>1, <2>2
  <2> QED
    BY <2>3, <2>4
<1>3. Listed(t, m, set) = NewTags(v, [v.tags EXCEPT ![m] = T])
  BY DEF Listed, NewTags, NewSymbols, Called, Numbered
<1> HIDE DEF S, T
<1>4. SS \in [Parents -> [Names -> Builders \cup {NoBuilder}]] /\ TT \in [Messages -> [1..MaxTag -> Fields \cup {NoBuilder}]]
  BY <1>1, <1>2, TreeTypes
<1>5. /\ v \in Trees /\ v.symbols = SS
      /\ v.name = t.name /\ v.parent = t.parent /\ v.kids = t.kids
      /\ v.number = t.number /\ v.tags = t.tags /\ v.group = t.group
  <2> HIDE DEF SS
  <2> QED
    BY <1>4, NewSymbolsFields
<1>6. Listed(t, m, set) = NewTags(v, TT)
  BY <1>3, <1>5
<1> HIDE DEF v, TT
<1>7. LET u == NewTags(v, TT) IN
      /\ u \in Trees /\ u.tags = TT
      /\ u.name = v.name /\ u.parent = v.parent /\ u.kids = v.kids
      /\ u.symbols = v.symbols /\ u.number = v.number /\ u.group = v.group
  BY <1>4, <1>5, NewTagsFields
<1>8. ASSUME NEW q \in Parents, NEW n \in Names
      PROVE  SS[q][n] = IF q = m /\ n \in NamesOf(t, set) THEN Called(t, set, n)
                        ELSE t.symbols[q][n]
  <2>1. SS[q] = IF q = m THEN S ELSE t.symbols[q]
    BY <1>1, TreeTypes
  <2> HIDE DEF SS
  <2> QED
    BY <2>1 DEF S
<1>9. ASSUME NEW q \in Messages, NEW i \in 1..MaxTag
      PROVE  TT[q][i] = IF q = m /\ i \in NumbersOf(t, set \cap Fields)
                        THEN Numbered(t, set, i) ELSE t.tags[q][i]
  <2>1. TT[q] = IF q = m THEN T ELSE t.tags[q]
    BY TreeTypes DEF TT
  <2> QED
    BY <2>1 DEF T
<1> DEFINE u == NewTags(v, TT)
<1>10. /\ u \in Trees /\ u.name = t.name /\ u.parent = t.parent /\ u.kids = t.kids
       /\ u.number = t.number /\ u.group = t.group /\ u.symbols = SS /\ u.tags = TT
  BY <1>5, <1>7
<1>11. Listed(t, m, set) = u
  BY <1>6
<1> HIDE DEF u, SS
<1>12. \A q \in Parents, n \in Names : u.symbols[q][n] =
         IF q = m /\ n \in NamesOf(t, set) THEN Called(t, set, n) ELSE t.symbols[q][n]
  BY <1>8, <1>10
<1>13. \A q \in Messages, i \in 1..MaxTag : u.tags[q][i] =
         IF q = m /\ i \in NumbersOf(t, set \cap Fields) THEN Numbered(t, set, i) ELSE t.tags[q][i]
  BY <1>9, <1>10
<1> QED
  BY <1>10, <1>11, <1>12, <1>13, Zenon

\* The first j choices of o, and o.
Upto(t, o, j) == {t.kids[o][i] : i \in 1..j} \cup {o}

LEMMA ChoiceFacts ==
  ASSUME NEW t, Sound(t), NEW o \in Oneofs
  PROVE  /\ Len(t.kids[o]) \in Nat
         /\ \A i \in 1..Len(t.kids[o]) :
              /\ t.kids[o][i] \in Fields /\ t.kids[o][i] \in Builders
              /\ t.parent[t.kids[o][i]] = o /\ t.group[t.kids[o][i]] = NoBuilder
         /\ \A j \in 0..Len(t.kids[o]) :
              Upto(t, o, j) \in SUBSET Builders /\ Upto(t, o, j) \cap Fields = Upto(t, o, j) \ {o}
<1>1. t \in Trees /\ o \in Parents /\ o \in Builders /\ o \notin Fields
  BY KindFacts DEF Sound
<1>2. t.kids[o] \in Seq(Builders)
  BY <1>1, TreeTypes
<1>3. ASSUME NEW i \in 1..Len(t.kids[o])
      PROVE  /\ t.kids[o][i] \in Fields /\ t.kids[o][i] \in Builders
             /\ t.parent[t.kids[o][i]] = o /\ t.group[t.kids[o][i]] = NoBuilder
  <2>1. t.kids[o][i] \in Builders /\ t.parent[t.kids[o][i]] = o
    BY <1>1, <1>2 DEF Sound, Ordered
  <2>2. t.kids[o][i] \in Fields
    BY <2>1 DEF Sound, Kinds
  <2> QED
    BY <2>1, <2>2, AboveFacts
<1>4. Len(t.kids[o]) \in Nat
  BY <1>2
<1>5. ASSUME NEW j \in 0..Len(t.kids[o])
      PROVE  Upto(t, o, j) \in SUBSET Builders /\ Upto(t, o, j) \cap Fields = Upto(t, o, j) \ {o}
  <2>1. \A i \in 1..j : i \in 1..Len(t.kids[o])
    BY <1>4
  <2>2. \A i \in 1..j : t.kids[o][i] \in Fields /\ t.kids[o][i] \in Builders
    BY <1>3, <2>1
  <2> QED
    BY <1>1, <2>2 DEF Upto
<1> QED
  BY <1>3, <1>4, <1>5

LEMMA RegisteredUpToIs ==
  ASSUME Sound(tree), NEW o \in Oneofs, NEW m \in Messages, NEW j \in 0..Len(tree.kids[o])
  PROVE  RegisteredUpTo(m, o, j) = Listed(tree, m, Upto(tree, o, j))
<1> DEFINE C == {tree.kids[o][i] : i \in 1..j}
<1>1. Len(tree.kids[o]) \in Nat /\ \A i \in 1..Len(tree.kids[o]) : tree.group[tree.kids[o][i]] = NoBuilder
  BY ChoiceFacts
<1>2. \A i \in 1..j : i \in 1..Len(tree.kids[o])
  BY <1>1
<1>3. \A f \in C : tree.group[f] = NoBuilder
  BY <1>1, <1>2
<1>4. {tree.group[f] : f \in C} \ {NoBuilder} = {}
  BY <1>3
<1>5. C \cup {o} \cup ({tree.group[f] : f \in C} \ {NoBuilder}) = Upto(tree, o, j)
  BY <1>4 DEF Upto
<1> HIDE DEF C
<1> QED
  BY <1>5 DEF RegisteredUpTo, C

\* There is a first conflict.
LEMMA ConflictFacts ==
  ASSUME Sound(tree), NEW o \in Oneofs, NEW m \in Messages
  PROVE  LET i == Conflict(m, o)
             ok(j) == CanRegister(RegisteredUpTo(m, o, j - 1), m, tree.kids[o][j]) IN
         /\ i \in 1..Len(tree.kids[o]) + 1
         /\ i <= Len(tree.kids[o]) => ~ok(i)
         /\ \A j \in 1..i - 1 : ok(j)
<1> DEFINE n == Len(tree.kids[o])
           ok(j) == CanRegister(RegisteredUpTo(m, o, j - 1), m, tree.kids[o][j])
           P(i) == (i <= n => ~ok(i)) /\ \A j \in 1..i - 1 : ok(j)
           T == {i \in 1..n + 1 : i <= n => ~ok(i)}
<1>1. n \in Nat
  BY ChoiceFacts
<1> HIDE DEF n, ok
<1>2. n + 1 \in T /\ T \in SUBSET Nat
  BY <1>1
<1>3. PICK i \in T : \A j \in T : i <= j
  BY <1>2, LeastNatural
<1>4. i \in 1..n + 1 /\ P(i)
  <2>1. i \in 1..n + 1 /\ (i <= n => ~ok(i))
    BY <1>3
  <2>2. ASSUME NEW j \in 1..i - 1
        PROVE  ok(j)
    <3>1. j \in 1..n + 1 /\ j <= n /\ ~(i <= j)
      BY <1>1, <2>1
    <3>2. j \notin T
      BY <1>3, <3>1
    <3> QED
      BY <3>1, <3>2
  <2> QED
    BY <2>1, <2>2
<1>5. Conflict(m, o) = CHOOSE k \in 1..n + 1 : P(k)
  BY DEF Conflict, n, ok
<1>6. Conflict(m, o) \in 1..n + 1 /\ P(Conflict(m, o))
  BY <1>4, <1>5
<1> QED
  BY <1>6 DEF n, ok

\* What is not in conflict with what is listed so far.
LEMMA CanRegisterListed ==
  ASSUME NEW t \in Trees, NEW m \in Messages, NEW set \in SUBSET Builders, NEW f \in Fields,
         CanRegister(Listed(t, m, set), m, f)
  PROVE  /\ Free(t, m, t.name[f]) /\ TagFree(t, m, t.number[f])
         /\ t.name[f] \notin NamesOf(t, set)
         /\ t.number[f] # 0 => t.number[f] \notin NumbersOf(t, set \cap Fields)
<1> DEFINE u == Listed(t, m, set)
<1>1. /\ u.name = t.name /\ u.number = t.number
      /\ \A q \in Parents, n \in Names : u.symbols[q][n] =
           IF q = m /\ n \in NamesOf(t, set) THEN Called(t, set, n) ELSE t.symbols[q][n]
      /\ \A q \in Messages, i \in 1..MaxTag : u.tags[q][i] =
           IF q = m /\ i \in NumbersOf(t, set \cap Fields) THEN Numbered(t, set, i) ELSE t.tags[q][i]
  BY ListedFields
<1>2. u.symbols[m][u.name[f]] = NoBuilder /\ (u.number[f] # 0 => u.tags[m][u.number[f]] = NoBuilder)
  BY DEF CanRegister, Free, TagFree
<1> HIDE DEF u
<1>3. m \in Parents /\ f \in Builders /\ t.name[f] \in Names
  BY TreeTypes, KindFacts
<1>4. t.name[f] \notin NamesOf(t, set)
  <2>1. ASSUME t.name[f] \in NamesOf(t, set)
        PROVE  FALSE
    <3>1. Called(t, set, t.name[f]) \in Builders
      BY <2>1 DEF NamesOf, Called
    <3> QED
      BY <1>1, <1>2, <1>3, <2>1, <3>1, KindFacts
  <2> QED
    BY <2>1
<1>5. Free(t, m, t.name[f])
  BY <1>1, <1>2, <1>3, <1>4 DEF Free
<1>6. ASSUME t.number[f] # 0
      PROVE  t.number[f] \notin NumbersOf(t, set \cap Fields) /\ t.tags[m][t.number[f]] = NoBuilder
  <2>1. PICK k \in 1..MaxTag : k = t.number[f]
    <3>1. t.number[f] \in 0..MaxTag
      BY TreeTypes
    <3> QED
      BY <1>6, <3>1, BuilderAssumption
  <2>2. u.tags[m][k] = NoBuilder
    BY <1>1, <1>2, <1>6, <2>1
  <2>3. k \notin NumbersOf(t, set \cap Fields)
    <3>1. ASSUME k \in NumbersOf(t, set \cap Fields)
          PROVE  FALSE
      <4>1. Numbered(t, set, k) \in Fields
        BY <3>1 DEF NumbersOf, Numbered
      <4> QED
        BY <1>1, <2>1, <2>2, <3>1, <4>1, KindFacts
    <3> QED
      BY <3>1
  <2> QED
    BY <1>1, <2>1, <2>2, <2>3
<1> QED
  BY <1>4, <1>5, <1>6 DEF TagFree

LEMMA OneofEntered ==
  ASSUME Good(tree), NEW m \in Messages, NEW o \in Oneofs, Free(tree, m, tree.name[o]),
         Conflict(m, o) = Len(tree.kids[o]) + 1
  PROVE  /\ Fits(tree, m, o) /\ Vacant(tree, m, o)
         /\ Entered(tree, RegisteredUpTo(m, o, Len(tree.kids[o])), m, o)
<1> DEFINE n == Len(tree.kids[o])
           kid(j) == tree.kids[o][j]
           all == Upto(tree, o, n)
           v == Listed(tree, m, all)
<1>1. /\ Sound(tree) /\ tree \in Trees /\ Ordered(tree) /\ m \in Parents /\ m \notin Plain \cup Oneofs
      /\ o \in Builders /\ o \in Parents /\ o \notin Fields
  BY KindFacts DEF Good, Sound
<1>2. /\ n \in Nat
      /\ \A i \in 1..n : kid(i) \in Fields /\ kid(i) \in Builders /\ tree.parent[kid(i)] = o
      /\ \A j \in 0..n : Upto(tree, o, j) \in SUBSET Builders
                         /\ Upto(tree, o, j) \cap Fields = Upto(tree, o, j) \ {o}
  BY <1>1, ChoiceFacts
<1>3. ASSUME NEW j \in 1..n
      PROVE  LET set == Upto(tree, o, j - 1) IN
             /\ Free(tree, m, tree.name[kid(j)]) /\ TagFree(tree, m, tree.number[kid(j)])
             /\ tree.name[kid(j)] \notin NamesOf(tree, set)
             /\ tree.number[kid(j)] # 0 => tree.number[kid(j)] \notin NumbersOf(tree, set \cap Fields)
  <2>1. j \in 1..Conflict(m, o) - 1 /\ j - 1 \in 0..n
    BY <1>2
  <2>2. CanRegister(RegisteredUpTo(m, o, j - 1), m, kid(j))
    BY <1>1, <2>1, ConflictFacts
  <2>3. RegisteredUpTo(m, o, j - 1) = Listed(tree, m, Upto(tree, o, j - 1))
    BY <1>1, <2>1, RegisteredUpToIs
  <2> DEFINE set == Upto(tree, o, j - 1)
             f == kid(j)
  <2>4. set \in SUBSET Builders /\ f \in Fields /\ CanRegister(Listed(tree, m, set), m, f)
    BY <1>2, <2>1, <2>2, <2>3
  <2> HIDE DEF set, f, kid
  <2>5. /\ Free(tree, m, tree.name[f]) /\ TagFree(tree, m, tree.number[f])
        /\ tree.name[f] \notin NamesOf(tree, set)
        /\ tree.number[f] # 0 => tree.number[f] \notin NumbersOf(tree, set \cap Fields)
    BY <1>1, <2>4, CanRegisterListed
  <2> QED
    BY <2>5 DEF set, f
<1>4. all = {o} \cup {kid(j) : j \in 1..n}
  BY DEF Upto
<1>5. all = {o} \cup {c \in Builders : tree.parent[c] = o}
  <2>1. \A c \in Builders : tree.parent[c] = o => \E j \in 1..n : kid(j) = c
    BY <1>1 DEF Ordered
  <2> HIDE DEF kid, n, all
  <2> QED
    BY <1>2, <1>4, <2>1
<1>6. \A q \in Parents : Joins(tree, m, o, q) = IF q = m THEN all ELSE {}
  <2>1. \A q \in Parents : Joins(tree, m, o, q) =
          IF q = m THEN {o} \cup {c \in Builders : tree.parent[c] = o} ELSE {}
    BY JoinsOneof
  <2> HIDE DEF all
  <2> QED
    BY <1>5, <2>1
<1>7. ASSUME NEW c \in all, NEW d \in all, tree.name[c] = tree.name[d]
      PROVE  c = d
  <2>1. ASSUME NEW j \in 1..n
        PROVE  tree.name[kid(j)] # tree.name[o] /\ \A i \in 1..j - 1 : tree.name[kid(i)] # tree.name[kid(j)]
    <3>1. tree.name[kid(j)] \notin NamesOf(tree, Upto(tree, o, j - 1))
      BY <1>3
    <3> QED
      BY <3>1 DEF NamesOf, Upto
  <2>2. ASSUME NEW i \in 1..n, NEW j \in 1..n, tree.name[kid(i)] = tree.name[kid(j)]
        PROVE  i = j
    <3>1. ~(i < j) /\ ~(j < i)
      BY <1>2, <2>1, <2>2
    <3> QED
      BY <1>2, <3>1
  <2> HIDE DEF kid, all
  <2> QED
    BY <1>4, <1>7, <2>1, <2>2
<1>8. ASSUME NEW c \in all \ {o}, NEW d \in all \ {o}, tree.number[c] = tree.number[d], tree.number[c] # 0
      PROVE  c = d
  <2>1. ASSUME NEW j \in 1..n, tree.number[kid(j)] # 0
        PROVE  \A i \in 1..j - 1 : tree.number[kid(i)] # tree.number[kid(j)]
    <3>1. tree.number[kid(j)] \notin NumbersOf(tree, Upto(tree, o, j - 1) \cap Fields)
      BY <1>3, <2>1
    <3>2. \A i \in 1..j - 1 : kid(i) \in Upto(tree, o, j - 1) \cap Fields
      BY <1>2 DEF Upto
    <3> QED
      BY <3>1, <3>2 DEF NumbersOf
  <2>2. ASSUME NEW i \in 1..n, NEW j \in 1..n, tree.number[kid(i)] = tree.number[kid(j)], tree.number[kid(i)] # 0
        PROVE  i = j
    <3>1. ~(i < j) /\ ~(j < i)
      BY <1>2, <2>1, <2>2
    <3> QED
      BY <1>2, <3>1
  <2> HIDE DEF kid, all
  <2> QED
    BY <1>4, <1>8, <2>2
<1>9. Fits(tree, m, o)
  BY <1>1 DEF Fits
<1>10. Vacant(tree, m, o)
  <2>1. ASSUME NEW c \in all
        PROVE  /\ tree.symbols[m][tree.name[c]] = NoBuilder
               /\ c \in Fields => TagFree(tree, m, tree.number[c])
    <3>1. CASE c = o
      BY <1>1, <3>1 DEF Free
    <3>2. CASE c # o
      <4>1. PICK j \in 1..n : c = kid(j)
        BY <1>4, <3>2
      <4> QED
        BY <1>3, <4>1 DEF Free
    <3> QED
      BY <3>1, <3>2
  <2> HIDE DEF all
  <2> QED
    BY <1>6, <2>1 DEF Vacant
<1>11. /\ v \in Trees
       /\ v.name = tree.name /\ v.parent = tree.parent /\ v.kids = tree.kids
       /\ v.number = tree.number /\ v.group = tree.group
       /\ \A q \in Parents, k \in Names : v.symbols[q][k] =
            IF q = m /\ k \in NamesOf(tree, all) THEN Called(tree, all, k) ELSE tree.symbols[q][k]
       /\ \A q \in Messages, i \in 1..MaxTag : v.tags[q][i] =
            IF q = m /\ i \in NumbersOf(tree, all \cap Fields) THEN Numbered(tree, all, i) ELSE tree.tags[q][i]
  <2>1. all \in SUBSET Builders
    BY <1>2
  <2> HIDE DEF all
  <2> QED
    BY <1>1, <2>1, ListedFields
<1>12. all \cap Fields = all \ {o}
  BY <1>2
<1> HIDE DEF v, all
<1>13. Entered(tree, v, m, o)
  <2>1. ASSUME NEW q \in Parents, NEW k \in Names
        PROVE  /\ \A c \in Joins(tree, m, o, q) : tree.name[c] = k => v.symbols[q][k] = c
               /\ (\A c \in Joins(tree, m, o, q) : tree.name[c] # k) => v.symbols[q][k] = tree.symbols[q][k]
    <3>1. \A c \in all : tree.name[c] = k => k \in NamesOf(tree, all) /\ Called(tree, all, k) = c
      BY <1>7 DEF NamesOf, Called
    <3>2. (\A c \in all : tree.name[c] # k) => k \notin NamesOf(tree, all)
      BY DEF NamesOf
    <3> QED
      BY <1>6, <1>11, <3>1, <3>2
  <2>2. ASSUME NEW q \in Messages, NEW i \in 1..MaxTag
        PROVE  /\ \A c \in Joins(tree, m, o, q) \cap Fields : tree.number[c] = i => v.tags[q][i] = c
               /\ (\A c \in Joins(tree, m, o, q) \cap Fields : tree.number[c] # i) => v.tags[q][i] = tree.tags[q][i]
    <3>0. i # 0 /\ q \in Parents
      BY BuilderAssumption, KindFacts
    <3>1. \A c \in all \cap Fields : tree.number[c] = i =>
            i \in NumbersOf(tree, all \cap Fields) /\ Numbered(tree, all, i) = c
      BY <1>8, <1>12, <3>0 DEF NumbersOf, Numbered
    <3>2. (\A c \in all \cap Fields : tree.number[c] # i) => i \notin NumbersOf(tree, all \cap Fields)
      BY DEF NumbersOf
    <3> DEFINE J == Joins(tree, m, o, q) \cap Fields
               numbers == NumbersOf(tree, all \cap Fields)
    <3>3. /\ J = IF q = m THEN all \cap Fields ELSE {}
          /\ v.tags[q][i] = IF q = m /\ i \in numbers THEN Numbered(tree, all, i) ELSE tree.tags[q][i]
      BY <1>6, <1>11, <3>0
    <3> HIDE DEF J, numbers
    <3>4. /\ \A c \in J : tree.number[c] = i => v.tags[q][i] = c
          /\ (\A c \in J : tree.number[c] # i) => v.tags[q][i] = tree.tags[q][i]
      <4>1. CASE q = m
        BY <3>1, <3>2, <3>3, <4>1 DEF numbers
      <4>2. CASE q # m
        BY <3>3, <4>2
      <4> QED
        BY <4>1, <4>2
    <3> QED
      BY <3>4 DEF J
  <2> QED
    BY <1>11, <2>1, <2>2 DEF Entered
<1>14. RegisteredUpTo(m, o, n) = v
  <2>1. n \in 0..n
    BY <1>2
  <2> QED
    BY <1>1, <2>1, RegisteredUpToIs DEF v, all
<1> QED
  BY <1>9, <1>10, <1>13, <1>14

\* After a conflict at the first choice nothing remains.
LEMMA TakenBackAll ==
  ASSUME Good(tree), NEW m \in Messages, NEW o \in Oneofs, Free(tree, m, tree.name[o]), NEW choices, choices = {}
  PROVE  RegisteredUpTo(m, o, 0) \in Trees /\ TakenBack(RegisteredUpTo(m, o, 0), m, o, choices) = tree
<1> DEFINE v == Listed(tree, m, {o})
           u == Forgotten(v, m, NamesOf(v, {o}), NumbersOf(v, {}))
<1>1. Sound(tree) /\ tree \in Trees /\ m \in Parents /\ {o} \in SUBSET Builders /\ o \notin Fields
  BY KindFacts DEF Good, Sound
<1>2. Len(tree.kids[o]) \in Nat /\ 0 \in 0..Len(tree.kids[o]) /\ Upto(tree, o, 0) = {o}
  BY <1>1, ChoiceFacts DEF Upto
<1>3. RegisteredUpTo(m, o, 0) = v
  BY <1>1, <1>2, RegisteredUpToIs
<1>4. TakenBack(RegisteredUpTo(m, o, 0), m, o, choices) = u
  BY <1>3 DEF TakenBack
<1>5. /\ v \in Trees
      /\ v.name = tree.name /\ v.parent = tree.parent /\ v.kids = tree.kids
      /\ v.number = tree.number /\ v.group = tree.group
      /\ \A q \in Parents, k \in Names : v.symbols[q][k] =
           IF q = m /\ k \in NamesOf(tree, {o}) THEN Called(tree, {o}, k) ELSE tree.symbols[q][k]
      /\ \A q \in Messages, i \in 1..MaxTag : v.tags[q][i] =
           IF q = m /\ i \in NumbersOf(tree, {o} \cap Fields) THEN Numbered(tree, {o}, i) ELSE tree.tags[q][i]
  BY <1>1, ListedFields
<1> HIDE DEF v
<1>6. /\ u \in Trees
      /\ u.name = v.name /\ u.parent = v.parent /\ u.kids = v.kids
      /\ u.number = v.number /\ u.group = v.group
      /\ \A q \in Parents, k \in Names :
           u.symbols[q][k] = IF q = m /\ k \in NamesOf(v, {o}) THEN NoBuilder ELSE v.symbols[q][k]
      /\ \A q \in Messages, i \in 1..MaxTag :
           u.tags[q][i] = IF q = m /\ i \in NumbersOf(v, {}) THEN NoBuilder ELSE v.tags[q][i]
  BY <1>5, ForgottenFields
<1> HIDE DEF u
<1>7. NamesOf(v, {o}) = {tree.name[o]} /\ NamesOf(tree, {o}) = {tree.name[o]} /\ NumbersOf(v, {}) = {}
      /\ NumbersOf(tree, {o} \cap Fields) = {}
  BY <1>1, <1>5 DEF NamesOf, NumbersOf
<1>8. tree.symbols[m][tree.name[o]] = NoBuilder
  BY DEF Free
<1>9. \A q \in Parents, k \in Names : u.symbols[q][k] = tree.symbols[q][k]
  BY <1>5, <1>6, <1>7, <1>8
<1>10. \A q \in Messages, i \in 1..MaxTag : u.tags[q][i] = tree.tags[q][i]
  BY <1>5, <1>6, <1>7
<1>11. u = tree
  BY <1>1, <1>5, <1>6, <1>9, <1>10, TreesEqual
<1> QED
  BY <1>3, <1>4, <1>5, <1>11

LEMMA AddOneOfKept ==
  ASSUME Careful, Good(tree), NEW m, NEW o, AddOneOf(m, o), ~AvoidedAdd(m, o)
  PROVE  Kept
<1> DEFINE i == Conflict(m, o)
           n == Len(tree.kids[o])
<1>1. m \in Messages /\ o \in Oneofs /\ Sound(tree) /\ m \in Parents
  BY KindFacts DEF AddOneOf, Good
<1>2. i \in 1..n + 1 /\ n \in Nat
  BY <1>1, ConflictFacts, ChoiceFacts
<1>3. i \notin 2..n
  BY <1>1 DEF AvoidedAdd, Careful, Pitfalls
<1>4. CASE ~Free(tree, m, tree.name[o])
  BY <1>4, RefusedKept DEF AddOneOf
<1>5. CASE Free(tree, m, tree.name[o]) /\ i = n + 1
  <2> DEFINE v == RegisteredUpTo(m, o, n)
  <2>1. Done(Linked(Unlinked(v, o), m, o))
    <3>1. i > n /\ i - 1 = n
      BY <1>2, <1>5
    <3> QED
      BY <1>5, <3>1 DEF AddOneOf
  <2>2. Fits(tree, m, o) /\ Vacant(tree, m, o) /\ Entered(tree, v, m, o)
    BY <1>1, <1>5, OneofEntered
  <2> HIDE DEF v
  <2>3. Good(Linked(Unlinked(v, o), m, o))
    BY <2>2, MovedGood
  <2> QED
    BY <2>1, <2>3, DoneKept
<1>6. CASE Free(tree, m, tree.name[o]) /\ i = 1 /\ i <= n
  <2> DEFINE C == {tree.kids[o][j] : j \in 2..i - 1}
             r == RegisteredUpTo(m, o, i - 1)
             f == tree.kids[o][i]
  <2>1. C = {}
    BY <1>6
  <2>2. ~(i > n) /\ i - 1 = 0
    BY <1>2, <1>6
  <2>3. Refuse(TakenBack(RefusedField(r, m, f), m, o, C))
    BY <1>6, <2>2 DEF AddOneOf
  <2>4. f \in Fields
    BY <1>1, <1>2, <1>6, ChoiceFacts
  <2>5. r \in Trees /\ TakenBack(r, m, o, C) = tree
    <3> HIDE DEF C
    <3> QED
      BY <1>1, <1>6, <2>1, <2>2, TakenBackAll
  <2> HIDE DEF C, r, f
  <2>6. RefusedField(r, m, f) = r
    BY <1>1, <2>4, <2>5, RefusedFieldSame
  <2> QED
    BY <2>3, <2>5, <2>6, RefusedKept
<1> QED
  BY <1>2, <1>3, <1>4, <1>5, <1>6

LEMMA TakeOutKept ==
  ASSUME Good(tree), NEW p \in Parents, NEW n \in Names, TakeOut(p, n)
  PROVE  Kept
<1>1. tree.symbols[p][n] \in Builders
  BY TreeTypes DEF TakeOut, Good, Sound
<1>2. Good(Unlinked(tree, tree.symbols[p][n]))
  BY <1>1, UnlinkedGood
<1> QED
  BY <1>2, DoneKept DEF TakeOut

LEMMA SetTypeKept ==
  ASSUME Good(tree), NEW f \in Fields, SetType(f)
  PROVE  Kept
<1>1. CASE tree.group[f] = NoBuilder
  BY <1>1 DEF SetType, Kept
<1>2. CASE tree.group[f] # NoBuilder
  <2>1. tree.group[f] \in Builders
    BY <1>2, TreeTypes, KindFacts DEF Good, Sound
  <2>2. Good(Unlinked(tree, tree.group[f]))
    BY <2>1, UnlinkedGood
  <2> QED
    BY <1>2, <2>2 DEF SetType, Kept
<1> QED
  BY <1>1, <1>2

LEMMA WithNameFields ==
  ASSUME NEW t \in Trees, NEW b \in Builders, NEW n \in Names
  PROVE  LET u == Named(t, b, n) IN
         /\ u \in Trees
         /\ u.name = [t.name EXCEPT ![b] = n]
         /\ u.parent = t.parent /\ u.kids = t.kids /\ u.symbols = t.symbols
         /\ u.number = t.number /\ u.tags = t.tags /\ u.group = t.group
  BY DEF Trees, Named

LEMMA WithNumberFields ==
  ASSUME NEW t \in Trees, NEW f \in Fields, NEW i \in 0..MaxTag
  PROVE  LET u == [t EXCEPT !.number[f] = i] IN
         /\ u \in Trees
         /\ u.number = [t.number EXCEPT ![f] = i]
         /\ u.parent = t.parent /\ u.kids = t.kids /\ u.symbols = t.symbols
         /\ u.name = t.name /\ u.tags = t.tags /\ u.group = t.group
  BY DEF Trees

\* One element has another name, in every table it is in.
LEMMA RenamedGood ==
  ASSUME NEW t, Good(t), NEW b \in Builders, NEW n \in Names, n # t.name[b],
         NEW u \in Trees, u.name = [t.name EXCEPT ![b] = n],
         u.parent = t.parent, u.kids = t.kids, u.number = t.number, u.tags = t.tags, u.group = t.group,
         \A f \in Fields : t.group[f] # b,
         b \in Fields => t.group[b] = NoBuilder,
         \A q \in Parents, k \in Names : u.symbols[q][k] =
           IF In(t, q, b) /\ k = n THEN b
           ELSE IF In(t, q, b) /\ k = t.name[b] THEN NoBuilder ELSE t.symbols[q][k],
         \A q \in Parents : In(t, q, b) => t.symbols[q][n] = NoBuilder
  PROVE  Good(u)
<1>1. /\ t \in Trees /\ Ordered(t) /\ Kinds(t) /\ Grouped(t) /\ SymbolsMatch(t) /\ TagsMatch(t)
      /\ \A c \in Builders : u.name[c] = IF c = b THEN n ELSE t.name[c]
  BY TreeTypes DEF Good, Sound
<1>2. Ordered(u) /\ Kinds(u)
  BY <1>1, SameOrder DEF Kinds
<1>3. Grouped(u)
  <2>1. ASSUME NEW f \in Fields, t.group[f] # NoBuilder
        PROVE  u.name[t.group[f]] \in Capital /\ u.name[f] = GroupName[u.name[t.group[f]]]
    <3>1. t.group[f] \in Builders /\ f \in Builders /\ t.group[f] # b /\ f # b
      BY <1>1, <2>1, TreeTypes, KindFacts
    <3>2. t.name[t.group[f]] \in Capital /\ t.name[f] = GroupName[t.name[t.group[f]]]
      BY <1>1, <2>1 DEF Grouped
    <3> QED
      BY <1>1, <3>1, <3>2
  <2> QED
    BY <1>1, <2>1 DEF Grouped
<1>4. \A q, c : In(u, q, c) <=> In(t, q, c)
  BY DEF In, Through
<1>5. ASSUME NEW q \in Parents, NEW k \in Names, NEW c \in Builders
      PROVE  u.symbols[q][k] = c <=> In(u, q, c) /\ u.name[c] = k
  <2>1. t.symbols[q][k] = c <=> In(t, q, c) /\ t.name[c] = k
    BY <1>1 DEF SymbolsMatch
  <2>2. t.symbols[q][k] = b <=> In(t, q, b) /\ t.name[b] = k
    BY <1>1 DEF SymbolsMatch
  <2> QED
    BY <1>1, <1>4, <2>1, <2>2, KindFacts
<1>6. TagsMatch(u)
  BY <1>1, <1>4 DEF TagsMatch
<1> QED
  BY <1>2, <1>3, <1>5, <1>6 DEF Good, Sound, SymbolsMatch

\* What renamedChild does to one table.
LEMMA MovedNameFields ==
  ASSUME NEW v \in Trees, NEW q \in Parents, NEW b \in Builders, NEW old \in Names
  PROVE  LET u == WithoutSymbol(WithSymbol(v, q, b), q, old) IN
         /\ u \in Trees
         /\ u.name = v.name /\ u.parent = v.parent /\ u.kids = v.kids
         /\ u.number = v.number /\ u.tags = v.tags /\ u.group = v.group
         /\ \A r \in Parents, k \in Names : u.symbols[r][k] =
              IF r = q /\ k = old THEN NoBuilder
              ELSE IF r = q /\ k = v.name[b] THEN b ELSE v.symbols[r][k]
<1> DEFINE w == WithSymbol(v, q, b)
           u == WithoutSymbol(w, q, old)
<1>1. /\ w \in Trees
      /\ w.name = v.name /\ w.parent = v.parent /\ w.kids = v.kids
      /\ w.number = v.number /\ w.tags = v.tags /\ w.group = v.group
      /\ \A r \in Parents, k \in Names :
           w.symbols[r][k] = IF r = q /\ k = v.name[b] THEN b ELSE v.symbols[r][k]
  BY WithSymbolFields
<1> HIDE DEF w
<1>2. /\ u \in Trees
      /\ u.name = w.name /\ u.parent = w.parent /\ u.kids = w.kids
      /\ u.number = w.number /\ u.tags = w.tags /\ u.group = w.group
      /\ \A r \in Parents, k \in Names :
           u.symbols[r][k] = IF r = q /\ k = old THEN NoBuilder ELSE w.symbols[r][k]
  BY <1>1, WithoutSymbolFields
<1> HIDE DEF u
<1>3. /\ u \in Trees
      /\ u.name = v.name /\ u.parent = v.parent /\ u.kids = v.kids
      /\ u.number = v.number /\ u.tags = v.tags /\ u.group = v.group
      /\ \A r \in Parents, k \in Names : u.symbols[r][k] =
           IF r = q /\ k = old THEN NoBuilder
           ELSE IF r = q /\ k = v.name[b] THEN b ELSE v.symbols[r][k]
  BY <1>1, <1>2
<1> QED
  BY <1>3 DEF u, w

LEMMA SetNameGood ==
  ASSUME NEW t, Good(t), NEW b \in Builders, NEW n \in Names, n # t.name[b],
         ~IsGroupOf(t, b), b \in Fields => t.group[b] = NoBuilder, SetName(t, b, n).ok
  PROVE  Good(SetName(t, b, n).tree)
<1> DEFINE p == t.parent[b]
           m == IF p \in Oneofs THEN t.parent[p] ELSE NoBuilder
           u == Named(t, b, n)
           moved(v, q) == WithoutSymbol(WithSymbol(v, q, b), q, t.name[b])
<1>1. /\ Sound(t) /\ t \in Trees /\ t.name[b] \in Names
      /\ m \in Messages \cup {NoBuilder} /\ p \in Parents \cup Fields \cup {NoBuilder}
  <2>1. Sound(t) /\ t \in Trees
    BY DEF Good, Sound
  <2>2. m \in Messages \cup {NoBuilder} /\ p \in Parents \cup Fields \cup {NoBuilder}
    BY <2>1, AboveFacts
  <2> QED
    BY <2>1, <2>2, TreeTypes
<1>2. /\ u \in Trees
      /\ u.name = [t.name EXCEPT ![b] = n]
      /\ u.parent = t.parent /\ u.kids = t.kids /\ u.symbols = t.symbols
      /\ u.number = t.number /\ u.tags = t.tags /\ u.group = t.group
  BY <1>1, WithNameFields
<1>3. \A f \in Fields : t.group[f] # b
  BY <1>1, AboveFacts, KindFacts DEF IsGroupOf
<1>4. ~Through(t, b) \/ p \in Oneofs
  BY DEF Through, IsGroupOf
<1>5. SetName(t, b, n) =
        CASE n = t.name[b] -> [ok |-> TRUE, tree |-> t]
          [] n # t.name[b] /\ p \notin Parents -> [ok |-> TRUE, tree |-> u]
          [] n # t.name[b] /\ p \in Parents /\ m = NoBuilder ->
               [ok |-> Free(t, p, n), tree |-> moved(u, p)]
          [] OTHER ->
               [ok |-> Free(t, p, n) /\ Free(t, m, n), tree |-> moved(moved(u, p), m)]
  BY DEF SetName
<1>6. u.name[b] = n
  BY <1>1, <1>2, TreeTypes
<1> HIDE DEF u, p
<1>7. CASE p \notin Parents
  <2>1. SetName(t, b, n).tree = u
    <3>1. SetName(t, b, n) = [ok |-> TRUE, tree |-> u]
      BY <1>5, <1>7, Zenon
    <3> QED
      BY <3>1
  <2>2. \A q \in Parents : ~In(t, q, b)
    <3>1. p \notin Oneofs
      BY <1>7, KindFacts
    <3> QED
      BY <1>4, <1>7, <3>1 DEF In, p
  <2>3. Good(u)
    BY <1>2, <1>3, <2>2, RenamedGood
  <2> QED
    BY <2>1, <2>3
<1>8. CASE p \in Parents /\ m = NoBuilder
  <2> DEFINE w == moved(u, p)
  <2>1. SetName(t, b, n).tree = w /\ Free(t, p, n)
    <3>1. SetName(t, b, n) = [ok |-> Free(t, p, n), tree |-> w]
      BY <1>5, <1>8, Zenon
    <3> QED
      BY <3>1
  <2>2. /\ w \in Trees
        /\ w.name = u.name /\ w.parent = u.parent /\ w.kids = u.kids
        /\ w.number = u.number /\ w.tags = u.tags /\ w.group = u.group
        /\ \A r \in Parents, k \in Names : w.symbols[r][k] =
             IF r = p /\ k = t.name[b] THEN NoBuilder
             ELSE IF r = p /\ k = u.name[b] THEN b ELSE u.symbols[r][k]
    <3>1. u \in Trees /\ p \in Parents /\ t.name[b] \in Names
      BY <1>1, <1>2, <1>8
    <3> HIDE DEF m
    <3> QED
      BY <3>1, MovedNameFields
  <2> HIDE DEF w, moved
  <2>3. \A q \in Parents : In(t, q, b) <=> q = p
    BY <1>4, <1>8, KindFacts DEF In, p
  <2>4. \A q \in Parents, k \in Names : w.symbols[q][k] =
          IF In(t, q, b) /\ k = n THEN b
          ELSE IF In(t, q, b) /\ k = t.name[b] THEN NoBuilder ELSE t.symbols[q][k]
    BY <1>2, <1>6, <2>2, <2>3
  <2>5. \A q \in Parents : In(t, q, b) => t.symbols[q][n] = NoBuilder
    BY <2>1, <2>3 DEF Free
  <2>6. Good(w)
    BY <1>2, <1>3, <2>2, <2>4, <2>5, RenamedGood
  <2> QED
    BY <2>1, <2>6
<1>9. CASE p \in Parents /\ m # NoBuilder
  <2> DEFINE v == moved(u, p)
             w == moved(v, m)
  <2>0. p \in Oneofs /\ m = t.parent[p] /\ m \in Messages /\ m \in Parents /\ m # p
    BY <1>1, <1>9, KindFacts
  <2>1. SetName(t, b, n).tree = w /\ Free(t, p, n) /\ Free(t, m, n)
    <3>1. SetName(t, b, n) = [ok |-> Free(t, p, n) /\ Free(t, m, n), tree |-> w]
      <4> HIDE DEF m, moved
      <4> QED
        BY <1>5, <1>9, Zenon DEF w, v
    <3> DEFINE ok == Free(t, p, n) /\ Free(t, m, n)
    <3>2. SetName(t, b, n) = [ok |-> ok, tree |-> w]
      BY <3>1
    <3> HIDE DEF ok, w
    <3>3. SetName(t, b, n).tree = w /\ ok
      BY <3>2
    <3> QED
      BY <3>3 DEF ok
  <2>2. /\ v \in Trees
        /\ v.name = u.name /\ v.parent = u.parent /\ v.kids = u.kids
        /\ v.number = u.number /\ v.tags = u.tags /\ v.group = u.group
        /\ \A r \in Parents, k \in Names : v.symbols[r][k] =
             IF r = p /\ k = t.name[b] THEN NoBuilder
             ELSE IF r = p /\ k = u.name[b] THEN b ELSE u.symbols[r][k]
    <3>1. u \in Trees /\ p \in Parents /\ t.name[b] \in Names
      BY <1>1, <1>2, <1>9
    <3> HIDE DEF m
    <3> QED
      BY <3>1, MovedNameFields
  <2> HIDE DEF v
  <2>3. /\ w \in Trees
        /\ w.name = v.name /\ w.parent = v.parent /\ w.kids = v.kids
        /\ w.number = v.number /\ w.tags = v.tags /\ w.group = v.group
        /\ \A r \in Parents, k \in Names : w.symbols[r][k] =
             IF r = m /\ k = t.name[b] THEN NoBuilder
             ELSE IF r = m /\ k = v.name[b] THEN b ELSE v.symbols[r][k]
    <3>1. v \in Trees /\ m \in Parents /\ t.name[b] \in Names
      BY <1>1, <2>0, <2>2
    <3> HIDE DEF m
    <3> QED
      BY <3>1, MovedNameFields
  <2> HIDE DEF w, moved, m
  <2>4. \A q \in Parents : In(t, q, b) <=> q = p \/ q = m
    BY <2>0, KindFacts DEF In, Through, p
  <2>5. \A q \in Parents, k \in Names : w.symbols[q][k] =
          IF In(t, q, b) /\ k = n THEN b
          ELSE IF In(t, q, b) /\ k = t.name[b] THEN NoBuilder ELSE t.symbols[q][k]
    BY <1>2, <1>6, <2>2, <2>3, <2>4
  <2>6. \A q \in Parents : In(t, q, b) => t.symbols[q][n] = NoBuilder
    BY <2>1, <2>4 DEF Free
  <2>7. Good(w)
    BY <1>2, <1>3, <2>2, <2>3, <2>5, <2>6, RenamedGood
  <2> QED
    BY <2>1, <2>7
<1> QED
  BY <1>7, <1>8, <1>9

\* A group and its field, which is nowhere.
LEMMA GroupRenamedGood ==
  ASSUME NEW t, Good(t), NEW b \in Builders, IsGroupOf(t, b), t.parent[t.parent[b]] = NoBuilder,
         NEW n \in Capital,
         NEW u \in Trees, u.name = [t.name EXCEPT ![b] = n, ![t.parent[b]] = GroupName[n]],
         u.parent = t.parent, u.kids = t.kids, u.number = t.number, u.tags = t.tags, u.group = t.group,
         u.symbols = t.symbols
  PROVE  Good(u)
<1> DEFINE f == t.parent[b]
<1>1. /\ t \in Trees /\ Ordered(t) /\ Kinds(t) /\ Grouped(t) /\ SymbolsMatch(t) /\ TagsMatch(t) /\ Sound(t)
      /\ f \in Fields /\ f \in Builders /\ t.group[f] = b /\ b \in Messages /\ b # f
  <2>1. t \in Trees /\ Ordered(t) /\ Kinds(t) /\ Grouped(t) /\ SymbolsMatch(t) /\ TagsMatch(t) /\ Sound(t)
    BY DEF Good, Sound
  <2>2. f \in Fields /\ t.group[f] = b
    BY DEF IsGroupOf
  <2>3. b \in Messages /\ f \in Builders /\ b # f
    BY <2>1, <2>2, KindFacts DEF Kinds
  <2> QED
    BY <2>1, <2>2, <2>3
<1>2. /\ n \in Names /\ GroupName[n] \in Names
      /\ \A c \in Builders : u.name[c] = IF c = f THEN GroupName[n] ELSE IF c = b THEN n ELSE t.name[c]
  <2>1. n \in Names /\ GroupName[n] \in Names
    BY BuilderAssumption
  <2> QED
    BY <1>1, <2>1, TreeTypes
<1>3. Ordered(u) /\ Kinds(u)
  BY <1>1, SameOrder DEF Kinds
<1>4. Grouped(u)
  <2>1. ASSUME NEW g \in Fields, t.group[g] # NoBuilder
        PROVE  u.name[t.group[g]] \in Capital /\ u.name[g] = GroupName[u.name[t.group[g]]]
    <3>1. /\ t.group[g] \in Builders /\ t.group[g] \in Messages /\ g \in Builders /\ t.parent[t.group[g]] = g
          /\ t.name[t.group[g]] \in Capital /\ t.name[g] = GroupName[t.name[t.group[g]]]
          /\ t.group[g] # f /\ g # b
      BY <1>1, <2>1, TreeTypes, KindFacts DEF Grouped
    <3>2. CASE g = f
      <4>1. t.group[g] = b
        BY <1>1, <3>2
      <4> QED
        BY <1>1, <1>2, <3>2, <4>1
    <3>3. CASE g # f
      <4>1. t.group[g] # b
        BY <3>1, <3>3
      <4> QED
        BY <1>2, <3>1, <3>3, <4>1
    <3> QED
      BY <3>2, <3>3
  <2> QED
    BY <1>1, <2>1 DEF Grouped
<1>5. \A q, c : In(u, q, c) <=> In(t, q, c)
  BY DEF In, Through
<1>6. \A q \in Parents : ~In(t, q, b) /\ ~In(t, q, f)
  BY <1>1, KindFacts DEF In, Through
<1>7. SymbolsMatch(u)
  BY <1>1, <1>2, <1>5, <1>6 DEF SymbolsMatch
<1>8. TagsMatch(u)
  BY <1>1, <1>5 DEF TagsMatch
<1> QED
  BY <1>3, <1>4, <1>7, <1>8 DEF Good, Sound

LEMMA SetGroupNameGood ==
  ASSUME NEW t, Good(t), NEW b \in Builders, IsGroupOf(t, b), t.parent[t.parent[b]] = NoBuilder,
         NEW n \in Names, SetGroupName(t, b, n).ok
  PROVE  Good(SetGroupName(t, b, n).tree)
<1> DEFINE f == t.parent[b]
           v == Named(t, b, n)
           x == GroupName[n]
           w == Named(v, f, x)
<1>1. /\ t \in Trees /\ f \in Fields /\ f \in Builders /\ b # f /\ t.parent[f] = NoBuilder
      /\ NoBuilder \notin Messages \cup Parents \cup Oneofs
  <2>1. t \in Trees /\ f \in Fields /\ t.parent[f] = NoBuilder
    BY DEF Good, Sound, IsGroupOf
  <2>2. b \in Messages
    BY <2>1 DEF Good, Sound, Kinds
  <2> QED
    BY <2>1, <2>2, KindFacts
<1>2. n \in Capital
  <2>1. ASSUME n \notin Capital
        PROVE  FALSE
    <3>1. SetGroupName(t, b, n) = [ok |-> FALSE, tree |-> t]
      BY <2>1 DEF SetGroupName
    <3>2. SetGroupName(t, b, n).ok = FALSE
      BY <3>1
    <3> QED
      BY <3>2
  <2> QED
    BY <2>1
<1>3. x \in Names
  BY <1>2, BuilderAssumption
<1>4. /\ v \in Trees
      /\ v.name = [t.name EXCEPT ![b] = n]
      /\ v.parent = t.parent /\ v.kids = t.kids /\ v.symbols = t.symbols
      /\ v.number = t.number /\ v.tags = t.tags /\ v.group = t.group
  BY <1>1, WithNameFields
<1>5. SetGroupName(t, b, n) =
        LET r == SetName(v, f, x)
        IN [ok |-> r.ok /\ (t.parent[f] \in Messages => Free(r.tree, t.parent[f], n)),
            tree |-> IF t.parent[f] \in Messages THEN WithSymbol(r.tree, t.parent[f], b) ELSE r.tree]
  BY <1>2 DEF SetGroupName
<1>6. SetGroupName(t, b, n).tree = SetName(v, f, x).tree
  BY <1>1, <1>5
<1> HIDE DEF v, x
<1>7. /\ w \in Trees
      /\ w.name = [v.name EXCEPT ![f] = x]
      /\ w.parent = v.parent /\ w.kids = v.kids /\ w.symbols = v.symbols
      /\ w.number = v.number /\ w.tags = v.tags /\ w.group = v.group
  <2>1. v \in Trees /\ f \in Builders /\ x \in Names
    BY <1>1, <1>3, <1>4
  <2> HIDE DEF f
  <2> QED
    BY <2>1, WithNameFields
<1>8. CASE x # v.name[f]
  <2>1. v.parent[f] = NoBuilder /\ v.parent[f] \notin Parents
    BY <1>1, <1>4
  <2>2. SetName(v, f, x) = [ok |-> TRUE, tree |-> w]
    BY <1>8, <2>1, Zenon DEF SetName
  <2>3. SetName(v, f, x).tree = w
    BY <2>2
  <2> HIDE DEF w
  <2>4. w.name = [t.name EXCEPT ![b] = n, ![f] = GroupName[n]]
    BY <1>4, <1>7 DEF x
  <2>5. Good(w)
    BY <1>2, <1>4, <1>7, <2>4, GroupRenamedGood
  <2> QED
    BY <1>6, <2>3, <2>5
<1>9. CASE x = v.name[f]
  <2>1. SetName(v, f, x) = [ok |-> TRUE, tree |-> v]
    BY <1>9, Zenon DEF SetName
  <2>2. SetName(v, f, x).tree = v
    BY <2>1
  <2>3. v.name = [t.name EXCEPT ![b] = n, ![f] = GroupName[n]]
    <3>1. t.name \in [Builders -> Names] /\ v.name[f] = t.name[f]
      BY <1>1, <1>4, TreeTypes
    <3>2. GroupName[n] = t.name[f]
      BY <1>9, <3>1 DEF x
    <3> QED
      BY <1>1, <1>4, <3>1, <3>2
  <2>4. Good(v)
    BY <1>2, <1>4, <2>3, GroupRenamedGood
  <2> QED
    BY <1>6, <2>2, <2>4
<1> QED
  BY <1>8, <1>9

\* A name given back.
LEMMA NamedBack ==
  ASSUME NEW t \in Trees, NEW u \in Trees, NEW b \in Builders, NEW n \in Names, NEW k \in Names,
         k = t.name[b], u.name = [t.name EXCEPT ![b] = n],
         u.parent = t.parent, u.kids = t.kids, u.symbols = t.symbols,
         u.number = t.number, u.tags = t.tags, u.group = t.group
  PROVE  Named(u, b, k) = t
<1> DEFINE v == Named(u, b, k)
<1>1. /\ v \in Trees /\ v.name = [u.name EXCEPT ![b] = k]
      /\ v.parent = u.parent /\ v.kids = u.kids /\ v.symbols = u.symbols
      /\ v.number = u.number /\ v.tags = u.tags /\ v.group = u.group
  BY WithNameFields
<1> HIDE DEF v
<1>2. v.name = t.name
  BY <1>1, TreeTypes
<1>3. v = t
  BY <1>1, <1>2, TreesEqual
<1> QED
  BY <1>3 DEF v

\* setName and the renamedChild of a oneof undo all they did before an error.
LEMMA NameRefusedSame ==
  ASSUME NEW t \in Trees, NEW b \in Builders, NEW n \in Names
  PROVE  NameRefused(t, b, n) = t
<1> DEFINE o == t.parent[b]
           u == Named(t, b, n)
           v == WithoutSymbol(WithSymbol(u, o, b), o, n)
<1>1. PICK k \in Names : k = t.name[b]
  BY TreeTypes
<1>2. /\ u \in Trees /\ u.name = [t.name EXCEPT ![b] = n]
      /\ u.parent = t.parent /\ u.kids = t.kids /\ u.symbols = t.symbols
      /\ u.number = t.number /\ u.tags = t.tags /\ u.group = t.group
  BY WithNameFields
<1>3. NameRefused(t, b, n) = Named(IF o \in Oneofs /\ Free(t, o, n) THEN v ELSE u, b, k)
  BY <1>1 DEF NameRefused
<1> HIDE DEF u
<1>4. u.name[b] = n
  BY <1>2, TreeTypes
<1>5. Named(u, b, k) = t
  BY <1>1, <1>2, NamedBack
<1>6. CASE o \in Oneofs /\ Free(t, o, n)
  <2>1. PICK p \in Parents : p = o
    BY <1>6, KindFacts
  <2>2. Free(u, p, n)
    BY <1>2, <1>6, <2>1 DEF Free
  <2>3. WithoutSymbol(WithSymbol(u, p, b), p, n) = u
    BY <1>2, <1>4, <2>2, SymbolUndone
  <2>4. v = u
    BY <2>1, <2>3
  <2> HIDE DEF v, o
  <2> QED
    BY <1>3, <1>5, <1>6, <2>4
<1>7. CASE ~(o \in Oneofs /\ Free(t, o, n))
  <2> HIDE DEF v, o
  <2> QED
    BY <1>3, <1>5, <1>7
<1> QED
  BY <1>6, <1>7

\* A child of a message that is given another name and then the one it had.
LEMMA NameSetBack ==
  ASSUME NEW t \in Trees, NEW f \in Builders, NEW m \in Messages, t.parent[f] = m,
         NEW k \in Names, k = t.name[f], t.symbols[m][k] = f,
         NEW x \in Names, SetName(t, f, x).ok
  PROVE  SetName(SetName(t, f, x).tree, f, k).tree = t
<1> DEFINE r == SetName(t, f, x)
<1>1. m \in Parents /\ m \notin Oneofs
  BY KindFacts
<1>2. CASE x = k
  <2>1. r = [ok |-> TRUE, tree |-> t]
    BY <1>2, Zenon DEF SetName
  <2>2. r.tree = t
    BY <2>1
  <2>3. SetName(t, f, k) = [ok |-> TRUE, tree |-> t]
    BY Zenon DEF SetName
  <2> HIDE DEF r
  <2>4. SetName(r.tree, f, k).tree = t
    BY <2>2, <2>3
  <2> QED
    BY <2>4 DEF r
<1>3. CASE x # k
  <2> DEFINE u == Named(t, f, x)
             v == WithoutSymbol(WithSymbol(u, m, f), m, k)
             w == Named(v, f, k)
             y == WithoutSymbol(WithSymbol(w, m, f), m, x)
  <2>1. /\ u \in Trees /\ u.name = [t.name EXCEPT ![f] = x]
        /\ u.parent = t.parent /\ u.kids = t.kids /\ u.symbols = t.symbols
        /\ u.number = t.number /\ u.tags = t.tags /\ u.group = t.group
    BY WithNameFields
  <2>2. r = [ok |-> Free(t, m, x), tree |-> v]
    <3>1. x # t.name[f] /\ t.parent[f] \in Parents /\ t.parent[f] \notin Oneofs
      BY <1>1, <1>3
    <3>2. r = [ok |-> Free(t, t.parent[f], x),
               tree |-> WithoutSymbol(WithSymbol(Named(t, f, x), t.parent[f], f), t.parent[f], t.name[f])]
      BY <3>1, Zenon DEF SetName
    <3> QED
      BY <3>2
  <2> HIDE DEF u
  <2>3. /\ v \in Trees
        /\ v.name = u.name /\ v.parent = u.parent /\ v.kids = u.kids
        /\ v.number = u.number /\ v.tags = u.tags /\ v.group = u.group
        /\ \A q \in Parents, n \in Names : v.symbols[q][n] =
             IF q = m /\ n = k THEN NoBuilder
             ELSE IF q = m /\ n = u.name[f] THEN f ELSE u.symbols[q][n]
    <3>1. u \in Trees /\ m \in Parents
      BY <1>1, <2>1
    <3> QED
      BY <3>1, MovedNameFields
  <2> HIDE DEF v
  <2>4. r.tree = v /\ Free(t, m, x)
    <3> DEFINE ok == Free(t, m, x)
    <3>1. r = [ok |-> ok, tree |-> v]
      BY <2>2
    <3>2. r.ok
      OBVIOUS
    <3> HIDE DEF ok, r
    <3>3. r.tree = v /\ ok
      BY <3>1, <3>2
    <3> QED
      BY <3>3 DEF ok
  <2> HIDE DEF r
  <2>5. v.name[f] = x
    BY <2>1, <2>3, TreeTypes
  <2>6. /\ w \in Trees /\ w.name = [v.name EXCEPT ![f] = k]
        /\ w.parent = v.parent /\ w.kids = v.kids /\ w.symbols = v.symbols
        /\ w.number = v.number /\ w.tags = v.tags /\ w.group = v.group
    BY <2>3, WithNameFields
  <2>7. SetName(v, f, k).tree = y
    <3>1. k # v.name[f] /\ v.parent[f] \in Parents /\ v.parent[f] \notin Oneofs
      BY <1>1, <1>3, <2>1, <2>3, <2>5
    <3>2. SetName(v, f, k) =
            [ok |-> Free(v, v.parent[f], k),
             tree |-> WithoutSymbol(WithSymbol(Named(v, f, k), v.parent[f], f), v.parent[f], v.name[f])]
      BY <3>1, Zenon DEF SetName
    <3>3. v.parent[f] = m
      BY <2>1, <2>3
    <3>4. SetName(v, f, k) = [ok |-> Free(v, m, k), tree |-> y]
      BY <2>5, <3>2, <3>3
    <3> DEFINE ok == Free(v, m, k)
    <3>5. SetName(v, f, k) = [ok |-> ok, tree |-> y]
      BY <3>4
    <3> HIDE DEF ok, y
    <3> QED
      BY <3>5
  <2> HIDE DEF w
  <2>8. /\ y \in Trees
        /\ y.name = w.name /\ y.parent = w.parent /\ y.kids = w.kids
        /\ y.number = w.number /\ y.tags = w.tags /\ y.group = w.group
        /\ \A q \in Parents, n \in Names : y.symbols[q][n] =
             IF q = m /\ n = x THEN NoBuilder
             ELSE IF q = m /\ n = w.name[f] THEN f ELSE w.symbols[q][n]
    <3>1. w \in Trees /\ m \in Parents
      BY <1>1, <2>6
    <3> QED
      BY <3>1, MovedNameFields
  <2> HIDE DEF y
  <2>9. w.name = t.name /\ w.name[f] = k
    BY <2>1, <2>3, <2>6, TreeTypes
  <2>10. u.name[f] = x
    BY <2>1, TreeTypes
  <2>11. \A q \in Parents, n \in Names : y.symbols[q][n] = t.symbols[q][n]
    BY <1>3, <2>1, <2>3, <2>4, <2>6, <2>8, <2>9, <2>10 DEF Free
  <2>12. \A q \in Messages, i \in 1..MaxTag : y.tags[q][i] = t.tags[q][i]
    BY <2>1, <2>3, <2>6, <2>8
  <2>13. y = t
    BY <2>1, <2>3, <2>6, <2>8, <2>9, <2>11, <2>12, TreesEqual
  <2> QED
    BY <2>4, <2>7, <2>13 DEF r
<1> QED
  BY <1>2, <1>3

\* The renamedChild of a field that is a group undoes all it did before an error.
LEMMA GroupNameRefusedSame ==
  ASSUME NEW t, Good(t), NEW b \in Builders, IsGroupOf(t, b), NEW n \in Names,
         ~SetGroupName(t, b, n).ok
  PROVE  GroupNameRefused(t, b, n) = t
<1> DEFINE f == t.parent[b]
           u == Named(t, b, n)
           x == GroupName[n]
           r == SetName(u, f, x)
<1>1. /\ t \in Trees /\ Kinds(t) /\ SymbolsMatch(t) /\ f \in Fields /\ f \in Builders /\ b # f
  <2>1. t \in Trees /\ Kinds(t) /\ SymbolsMatch(t) /\ f \in Fields
    BY DEF Good, Sound, IsGroupOf
  <2>2. b \in Messages
    BY <2>1 DEF Kinds
  <2> QED
    BY <2>1, <2>2, KindFacts
<1>2. /\ u \in Trees /\ u.name = [t.name EXCEPT ![b] = n]
      /\ u.parent = t.parent /\ u.kids = t.kids /\ u.symbols = t.symbols
      /\ u.number = t.number /\ u.tags = t.tags /\ u.group = t.group
  BY <1>1, WithNameFields
<1>3. PICK k \in Names : k = t.name[b]
  BY <1>1, TreeTypes
<1>4. PICK l \in Names : l = t.name[f]
  BY <1>1, TreeTypes
<1>5. GroupNameRefused(t, b, n) =
        Named(IF n \notin Capital THEN u
              ELSE IF r.ok THEN SetName(r.tree, f, l).tree ELSE NameRefused(u, f, x), b, k)
  BY <1>3, <1>4 DEF GroupNameRefused
<1>6. n \in Capital =>
        SetGroupName(t, b, n) =
          [ok |-> r.ok /\ (t.parent[f] \in Messages => Free(r.tree, t.parent[f], n)),
           tree |-> IF t.parent[f] \in Messages THEN WithSymbol(r.tree, t.parent[f], b) ELSE r.tree]
  BY <1>1, KindFacts DEF SetGroupName
<1> HIDE DEF u
<1>7. Named(u, b, k) = t
  BY <1>1, <1>2, <1>3, NamedBack
<1>8. CASE n \notin Capital
  <2> HIDE DEF r
  <2> QED
    BY <1>5, <1>7, <1>8
<1>9. CASE n \in Capital /\ ~r.ok
  <2>1. x \in Names
    BY <1>9, BuilderAssumption
  <2>2. NameRefused(u, f, x) = u
    BY <1>1, <1>2, <2>1, NameRefusedSame
  <2> HIDE DEF r
  <2> QED
    BY <1>5, <1>7, <1>9, <2>2
<1>10. CASE n \in Capital /\ r.ok
  <2>1. x \in Names
    BY <1>10, BuilderAssumption
  <2>2. t.parent[f] \in Messages
    <3>1. ASSUME t.parent[f] \notin Messages
          PROVE  FALSE
      <4> DEFINE s == IF t.parent[f] \in Messages THEN WithSymbol(r.tree, t.parent[f], b) ELSE r.tree
      <4>1. f \notin Messages
        BY <1>1, KindFacts
      <4>2. SetGroupName(t, b, n) = [ok |-> TRUE, tree |-> s]
        <5> HIDE DEF r, f
        <5> QED
          BY <1>6, <1>10, <3>1, <4>1
      <4> HIDE DEF s
      <4>3. SetGroupName(t, b, n).ok = TRUE
        BY <4>2
      <4> QED
        BY <4>3
    <3> QED
      BY <3>1
  <2>3. PICK m \in Messages : m = t.parent[f]
    BY <2>2
  <2>4. u.parent[f] = m /\ l = u.name[f]
    BY <1>1, <1>2, <1>4, <2>3, TreeTypes
  <2>5. u.symbols[m][l] = f
    <3>1. In(t, m, f)
      BY <2>3 DEF In
    <3> QED
      BY <1>1, <1>2, <1>4, <3>1, KindFacts DEF SymbolsMatch
  <2>6. SetName(SetName(u, f, x).tree, f, l).tree = u
    <3>1. u \in Trees /\ f \in Builders /\ SetName(u, f, x).ok
      BY <1>1, <1>2, <1>10
    <3> HIDE DEF f, x, r
    <3> QED
      BY <2>1, <2>4, <2>5, <3>1, NameSetBack
  <2>7. SetName(r.tree, f, l).tree = u
    BY <2>6
  <2> HIDE DEF r
  <2> QED
    BY <1>5, <1>7, <1>10, <2>7
<1> QED
  BY <1>8, <1>9, <1>10

LEMMA RenameKept ==
  ASSUME Careful, Good(tree), NEW b \in Builders, NEW n \in Names, Rename(b, n), ~AvoidedRename(b, n)
  PROVE  Kept
<1> DEFINE named == SetName(tree, b, n)
           grouped == SetGroupName(tree, b, n)
<1>1. /\ n # tree.name[b]
      /\ NameIsFixed(b) => Refuse(tree)
      /\ ~NameIsFixed(b) /\ IsGroupOf(tree, b) =>
           IF grouped.ok THEN Done(grouped.tree) ELSE Refuse(GroupNameRefused(tree, b, n))
      /\ ~NameIsFixed(b) /\ ~IsGroupOf(tree, b) =>
           IF named.ok THEN Done(named.tree) ELSE Refuse(NameRefused(tree, b, n))
  BY Zenon DEF Rename
<1> HIDE DEF named, grouped
<1>2. CASE NameIsFixed(b)
  BY <1>1, <1>2, RefusedKept
<1>3. CASE ~NameIsFixed(b) /\ IsGroupOf(tree, b) /\ grouped.ok
  <2>1. tree.parent[tree.parent[b]] = NoBuilder
    BY <1>3 DEF AvoidedRename, Careful, Pitfalls, grouped
  <2>2. Good(grouped.tree)
    BY <1>3, <2>1, SetGroupNameGood DEF grouped
  <2> QED
    BY <1>1, <1>3, <2>2, DoneKept
<1>4. CASE ~NameIsFixed(b) /\ IsGroupOf(tree, b) /\ ~grouped.ok
  <2>1. GroupNameRefused(tree, b, n) = tree
    BY <1>4, GroupNameRefusedSame DEF grouped
  <2> QED
    BY <1>1, <1>4, <2>1, RefusedKept
<1>5. CASE ~NameIsFixed(b) /\ ~IsGroupOf(tree, b) /\ named.ok
  <2>1. b \in Fields => tree.group[b] = NoBuilder
    BY <1>5 DEF NameIsFixed
  <2>2. Good(named.tree)
    BY <1>1, <1>5, <2>1, SetNameGood DEF named
  <2> QED
    BY <1>1, <1>5, <2>2, DoneKept
<1>6. CASE ~NameIsFixed(b) /\ ~IsGroupOf(tree, b) /\ ~named.ok
  <2>1. NameRefused(tree, b, n) = tree
    BY NameRefusedSame DEF Good, Sound
  <2> QED
    BY <1>1, <1>6, <2>1, RefusedKept
<1> QED
  BY <1>2, <1>3, <1>4, <1>5, <1>6

\* One field has another number, in the table it is in.
LEMMA RenumberedGood ==
  ASSUME NEW t, Good(t), NEW f \in Fields, NEW i \in 0..MaxTag, i # t.number[f],
         NEW u \in Trees, u.number = [t.number EXCEPT ![f] = i],
         u.parent = t.parent, u.kids = t.kids, u.name = t.name, u.symbols = t.symbols, u.group = t.group,
         \A q \in Messages, k \in 1..MaxTag : u.tags[q][k] =
           IF In(t, q, f) /\ k = t.number[f] THEN NoBuilder
           ELSE IF In(t, q, f) /\ k = i THEN f ELSE t.tags[q][k],
         \A q \in Messages : In(t, q, f) => TagFree(t, q, i)
  PROVE  Good(u)
<1>1. /\ t \in Trees /\ Ordered(t) /\ Kinds(t) /\ Grouped(t) /\ SymbolsMatch(t) /\ TagsMatch(t)
      /\ \A g \in Fields : u.number[g] = IF g = f THEN i ELSE t.number[g]
  BY TreeTypes DEF Good, Sound
<1>2. Ordered(u) /\ Kinds(u) /\ Grouped(u)
  BY <1>1, SameOrder DEF Kinds, Grouped
<1>3. \A q, c : In(u, q, c) <=> In(t, q, c)
  BY DEF In, Through
<1>4. SymbolsMatch(u)
  BY <1>1, <1>3 DEF SymbolsMatch
<1>5. ASSUME NEW q \in Messages, NEW k \in 1..MaxTag, NEW g \in Fields
      PROVE  u.tags[q][k] = g <=> In(u, q, g) /\ u.number[g] = k
  <2>1. t.tags[q][k] = g <=> In(t, q, g) /\ t.number[g] = k
    BY <1>1 DEF TagsMatch
  <2>2. t.tags[q][k] = f <=> In(t, q, f) /\ t.number[f] = k
    BY <1>1 DEF TagsMatch
  <2>3. In(t, q, f) /\ k = i => t.tags[q][k] = NoBuilder
    <3>1. k # 0
      BY BuilderAssumption
    <3> QED
      BY <3>1 DEF TagFree
  <2> QED
    BY <1>1, <1>3, <2>1, <2>2, <2>3, KindFacts
<1> QED
  BY <1>2, <1>4, <1>5 DEF Good, Sound, TagsMatch

LEMMA SetNumberKept ==
  ASSUME Good(tree), NEW f \in Fields, NEW i \in 0..MaxTag, SetNumber(f, i)
  PROVE  Kept
<1> DEFINE m == MessageOf(tree, f)
           t == [tree EXCEPT !.number[f] = i]
           old == tree.number[f]
           back == [t EXCEPT !.number[f] = old]
<1>1. /\ Sound(tree) /\ tree \in Trees /\ f \in Builders /\ m \in Messages \cup {NoBuilder} /\ i # old
      /\ \A q \in Messages : In(tree, q, f) <=> q = m
  <2>1. Sound(tree) /\ tree \in Trees /\ f \in Builders /\ i # old
    BY KindFacts DEF Good, Sound, SetNumber
  <2>2. m \in Messages \cup {NoBuilder}
    <3>1. CASE tree.parent[f] \in Oneofs
      <4>1. m = tree.parent[tree.parent[f]]
        BY <3>1 DEF MessageOf
      <4> QED
        BY <2>1, <3>1, <4>1, AboveFacts
    <3>2. CASE tree.parent[f] \notin Oneofs
      <4>1. m = tree.parent[f]
        BY <3>2 DEF MessageOf
      <4> QED
        BY <2>1, <3>2, <4>1, AboveFacts
    <3> QED
      BY <3>1, <3>2
  <2>3. tree.parent[f] \in Messages \cup Oneofs \cup {NoBuilder}
    BY <2>1, AboveFacts
  <2>4. ASSUME NEW q \in Messages
        PROVE  In(tree, q, f) <=> q = m
    <3>1. CASE tree.parent[f] \in Oneofs
      BY <3>1, KindFacts DEF In, Through, MessageOf
    <3>2. CASE tree.parent[f] \notin Oneofs
      <4>1. ~Through(tree, f)
        BY <2>3, <3>2, KindFacts DEF Through
      <4> QED
        BY <3>2, <4>1 DEF In, MessageOf
    <3> QED
      BY <3>1, <3>2
  <2> QED
    BY <2>1, <2>2, <2>4
<1>2. /\ t \in Trees
      /\ t.number = [tree.number EXCEPT ![f] = i]
      /\ t.parent = tree.parent /\ t.kids = tree.kids /\ t.symbols = tree.symbols
      /\ t.name = tree.name /\ t.tags = tree.tags /\ t.group = tree.group
  BY <1>1, WithNumberFields
<1>3. IF m = NoBuilder THEN Done(t)
      ELSE IF TagFree(tree, m, i) THEN Done(WithoutTag(WithTag(t, m, f), m, old))
      ELSE Refuse(back)
  BY DEF SetNumber
<1>4. t.number[f] = i
  BY <1>1, <1>2, TreeTypes
<1>5. PICK k \in 0..MaxTag : k = old
  BY <1>1, TreeTypes
<1>9. back = tree
  <2> HIDE DEF t
  <2>1. [t EXCEPT !.number[f] = k] = tree
    <3> DEFINE w == [t EXCEPT !.number[f] = k]
    <3>1. /\ w \in Trees
          /\ w.number = [t.number EXCEPT ![f] = k]
          /\ w.parent = t.parent /\ w.kids = t.kids /\ w.symbols = t.symbols
          /\ w.name = t.name /\ w.tags = t.tags /\ w.group = t.group
      BY <1>2, WithNumberFields
    <3> HIDE DEF w
    <3>2. w.number = tree.number
      BY <1>1, <1>2, <1>5, <3>1, TreeTypes
    <3>3. w = tree
      BY <1>1, <1>2, <3>1, <3>2, TreesEqual
    <3> QED
      BY <3>3 DEF w
  <2> QED
    BY <1>5, <2>1
<1> HIDE DEF t, m, back
<1>6. CASE m = NoBuilder
  <2>1. \A q \in Messages : ~In(tree, q, f)
    BY <1>1, <1>6, KindFacts
  <2>2. Good(t)
    BY <1>1, <1>2, <2>1, RenumberedGood
  <2> QED
    BY <1>3, <1>6, <2>2, DoneKept
<1>7. CASE m # NoBuilder /\ TagFree(tree, m, i)
  <2> DEFINE v == WithTag(t, m, f)
             w == WithoutTag(v, m, k)
  <2>0. m \in Messages /\ Done(w)
    <3>1. Done(WithoutTag(WithTag(t, m, f), m, old))
      BY <1>3, <1>7
    <3>2. m \in Messages
      BY <1>1, <1>7
    <3> HIDE DEF old
    <3> QED
      BY <1>5, <3>1, <3>2, Zenon DEF w, v
  <2>1. /\ v \in Trees
        /\ v.name = t.name /\ v.parent = t.parent /\ v.kids = t.kids
        /\ v.number = t.number /\ v.symbols = t.symbols /\ v.group = t.group
        /\ \A q \in Messages, j \in 1..MaxTag :
             v.tags[q][j] = IF q = m /\ j = t.number[f] THEN f ELSE t.tags[q][j]
    <3>1. t \in Trees /\ m \in Messages
      BY <1>2, <2>0
    <3> QED
      BY <3>1, WithTagFields
  <2> HIDE DEF v
  <2>2. /\ w \in Trees
        /\ w.name = v.name /\ w.parent = v.parent /\ w.kids = v.kids
        /\ w.number = v.number /\ w.symbols = v.symbols /\ w.group = v.group
        /\ \A q \in Messages, j \in 1..MaxTag :
             w.tags[q][j] = IF q = m /\ j = k THEN NoBuilder ELSE v.tags[q][j]
    BY <2>0, <2>1, WithoutTagFields
  <2> HIDE DEF w
  <2>3. \A q \in Messages, j \in 1..MaxTag : w.tags[q][j] =
          IF In(tree, q, f) /\ j = old THEN NoBuilder
          ELSE IF In(tree, q, f) /\ j = i THEN f ELSE tree.tags[q][j]
    BY <1>1, <1>2, <1>4, <1>5, <2>1, <2>2
  <2>4. \A q \in Messages : In(tree, q, f) => TagFree(tree, q, i)
    BY <1>1, <1>7
  <2>5. Good(w)
    <3>1. /\ w.number = [tree.number EXCEPT ![f] = i]
          /\ w.parent = tree.parent /\ w.kids = tree.kids /\ w.symbols = tree.symbols
          /\ w.name = tree.name /\ w.group = tree.group /\ w \in Trees
      BY <1>2, <2>1, <2>2
    <3> QED
      BY <1>1, <2>3, <2>4, <3>1, RenumberedGood
  <2> QED
    BY <2>0, <2>5, DoneKept
<1>8. CASE m # NoBuilder /\ ~TagFree(tree, m, i)
  BY <1>3, <1>8, <1>9, RefusedKept
<1> QED
  BY <1>6, <1>7, <1>8

LEMMA InitGood ==
  ASSUME Init
  PROVE  Good(tree)
<1> DEFINE P == [b \in Builders |->
             IF \E f \in Fields : Group[f] = b THEN CHOOSE f \in Fields : Group[f] = b ELSE NoBuilder]
<1>1. tree =
      [name |-> FirstName, parent |-> P, kids |-> [p \in Parents |-> <<>>],
       symbols |-> [p \in Parents |-> [n \in Names |-> NoBuilder]], number |-> [f \in Fields |-> 0],
       tags |-> [m \in Messages |-> [i \in 1..MaxTag |-> NoBuilder]], group |-> Group]
  BY DEF Init
<1>2. ASSUME NEW b \in Builders
      PROVE  /\ P[b] \in Fields \cup {NoBuilder}
             /\ P[b] \in Fields => Group[P[b]] = b
             /\ \A f \in Fields : Group[f] = b => P[b] = f
  <2>1. CASE \E f \in Fields : Group[f] = b
    <3>1. PICK f \in Fields : Group[f] = b
      BY <2>1
    <3>2. \A g \in Fields : Group[g] = b => g = f
      BY <3>1, KindFacts, BuilderAssumption
    <3>3. (CHOOSE g \in Fields : Group[g] = b) = f
      BY <3>1, <3>2
    <3>4. P[b] = f
      BY <2>1, <3>3
    <3> QED
      BY <3>1, <3>2, <3>4
  <2>2. CASE ~\E f \in Fields : Group[f] = b
    <3>1. P[b] = NoBuilder
      BY <2>2
    <3> QED
      BY <2>2, <3>1, KindFacts
  <2> QED
    BY <2>1, <2>2
<1>3. P \in [Builders -> Builders \cup {NoBuilder}]
  <2>1. \A b \in Builders : P[b] \in Builders \cup {NoBuilder}
    BY <1>2, KindFacts
  <2> QED
    BY <2>1
<1> HIDE DEF P
<1>4. tree \in Trees
  <2>1. <<>> \in Seq(Builders) /\ 0 \in 0..MaxTag
    BY BuilderAssumption
  <2> QED
    BY <1>1, <1>3, <2>1, BuilderAssumption DEF Trees
<1>5. /\ tree.name = FirstName /\ tree.parent = P /\ tree.group = Group
      /\ \A p \in Parents : tree.kids[p] = <<>>
      /\ \A p \in Parents, n \in Names : tree.symbols[p][n] = NoBuilder
      /\ \A m \in Messages, i \in 1..MaxTag : tree.tags[m][i] = NoBuilder
  BY <1>1
<1>6. \A b \in Builders : tree.parent[b] \notin Parents
  BY <1>2, <1>5, KindFacts
<1>7. Ordered(tree)
  <2>1. \A p \in Parents : Len(tree.kids[p]) = 0
    BY <1>5
  <2> QED
    BY <1>6, <2>1 DEF Ordered
<1>8. Kinds(tree)
  <2>1. ASSUME NEW b \in Builders
        PROVE  /\ tree.parent[b] \in Fields \cup {NoBuilder}
               /\ tree.parent[b] \in Fields => b \in Messages
    BY <1>2, <1>5, KindFacts, BuilderAssumption
  <2> QED
    BY <1>6, <2>1, KindFacts DEF Kinds
<1>9. Grouped(tree)
  <2>1. ASSUME NEW f \in Fields, Group[f] # NoBuilder
        PROVE  /\ P[Group[f]] = f /\ P[f] \notin Oneofs
               /\ FirstName[Group[f]] \in Capital /\ FirstName[f] = GroupName[FirstName[Group[f]]]
    <3>1. Group[f] \in Builders /\ f \in Builders
      BY <2>1, KindFacts, BuilderAssumption
    <3>2. P[Group[f]] = f /\ P[f] \in Fields \cup {NoBuilder}
      BY <1>2, <3>1
    <3> QED
      BY <2>1, <3>2, KindFacts, BuilderAssumption
  <2> QED
    BY <1>2, <1>5, <2>1 DEF Grouped
<1>10. ASSUME NEW q \in Parents, NEW c \in Builders
       PROVE  ~In(tree, q, c)
  <2>1. tree.parent[c] \notin Parents
    BY <1>6
  <2>2. tree.parent[c] \in Fields => tree.parent[tree.parent[c]] \notin Parents
    BY <1>6, KindFacts
  <2> QED
    BY <2>1, <2>2, KindFacts DEF In, Through
<1>11. SymbolsMatch(tree) /\ TagsMatch(tree)
  BY <1>5, <1>10, KindFacts DEF SymbolsMatch, TagsMatch
<1> QED
  BY <1>4, <1>7, <1>8, <1>9, <1>11 DEF Good, Sound

LEMMA NextKept ==
  ASSUME Careful, Good(tree), Next
  PROVE  Kept
<1>1. ASSUME NEW h \in Holds, ~AvoidedAdd(h[1], h[2]), Add(h[1], h[2])
      PROVE  Kept
  <2>1. h[1] \in Parents /\ h[2] \in Builders
    BY BuilderAssumption
  <2> QED
    BY <1>1, <2>1, AddPlainKept, AddNestedMessageKept, AddFieldKept, AddOneOfKept, AddChoiceKept DEF Add
<1>2. ASSUME NEW p \in Parents, NEW n \in Names, TakeOut(p, n)
      PROVE  Kept
  BY <1>2, TakeOutKept
<1>3. ASSUME NEW b \in Renamed, NEW n \in NewNames[b], ~AvoidedRename(b, n), Rename(b, n)
      PROVE  Kept
  <2>1. b \in Builders /\ n \in Names
    BY BuilderAssumption
  <2> QED
    BY <1>3, <2>1, RenameKept
<1>4. ASSUME NEW f \in Fields, NEW i \in NewNumbers[f], SetNumber(f, i)
      PROVE  Kept
  <2>1. i \in 0..MaxTag
    BY BuilderAssumption
  <2> QED
    BY <1>4, <2>1, SetNumberKept
<1>5. ASSUME NEW f \in Fields, SetType(f)
      PROVE  Kept
  BY <1>5, SetTypeKept
<1> QED
  BY <1>1, <1>2, <1>3, <1>4, <1>5 DEF Next

\* The inductive invariant.
TreeInv ==
  /\ Good(tree) /\ outcome \in {"done", "refused"}
  /\ fieldType \in [Fields -> {"group", "other"}]

LEMMA Inductive ==
  ASSUME Careful
  PROVE  Spec => []TreeInv
<1>1. Init => TreeInv
  BY InitGood DEF Init, TreeInv
<1>2. TreeInv /\ [Next]_vars => TreeInv'
  <2> SUFFICES ASSUME TreeInv, [Next]_vars
               PROVE  TreeInv'
    OBVIOUS
  <2>1. CASE Next
    <3>1. Kept
      BY <2>1, NextKept DEF TreeInv
    <3>2. Good(tree') <=> Good(tree)'
      BY DEF Good, Sound, SymbolsMatch, TagsMatch, Ordered, Kinds, Grouped, In, Through
    <3> QED
      BY <3>1, <3>2 DEF Kept, TreeInv
  <2>2. CASE UNCHANGED vars
    BY <2>2 DEF vars, TreeInv, Good, Sound, SymbolsMatch, TagsMatch, Ordered, Kinds, Grouped, In, Through
  <2> QED
    BY <2>1, <2>2
<1> QED
  BY <1>1, <1>2, PTL DEF Spec

-----------------------------------------------------------------------------
(* What the invariant says. *)

\* Members is what In says.
LEMMA MembersIn ==
  ASSUME NEW t, Sound(t), NEW p \in Parents
  PROVE  Members(t, p) = {c \in Builders : In(t, p, c)}
<1> DEFINE kids == Range(t.kids[p])
           fields == kids \cup UNION {Range(t.kids[o]) : o \in kids \cap Oneofs}
           groups == {t.group[f] : f \in fields \cap Fields} \ {NoBuilder}
<1>1. /\ t \in Trees /\ Ordered(t)
      /\ \A q \in Parents : Range(t.kids[q]) = {c \in Builders : t.parent[c] = q}
  BY KidsRange DEF Sound
<1>2. CASE p \notin Messages
  BY <1>1, <1>2 DEF Members, In
<1>3. CASE p \in Messages
  <2>1. Members(t, p) = fields \cup groups
    BY <1>3 DEF Members
  <2>2. ASSUME NEW c
        PROVE  c \in fields <=> c \in Builders /\ (t.parent[c] = p \/
                 (t.parent[c] \in Oneofs /\ t.parent[t.parent[c]] = p))
    <3>1. c \in kids <=> c \in Builders /\ t.parent[c] = p
      BY <1>1
    <3>2. \A o \in Oneofs : (o \in kids <=> t.parent[o] = p) /\ (c \in Range(t.kids[o]) <=> c \in Builders /\ t.parent[c] = o)
      BY <1>1, KindFacts
    <3> HIDE DEF kids
    <3> QED
      BY <3>1, <3>2
  <2>3. ASSUME NEW c
        PROVE  c \in groups <=> c \in Builders /\ t.parent[c] \in Fields /\ t.group[t.parent[c]] = c
                                /\ t.parent[t.parent[c]] = p
    <3>1. c \in groups <=> \E f \in Fields : f \in fields /\ t.group[f] = c /\ c # NoBuilder
      BY DEF groups
    <3> HIDE DEF fields, groups
    <3>2. ASSUME NEW f \in Fields, f \in fields, t.group[f] = c, c # NoBuilder
          PROVE  c \in Builders /\ t.parent[c] = f /\ t.parent[f] = p
      <4>1. c \in Builders /\ t.parent[c] = f /\ t.parent[f] \notin Oneofs
        BY <3>2, AboveFacts, KindFacts
      <4> QED
        BY <2>2, <3>2, <4>1
    <3>3. ASSUME c \in Builders, t.parent[c] \in Fields, t.group[t.parent[c]] = c, t.parent[t.parent[c]] = p
          PROVE  t.parent[c] \in fields /\ c # NoBuilder
      BY <2>2, <3>3, KindFacts
    <3> QED
      BY <3>1, <3>2, <3>3
  <2> HIDE DEF fields, groups
  <2>4. ASSUME NEW c
        PROVE  c \in Members(t, p) <=> c \in Builders /\ In(t, p, c)
    BY <1>3, <2>1, <2>2, <2>3 DEF In, Through
  <2> QED
    BY <2>4
<1> QED
  BY <1>2, <1>3

LEMMA GoodSymbols ==
  ASSUME Good(tree)
  PROVE  SymbolsExact
<1> SUFFICES ASSUME NEW p \in Parents, NEW n \in Names
             PROVE  {b \in Members(tree, p) : tree.name[b] = n} = {tree.symbols[p][n]} \ {NoBuilder}
  BY DEF SymbolsExact
<1>1. Members(tree, p) = {c \in Builders : In(tree, p, c)}
  BY MembersIn DEF Good
<1>2. tree.symbols[p][n] \in Builders \cup {NoBuilder}
  BY TreeTypes DEF Good, Sound
<1>3. \A c \in Builders : tree.symbols[p][n] = c <=> In(tree, p, c) /\ tree.name[c] = n
  BY DEF Good, SymbolsMatch
<1> QED
  BY <1>1, <1>2, <1>3, KindFacts

LEMMA GoodTags ==
  ASSUME Good(tree)
  PROVE  TagsExact
<1> SUFFICES ASSUME NEW m \in Messages, NEW i \in 1..MaxTag
             PROVE  {f \in Members(tree, m) \cap Fields : tree.number[f] = i} = {tree.tags[m][i]} \ {NoBuilder}
  BY DEF TagsExact
<1>1. Members(tree, m) = {c \in Builders : In(tree, m, c)}
  BY MembersIn, KindFacts DEF Good
<1>2. tree.tags[m][i] \in Fields \cup {NoBuilder}
  <2>1. tree.tags \in [Messages -> [1..MaxTag -> Fields \cup {NoBuilder}]]
    BY TreeTypes DEF Good, Sound
  <2>2. tree.tags[m] \in [1..MaxTag -> Fields \cup {NoBuilder}]
    BY <2>1
  <2> QED
    BY <2>2
<1>3. \A f \in Fields : tree.tags[m][i] = f <=> In(tree, m, f) /\ tree.number[f] = i
  BY DEF Good, TagsMatch
<1> QED
  BY <1>1, <1>2, <1>3, KindFacts

LEMMA GoodLists ==
  ASSUME Good(tree)
  PROVE  ListsAgree
<1>1. tree \in Trees /\ Ordered(tree) /\ Kinds(tree) /\ Grouped(tree)
  BY DEF Good, Sound
<1>2. ASSUME NEW b \in Builders, NEW p \in Parents
      PROVE  Cardinality({i \in DOMAIN tree.kids[p] : tree.kids[p][i] = b}) =
               (IF tree.parent[b] = p THEN 1 ELSE 0)
  <2>1. tree.kids[p] \in Seq(Builders) /\ DOMAIN tree.kids[p] = 1..Len(tree.kids[p])
    BY <1>1, TreeTypes
  <2> DEFINE I == {i \in DOMAIN tree.kids[p] : tree.kids[p][i] = b}
  <2>2. CASE tree.parent[b] = p
    <3>1. PICK i \in 1..Len(tree.kids[p]) : tree.kids[p][i] = b
      BY <1>1, <2>2 DEF Ordered
    <3>2. I = {i}
      BY <1>1, <2>1, <3>1 DEF Ordered
    <3> QED
      BY <2>2, <3>2, FS_Singleton
  <2>3. CASE tree.parent[b] # p
    <3>1. I = {}
      BY <1>1, <2>1, <2>3 DEF Ordered
    <3> QED
      BY <2>3, <3>1, FS_EmptySet
  <2> QED
    BY <2>2, <2>3
<1>3. ASSUME NEW b \in Builders, NEW f \in Fields, tree.group[f] = b
      PROVE  tree.parent[b] = f
  BY <1>1, <1>3, KindFacts DEF Grouped
<1> QED
  BY <1>2, <1>3 DEF ListsAgree

-----------------------------------------------------------------------------
(* The numbers that Build assigns. *)

\* The r-th number that is not taken.
LEMMA FreeNumber ==
  ASSUME NEW n \in Nat, NEW r \in Nat \ {0}, NEW taken, Cardinality((1..n) \ taken) >= r
  PROVE  \E k \in 1..n : k \notin taken /\ Cardinality((1..k) \ taken) = r
<1> DEFINE c(k) == Cardinality((1..k) \ taken)
           T == {k \in 0..n : c(k) >= r}
<1>1. \A k \in Nat : IsFiniteSet((1..k) \ taken) /\ c(k) \in Nat
  <2> SUFFICES ASSUME NEW k \in Nat
               PROVE  IsFiniteSet((1..k) \ taken) /\ c(k) \in Nat
    OBVIOUS
  <2>1. IsFiniteSet(1..k)
    BY FS_Interval
  <2>2. IsFiniteSet((1..k) \ taken)
    BY <2>1, FS_Difference
  <2> QED
    BY <2>2, FS_CardinalityType
<1>2. c(0) = 0
  <2>1. (1..0) \ taken = {}
    OBVIOUS
  <2> QED
    BY <2>1, FS_EmptySet
<1>3. T \in SUBSET Nat /\ n \in T
  OBVIOUS
<1>4. PICK k \in T : \A j \in T : k <= j
  BY <1>3, LeastNatural
<1>5. k \in 0..n /\ c(k) >= r /\ k # 0
  BY <1>2, <1>4
<1>6. k - 1 \in 0..n /\ k - 1 \in Nat /\ k \in 1..n
  BY <1>5
<1>7. ~(c(k - 1) >= r)
  BY <1>4, <1>6
<1>8. c(k - 1) \in Nat /\ c(k) \in Nat
  <2> HIDE DEF c, T
  <2>1. k \in Nat
    BY <1>6
  <2> QED
    BY <1>1, <1>6, <2>1
<1>9. c(k - 1) < r
  BY <1>7, <1>8
<1>10. k \notin taken
  <2> SUFFICES ASSUME k \in taken
               PROVE  FALSE
    OBVIOUS
  <2>1. (1..k) \ taken = (1..(k - 1)) \ taken
    BY <1>6
  <2> QED
    BY <2>1, <1>5, <1>9, <1>8
<1>11. c(k) = c(k - 1) + 1
  <2>1. (1..k) \ taken = ((1..(k - 1)) \ taken) \cup {k}
    BY <1>6, <1>10
  <2>2. k \notin (1..(k - 1)) \ taken /\ IsFiniteSet((1..(k - 1)) \ taken)
    BY <1>1, <1>6
  <2> QED
    BY <2>1, <2>2, FS_AddElement
<1>12. c(k) = r
  BY <1>5, <1>8, <1>9, <1>11
<1> QED
  BY <1>6, <1>10, <1>12

\* The places of a message, and the fields there.
LEMMA PlaceFacts ==
  ASSUME NEW t, Sound(t), NEW m \in Messages
  PROVE  /\ \A p \in Places(t, m) :
              p = <<p[1], p[2]>> /\ p[1] \in Nat /\ p[2] \in Nat /\ FieldAt(t, m, p) \in Fields
              /\ In(t, m, FieldAt(t, m, p))
         /\ \A p, q \in Places(t, m) : FieldAt(t, m, p) = FieldAt(t, m, q) => p = q
<1>1. /\ t.kids \in [Parents -> Seq(Builders)] /\ m \in Parents
      /\ \A o \in Oneofs : o \in Parents /\ o \notin Fields /\ o # m
  BY TreeTypes, KindFacts DEF Sound
<1>2. /\ DOMAIN t.kids[m] = 1..Len(t.kids[m]) /\ Len(t.kids[m]) \in Nat
      /\ \A o \in Oneofs : DOMAIN t.kids[o] = 1..Len(t.kids[o]) /\ Len(t.kids[o]) \in Nat
      /\ \A o \in Oneofs : \A j \in 1..Len(t.kids[o]) : t.kids[o][j] \in Builders
  BY <1>1
<1>3. ASSUME NEW p \in Places(t, m)
      PROVE  /\ p = <<p[1], p[2]>> /\ p[1] \in 1..Len(t.kids[m]) /\ p[2] \in Nat
             /\ \/ /\ p[2] = 0 /\ t.kids[m][p[1]] \in Fields
                   /\ FieldAt(t, m, p) = t.kids[m][p[1]]
                \/ /\ p[2] # 0 /\ t.kids[m][p[1]] \in Oneofs
                   /\ p[2] \in 1..Len(t.kids[t.kids[m][p[1]]])
                   /\ FieldAt(t, m, p) = t.kids[t.kids[m][p[1]]][p[2]]
  BY <1>2, <1>3 DEF Places, FieldAt
<1>4. /\ \A i \in 1..Len(t.kids[m]) : t.parent[t.kids[m][i]] = m
      /\ \A i, j \in 1..Len(t.kids[m]) : t.kids[m][i] = t.kids[m][j] => i = j
      /\ \A o \in Oneofs : \A i \in 1..Len(t.kids[o]) : t.parent[t.kids[o][i]] = o
      /\ \A o \in Oneofs : \A i, j \in 1..Len(t.kids[o]) : t.kids[o][i] = t.kids[o][j] => i = j
      /\ \A o \in Oneofs : \A i \in 1..Len(t.kids[o]) : t.kids[o][i] \in Fields
  BY <1>1, <1>2 DEF Sound, Ordered, Kinds
<1>5. ASSUME NEW p \in Places(t, m)
      PROVE  FieldAt(t, m, p) \in Fields /\ In(t, m, FieldAt(t, m, p))
  BY <1>3, <1>4 DEF In, Through
<1>6. ASSUME NEW p \in Places(t, m), NEW q \in Places(t, m), FieldAt(t, m, p) = FieldAt(t, m, q)
      PROVE  p = q
  <2>1. p[2] = 0 <=> q[2] = 0
    BY <1>1, <1>3, <1>4, <1>6
  <2>2. p[1] = q[1]
    <3>1. CASE p[2] = 0
      BY <1>3, <1>4, <1>6, <2>1, <3>1
    <3>2. CASE p[2] # 0
      <4> DEFINE o == t.kids[m][p[1]]
                 w == t.kids[m][q[1]]
      <4>1. /\ o \in Oneofs /\ p[2] \in 1..Len(t.kids[o]) /\ FieldAt(t, m, p) = t.kids[o][p[2]]
            /\ w \in Oneofs /\ q[2] \in 1..Len(t.kids[w]) /\ FieldAt(t, m, q) = t.kids[w][q[2]]
        BY <1>3, <2>1, <3>2
      <4>2. o = w
        <5>1. t.parent[t.kids[o][p[2]]] = o /\ t.parent[t.kids[w][q[2]]] = w
          BY <1>4, <4>1
        <5> HIDE DEF o, w
        <5> QED
          BY <1>6, <4>1, <5>1
      <4> QED
        BY <1>3, <1>4, <4>2
    <3> QED
      BY <3>1, <3>2
  <2>3. p[2] = q[2]
    BY <1>3, <1>4, <1>6, <2>1, <2>2
  <2> QED
    BY <1>3, <2>2, <2>3
<1> QED
  BY <1>3, <1>5, <1>6

LEMMA PlacesFinite ==
  ASSUME NEW t \in Trees, NEW m \in Messages
  PROVE  IsFiniteSet(Places(t, m))
<1> DEFINE K == {k \in DOMAIN t.kids[m] : t.kids[m][k] \in Oneofs}
           F == {k \in DOMAIN t.kids[m] : t.kids[m][k] \in Fields}
           row(i) == {<<i, j>> : j \in DOMAIN t.kids[t.kids[m][i]]}
<1>1. t.kids \in [Parents -> Seq(Builders)] /\ m \in Parents /\ Oneofs \subseteq Parents
  BY TreeTypes, KindFacts
<1>2. \A q \in Parents : IsFiniteSet(DOMAIN t.kids[q])
  <2> SUFFICES ASSUME NEW q \in Parents
               PROVE  IsFiniteSet(DOMAIN t.kids[q])
    OBVIOUS
  <2>1. DOMAIN t.kids[q] = 1..Len(t.kids[q]) /\ Len(t.kids[q]) \in Nat
    BY <1>1
  <2> QED
    BY <2>1, FS_Interval
<1>3. IsFiniteSet(K) /\ IsFiniteSet(F)
  BY <1>1, <1>2, FS_Subset
<1>4. IsFiniteSet({<<i, 0>> : i \in F})
  <2>1. [i \in F |-> <<i, 0>>] \in Surjection(F, {<<i, 0>> : i \in F})
    BY Zenon DEF Surjection
  <2> QED
    BY <1>3, <2>1, FS_Surjection
<1>5. ASSUME NEW i \in K
      PROVE  IsFiniteSet(row(i))
  <2> DEFINE D == DOMAIN t.kids[t.kids[m][i]]
  <2>1. IsFiniteSet(D)
    BY <1>1, <1>2
  <2>2. [j \in D |-> <<i, j>>] \in Surjection(D, row(i))
    BY Zenon DEF Surjection
  <2> QED
    BY <2>1, <2>2, FS_Surjection
<1>6. IsFiniteSet({row(i) : i \in K})
  <2> HIDE DEF row, K
  <2>1. [i \in K |-> row(i)] \in Surjection(K, {row(i) : i \in K})
    BY Zenon DEF Surjection
  <2> QED
    BY <1>3, <2>1, FS_Surjection
<1>7. IsFiniteSet(UNION {row(i) : i \in K})
  BY <1>5, <1>6, FS_UNION
<1> QED
  BY <1>4, <1>7, FS_Union DEF Places

\* A field without a number is given one that nobody has, counted by its rank.
LEMMA NumberFound ==
  ASSUME NEW P, IsFiniteSet(P), NEW number \in [P -> Nat], NEW before,
         before \subseteq {q \in P : number[q] = 0}, before # {}
  PROVE  \E k \in 1..Cardinality(P) :
           /\ k \notin {number[q] : q \in P}
           /\ Cardinality((1..k) \ {number[q] : q \in P}) = Cardinality(before)
<1> DEFINE Z == {q \in P : number[q] = 0}
           W == P \ Z
<1>1. PICK n \in Nat : n = Cardinality(P)
  BY FS_CardinalityType
<1>2. PICK taken : taken = {number[q] : q \in P}
  OBVIOUS
<1>3. IsFiniteSet(Z) /\ Cardinality(Z) \in Nat /\ IsFiniteSet(W) /\ Cardinality(W) \in Nat
  BY FS_Subset, FS_CardinalityType
<1>4. Cardinality(W) = n - Cardinality(Z)
  <2>1. P \cap Z = Z
    OBVIOUS
  <2> QED
    BY <1>1, <2>1, FS_Difference
<1>5. IsFiniteSet(before) /\ Cardinality(before) <= Cardinality(Z)
  BY <1>3, FS_Subset
<1>6. PICK r \in Nat \ {0} : r = Cardinality(before)
  BY <1>5, FS_CardinalityType, FS_EmptySet
<1> DEFINE low == (1..n) \cap taken
<1>7. Cardinality(low) \in Nat /\ Cardinality(low) <= Cardinality(W)
  <2> DEFINE V == {q \in W : number[q] \in 1..n}
             num == [q \in V |-> number[q]]
  <2>1. IsFiniteSet(V) /\ Cardinality(V) <= Cardinality(W) /\ Cardinality(V) \in Nat
    BY <1>3, FS_Subset, FS_CardinalityType
  <2>2. ASSUME NEW x \in low
        PROVE  \E q \in V : num[q] = x
    <3>1. PICK q \in P : number[q] = x
      BY <1>2, <2>2
    <3>2. x # 0 /\ x \in 1..n
      BY <2>2
    <3> QED
      BY <3>1, <3>2
  <2>3. num \in [V -> low]
    BY <1>2
  <2>4. num \in Surjection(V, low)
    BY <2>2, <2>3 DEF Surjection
  <2>5. IsFiniteSet(low) /\ Cardinality(low) <= Cardinality(V)
    <3> HIDE DEF V, low, num
    <3> QED
      BY <2>1, <2>4, FS_Surjection
  <2>6. Cardinality(low) \in Nat
    BY <2>5, FS_CardinalityType
  <2> HIDE DEF V, low, W
  <2> QED
    BY <1>3, <2>1, <2>5, <2>6
<1>8. Cardinality((1..n) \ taken) >= r
  <2>1. IsFiniteSet(1..n) /\ Cardinality(1..n) = n
    <3>1. 1 \in Int /\ n \in Int
      OBVIOUS
    <3>2. IsFiniteSet(1..n) /\ Cardinality(1..n) = IF 1 > n THEN 0 ELSE n - 1 + 1
      BY <3>1, FS_Interval, Zenon
    <3> QED
      BY <3>2
  <2>2. Cardinality((1..n) \ taken) = n - Cardinality(low)
    BY <2>1, FS_Difference
  <2> HIDE DEF low, Z, W
  <2> QED
    BY <2>2, <1>3, <1>4, <1>5, <1>6, <1>7
<1>9. \E k \in 1..n : k \notin taken /\ Cardinality((1..k) \ taken) = r
  BY <1>8, FreeNumber
<1> QED
  BY <1>1, <1>2, <1>6, <1>9

LEMMA NumberBuilt ==
  ASSUME NEW t, Sound(t), NEW m \in Messages, NEW p \in Places(t, m), NumberAt(t, m, p) = 0
  PROVE  LET taken == {NumberAt(t, m, q) : q \in Places(t, m)}
             k == BuiltNumber(t, m, p)
         IN k \in Nat \ {0} /\ k \notin taken /\ Cardinality((1..k) \ taken) = Rank(t, m, p)
<1> DEFINE P == Places(t, m)
           number == [q \in P |-> NumberAt(t, m, q)]
           taken == {NumberAt(t, m, q) : q \in P}
           before == {q \in P : NumberAt(t, m, q) = 0 /\ (q[1] < p[1] \/ (q[1] = p[1] /\ q[2] <= p[2]))}
           k == BuiltNumber(t, m, p)
<1>1. IsFiniteSet(P) /\ Cardinality(P) \in Nat
  BY PlacesFinite, FS_CardinalityType DEF Sound
<1>2. number \in [P -> Nat]
  BY PlaceFacts, TreeTypes, BuilderAssumption DEF NumberAt, Sound
<1>3. before \subseteq {q \in P : number[q] = 0} /\ before # {}
  BY PlaceFacts
<1>4. \E j \in 1..Cardinality(P) :
        /\ j \notin {number[q] : q \in P}
        /\ Cardinality((1..j) \ {number[q] : q \in P}) = Cardinality(before)
  <2> HIDE DEF P, number, before
  <2> QED
    BY <1>1, <1>2, <1>3, NumberFound
<1>5. {number[q] : q \in P} = taken
  OBVIOUS
<1>6. Rank(t, m, p) = Cardinality(before)
  BY DEF Rank
<1>7. k = CHOOSE j \in 1..Cardinality(P) : j \notin taken /\ Cardinality((1..j) \ taken) = Rank(t, m, p)
  BY DEF BuiltNumber
<1>8. \E j \in 1..Cardinality(P) : j \notin taken /\ Cardinality((1..j) \ taken) = Rank(t, m, p)
  <2> HIDE DEF P, number, before, taken
  <2> QED
    BY <1>4, <1>5, <1>6
<1>9. k \in 1..Cardinality(P) /\ k \notin taken /\ Cardinality((1..k) \ taken) = Rank(t, m, p)
  <2> HIDE DEF P, number, before, taken
  <2> QED
    BY <1>7, <1>8
<1>10. k \in Nat \ {0}
  <2> HIDE DEF P, number, before, taken, k
  <2> QED
    BY <1>1, <1>9
<1> QED
  BY <1>9, <1>10

\* Two fields without a number have different ranks.
LEMMA RanksDiffer ==
  ASSUME NEW t, Sound(t), NEW m \in Messages, NEW p \in Places(t, m), NEW q \in Places(t, m),
         NumberAt(t, m, p) = 0, NumberAt(t, m, q) = 0, p # q
  PROVE  Rank(t, m, p) # Rank(t, m, q)
<1> DEFINE upTo(x) == {z \in Places(t, m) : NumberAt(t, m, z) = 0 /\
                         (z[1] < x[1] \/ (z[1] = x[1] /\ z[2] <= x[2]))}
<1>1. \A z \in Places(t, m) : z = <<z[1], z[2]>> /\ z[1] \in Nat /\ z[2] \in Nat
  BY PlaceFacts
<1>2. ASSUME NEW x \in Places(t, m), NEW y \in Places(t, m), NumberAt(t, m, y) = 0,
             x[1] < y[1] \/ (x[1] = y[1] /\ x[2] < y[2])
      PROVE  Cardinality(upTo(x)) # Cardinality(upTo(y))
  <2>1. IsFiniteSet(upTo(y))
    BY PlacesFinite, FS_Subset DEF Sound
  <2>2. upTo(x) \in SUBSET upTo(y)
    <3> SUFFICES ASSUME NEW z \in upTo(x)
                 PROVE  z \in upTo(y)
      OBVIOUS
    <3> QED
      BY <1>1, <1>2
  <2>3. y \in upTo(y) /\ y \notin upTo(x)
    BY <1>1, <1>2
  <2> HIDE DEF upTo
  <2> QED
    BY <2>1, <2>2, <2>3, FS_Subset
<1>3. p[1] # q[1] \/ p[2] # q[2]
  BY <1>1
<1>4. \/ p[1] < q[1] \/ (p[1] = q[1] /\ p[2] < q[2])
      \/ q[1] < p[1] \/ (q[1] = p[1] /\ q[2] < p[2])
  BY <1>1, <1>3
<1>5. Rank(t, m, p) = Cardinality(upTo(p)) /\ Rank(t, m, q) = Cardinality(upTo(q))
  BY DEF Rank
<1> HIDE DEF upTo
<1> QED
  BY <1>2, <1>4, <1>5

LEMMA GoodNumbers ==
  ASSUME Good(tree)
  PROVE  NumbersBuilt
<1> SUFFICES ASSUME NEW m \in Messages
             PROVE  \A p, q \in Places(tree, m) :
                      /\ p # q => BuiltNumber(tree, m, p) # BuiltNumber(tree, m, q)
                      /\ BuiltNumber(tree, m, p) \in Nat \ {0}
                      /\ NumberAt(tree, m, p) # 0 => BuiltNumber(tree, m, p) = NumberAt(tree, m, p)
  BY DEF NumbersBuilt
<1> SUFFICES ASSUME NEW p \in Places(tree, m), NEW q \in Places(tree, m)
             PROVE  /\ p # q => BuiltNumber(tree, m, p) # BuiltNumber(tree, m, q)
                    /\ BuiltNumber(tree, m, p) \in Nat \ {0}
                    /\ NumberAt(tree, m, p) # 0 => BuiltNumber(tree, m, p) = NumberAt(tree, m, p)
  OBVIOUS
<1> DEFINE taken == {NumberAt(tree, m, z) : z \in Places(tree, m)}
<1>1. Sound(tree) /\ TagsMatch(tree)
  BY DEF Good
<1>2. \A z \in Places(tree, m) : NumberAt(tree, m, z) # 0 => BuiltNumber(tree, m, z) = NumberAt(tree, m, z)
  BY DEF BuiltNumber
<1>3. \A z \in Places(tree, m) : NumberAt(tree, m, z) \in 0..MaxTag /\ NumberAt(tree, m, z) \in taken
  BY <1>1, PlaceFacts, TreeTypes DEF NumberAt, Sound
<1>4. \A z \in Places(tree, m) : NumberAt(tree, m, z) = 0 =>
        /\ BuiltNumber(tree, m, z) \in Nat \ {0} /\ BuiltNumber(tree, m, z) \notin taken
        /\ Cardinality((1..BuiltNumber(tree, m, z)) \ taken) = Rank(tree, m, z)
  BY <1>1, NumberBuilt
<1>5. ASSUME p # q, NumberAt(tree, m, p) # 0, NumberAt(tree, m, p) = NumberAt(tree, m, q)
      PROVE  FALSE
  <2> DEFINE f == FieldAt(tree, m, p)
             g == FieldAt(tree, m, q)
             i == NumberAt(tree, m, p)
  <2>1. f \in Fields /\ g \in Fields /\ In(tree, m, f) /\ In(tree, m, g) /\ f # g
    BY <1>1, <1>5, PlaceFacts
  <2>2. i \in 1..MaxTag /\ tree.number[f] = i /\ tree.number[g] = i
    BY <1>3, <1>5, BuilderAssumption DEF NumberAt
  <2> HIDE DEF f, g, i
  <2>3. tree.tags[m][i] = f /\ tree.tags[m][i] = g
    BY <1>1, <2>1, <2>2 DEF TagsMatch
  <2> QED
    BY <2>1, <2>3
<1>6. ASSUME p # q, NumberAt(tree, m, p) = 0, NumberAt(tree, m, q) = 0
      PROVE  BuiltNumber(tree, m, p) # BuiltNumber(tree, m, q)
  <2>1. Rank(tree, m, p) # Rank(tree, m, q)
    BY <1>1, <1>6, RanksDiffer
  <2> QED
    BY <1>4, <1>6, <2>1
<1> HIDE DEF taken
<1>7. p # q => BuiltNumber(tree, m, p) # BuiltNumber(tree, m, q)
  BY <1>2, <1>3, <1>4, <1>5, <1>6
<1>8. BuiltNumber(tree, m, p) \in Nat \ {0}
  <2>1. CASE NumberAt(tree, m, p) = 0
    BY <1>4, <2>1
  <2>2. CASE NumberAt(tree, m, p) # 0
    <3>1. NumberAt(tree, m, p) \in 0..MaxTag
      BY <1>3
    <3>2. NumberAt(tree, m, p) \in Nat \ {0}
      BY <2>2, <3>1, BuilderAssumption
    <3> QED
      BY <1>2, <2>2, <3>2
  <2> QED
    BY <2>1, <2>2
<1> QED
  BY <1>2, <1>7, <1>8

-----------------------------------------------------------------------------

\* Whatever calls are made, the tables and links stay well-formed (TypeOK), as long as the
\* calls keep clear of the cases that Careful excludes (AvoidedAdd, AvoidedRename).
THEOREM TreeTypeCorrect ==
  ASSUME Careful
  PROVE  Spec => []TypeOK
<1>1. TreeInv => TypeOK
  BY DEF TreeInv, TypeOK, Good, Sound
<1> QED
  BY <1>1, Inductive, PTL

\* Every symbol table lists exactly the members of its parent under the names they have
\* (addSymbol, removeChild and renamedChild of message.go, field.go, file.go), for any
\* careful sequence of calls.
THEOREM SymbolTablesExact ==
  ASSUME Careful
  PROVE  Spec => []SymbolsExact
<1>1. TreeInv => SymbolsExact
  BY GoodSymbols DEF TreeInv
<1> QED
  BY <1>1, Inductive, PTL

\* Every tag table lists exactly the numbered fields of its message, those in its oneofs
\* included (addTag, TrySetNumber, registerField), for any careful sequence of calls.
THEOREM TagTablesExact ==
  ASSUME Careful
  PROVE  Spec => []TagsExact
<1>1. TreeInv => TagsExact
  BY GoodTags DEF TreeInv
<1> QED
  BY <1>1, Inductive, PTL

\* Each builder is listed by its parent once and by no other, and the message of a group
\* is below its field (setParent, Unlink, removeChild), for any careful sequence of calls.
THEOREM ListsOfChildrenAgree ==
  ASSUME Careful
  PROVE  Spec => []ListsAgree
<1>1. TreeInv => ListsAgree
  BY GoodLists DEF TreeInv
<1> QED
  BY <1>1, Inductive, PTL

\* Build gives every field of a message a positive number that no other has and keeps
\* those that were set (buildProto of message.go), for any careful sequence of calls.
THEOREM NumbersAreBuilt ==
  ASSUME Careful
  PROVE  Spec => []NumbersBuilt
<1>1. TreeInv => NumbersBuilt
  BY GoodNumbers DEF TreeInv
<1> QED
  BY <1>1, Inductive, PTL

\* A call that is refused leaves every builder as it was: registerField, TryAddOneOf,
\* TryAddChoice, the renamedChild of oneofs and groups, setName and TrySetNumber undo all
\* they did before the error, for any careful sequence of calls.
THEOREM RefusedCallsChangeNothing ==
  ASSUME Careful
  PROVE  Spec => RefusalsChangeNothing
<1>1. TreeInv /\ [Next]_vars => [outcome' = "refused" => UNCHANGED tree]_vars
  <2> SUFFICES ASSUME TreeInv, Next, outcome' = "refused"
               PROVE  UNCHANGED tree
    BY DEF vars
  <2> QED
    BY NextKept DEF TreeInv, Kept
<1> QED
  BY <1>1, Inductive, PTL DEF Spec, RefusalsChangeNothing

=============================================================================
