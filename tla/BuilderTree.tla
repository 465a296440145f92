----------------------------- MODULE BuilderTree -----------------------------
(***************************************************************************)
(* The hierarchy of builders (protobuilder): elements are added to others, *)
(* moved, renamed, renumbered and removed, and every step keeps the symbol *)
(* and tag tables of the parents, the lists of children and the links of   *)
(* the children to their parents (builder.go, message.go, field.go,        *)
(* file.go; enum.go and service.go do as file.go does).                    *)
(*                                                                         *)
(* Builders are not for concurrent use: each call is one action.  A call   *)
(* that is refused returns an error.                                       *)
(***************************************************************************)
EXTENDS Integers, Sequences, FiniteSets, SequencesExt

CONSTANTS
  Plain,        \* files, and enums and services: parents with a symbol table only
  Messages, Oneofs,
  Fields,       \* fields that are not extensions
  Leaves,       \* extensions, enum values, methods: they hold nothing
  Names,
  Capital,      \* the names that start with a capital letter
  FirstName,    \* the name each element is made with
  GroupName,    \* the name of a field made for a group of that name, in lower case
  Group,        \* the message a field is made with, NoBuilder unless it is a group
  Holds,        \* the pairs of a parent and an element that is added to it
  Renamed,      \* the elements that are renamed, and
  NewNames,     \* the names they are given
  MaxTag,
  NewNumbers,   \* the numbers each field is given, 0 for none
  Avoids,       \* the pitfalls the program keeps clear of
  NoBuilder

\* Calls known to go wrong: a oneof whose conflict is not at its first choice; a field
\* that is somewhere else added to a oneof without a message; a group in a oneof; and
\* a group given another name while its field is in a message.
Pitfalls == {"laterConflict", "looseOneof", "groupChoice", "groupName"}

Careful == Avoids = Pitfalls

Parents == Plain \cup Messages \cup Oneofs
Builders == Parents \cup Fields \cup Leaves

ASSUME BuilderAssumption ==
  /\ Plain \cap (Messages \cup Oneofs) = {} /\ Messages \cap Oneofs = {}
  /\ Parents \cap (Fields \cup Leaves) = {} /\ Fields \cap Leaves = {}
  /\ FirstName \in [Builders -> Names]
  /\ Capital \subseteq Names /\ GroupName \in [Capital -> Names \ Capital]
  /\ Group \in [Fields -> Messages \cup {NoBuilder}]
  /\ \A f, g \in Fields : Group[f] = Group[g] => f = g \/ Group[f] = NoBuilder
  /\ \A f \in Fields : Group[f] # NoBuilder =>
       FirstName[Group[f]] \in Capital /\ FirstName[f] = GroupName[FirstName[Group[f]]]
  /\ Holds \subseteq Parents \X Builders
  /\ Renamed \subseteq Builders /\ NewNames \in [Renamed -> SUBSET Names]
  /\ MaxTag \in Nat \ {0} /\ NewNumbers \in [Fields -> SUBSET (0..MaxTag)]
  /\ Avoids \subseteq Pitfalls
  /\ NoBuilder \notin Builders

VARIABLES
  tree,       \* all builders
  fieldType,  \* whether a field is of a group type
  outcome     \* history: how the latest call ended

vars == <<tree, fieldType, outcome>>

\* symbols and tags are the maps symbols and fieldTags; kids the lists of children
\* (fieldsAndOneofs, nestedMessages, ... of a message in one); a number is 0 while it
\* is not set; group is the msgType of a group field.
Trees ==
  [name : [Builders -> Names],
   parent : [Builders -> Builders \cup {NoBuilder}],
   kids : [Parents -> Seq(Builders)],
   symbols : [Parents -> [Names -> Builders \cup {NoBuilder}]],
   number : [Fields -> 0..MaxTag],
   tags : [Messages -> [1..MaxTag -> Fields \cup {NoBuilder}]],
   group : [Fields -> Messages \cup {NoBuilder}]]

Init ==
  /\ outcome = "done"
  /\ fieldType = [f \in Fields |-> IF Group[f] = NoBuilder THEN "other" ELSE "group"]
  /\ tree =
     [name |-> FirstName,
      parent |-> [b \in Builders |->
        IF \E f \in Fields : Group[f] = b THEN CHOOSE f \in Fields : Group[f] = b
        ELSE NoBuilder],
      kids |-> [p \in Parents |-> <<>>],
      symbols |-> [p \in Parents |-> [n \in Names |-> NoBuilder]],
      number |-> [f \in Fields |-> 0],
      tags |-> [m \in Messages |-> [i \in 1..MaxTag |-> NoBuilder]],
      group |-> Group]

-----------------------------------------------------------------------------
(* The tables of a parent. *)

Free(t, p, n) == t.symbols[p][n] = NoBuilder

\* addSymbol, for a name that is free.
WithSymbol(t, p, b) == [t EXCEPT !.symbols[p][t.name[b]] = b]

WithoutSymbol(t, p, n) == [t EXCEPT !.symbols[p][n] = NoBuilder]

\* addTag; delete(fieldTags, number).  Number 0 is in no table.
TagFree(t, m, i) == i = 0 \/ t.tags[m][i] = NoBuilder

\* Fault: a number that is not set is recorded like any other.
WithTagAlways(t, m, f) == [t EXCEPT !.tags[m] = (t.number[f] :> f) @@ @]

WithTag(t, m, f) ==
  IF t.number[f] = 0 THEN t ELSE [t EXCEPT !.tags[m][t.number[f]] = f]

WithoutTag(t, m, i) == IF i = 0 THEN t ELSE [t EXCEPT !.tags[m][i] = NoBuilder]

\* registerField: the name, the tag and the name of the group, in this order.
CanRegister(t, m, f) ==
  /\ Free(t, m, t.name[f])
  /\ TagFree(t, m, t.number[f])
  /\ t.group[f] # NoBuilder => Free(t, m, t.name[t.group[f]])

RegisteredField(t, m, f) ==
  LET u == WithTag(WithSymbol(t, m, f), m, f) IN
  IF t.group[f] = NoBuilder THEN u ELSE WithSymbol(u, m, t.group[f])

\* Fault: the tag stays.
RefusedFieldKeepingTag(t, m, f) ==
  IF Free(t, m, t.name[f]) /\ TagFree(t, m, t.number[f])
  THEN WithoutSymbol(WithTag(WithSymbol(t, m, f), m, f), m, t.name[f])
  ELSE t

\* What a registerField leaves that fails: at the name, at the tag or at the group.
RefusedField(t, m, f) ==
  LET u == WithSymbol(t, m, f)
      name == t.name[f]
  IN IF ~Free(t, m, name) THEN t
     ELSE IF ~TagFree(t, m, t.number[f]) THEN WithoutSymbol(u, m, name)
     ELSE WithoutTag(WithoutSymbol(WithTag(u, m, f), m, name), m, t.number[f])

\* Fault: the name of the group stays.
ForgottenFieldNotGroup(t, m, f) == WithoutTag(WithoutSymbol(t, m, t.name[f]), m, t.number[f])

\* What a message forgets of a field.
ForgottenField(t, m, f) ==
  LET u == WithoutTag(WithoutSymbol(t, m, t.name[f]), m, t.number[f]) IN
  IF t.group[f] = NoBuilder THEN u ELSE WithoutSymbol(u, m, t.name[t.group[f]])

\* Several names and numbers at once.
Forgotten(t, m, names, numbers) ==
  [t EXCEPT
    !.symbols[m] = [n \in Names |-> IF n \in names THEN NoBuilder ELSE @[n]],
    !.tags[m] = [i \in 1..MaxTag |-> IF i \in numbers THEN NoBuilder ELSE @[i]]]

NamesOf(t, set) == {t.name[b] : b \in set}
NumbersOf(t, set) == {t.number[f] : f \in set}

\* Several elements at once, none of which conflicts with another.
Listed(t, m, set) ==
  [t EXCEPT
    !.symbols[m] = [n \in Names |->
      IF n \in NamesOf(t, set) THEN CHOOSE b \in set : t.name[b] = n ELSE @[n]],
    !.tags[m] = [i \in 1..MaxTag |->
      IF i \in NumbersOf(t, set \cap Fields) THEN CHOOSE f \in set \cap Fields : t.number[f] = i
      ELSE @[i]]]

-----------------------------------------------------------------------------
(* Unlinking. *)

\* deleteBuilder and setParent(nil); names are unique among the children of one list.
Detached(t, p, b) == [t EXCEPT !.kids[p] = RemoveFirst(@, b), !.parent[b] = NoBuilder]

\* Fault: the tags of the choices stay with the message.
OneofRemovedFromMessageKeepingTags(t, m, o) ==
  Detached(Forgotten(t, m, NamesOf(t, Range(t.kids[o]) \cup {o}), {}), m, o)

\* MessageBuilder.removeChild, of a oneof.
OneofRemovedFromMessage(t, m, o) ==
  LET choices == Range(t.kids[o])
  IN Detached(Forgotten(t, m, NamesOf(t, choices \cup {o}), NumbersOf(t, choices)), m, o)

\* OneofBuilder.removeChild.
ChoiceRemoved(t, o, f) ==
  LET m == t.parent[o]
      u == WithoutSymbol(t, o, t.name[f])
  IN Detached(IF m = NoBuilder THEN u ELSE ForgottenField(u, m, f), o, f)

\* Fault: the field keeps its type.
GroupRemovedKeepingType(t, f) ==
  IF t.parent[f] \in Messages THEN WithoutSymbol(t, t.parent[f], t.name[t.group[f]]) ELSE t

\* FieldBuilder.removeChild: the message keeps its link to the field.
GroupRemoved(t, f) ==
  LET g == t.group[f]
      u == [t EXCEPT !.group[f] = NoBuilder]
  IN IF t.parent[f] \in Messages THEN WithoutSymbol(u, t.parent[f], t.name[g]) ELSE u

\* Unlink, with the removeChild of the parent.
Unlinked(t, b) ==
  LET p == t.parent[b] IN
  CASE p = NoBuilder -> t
    [] p \in Fields -> IF t.group[p] = b THEN GroupRemoved(t, p) ELSE t
    [] p \in Oneofs -> ChoiceRemoved(t, p, b)
    [] p \in Messages /\ b \in Oneofs -> OneofRemovedFromMessage(t, p, b)
    [] p \in Messages /\ b \in Fields -> Detached(ForgottenField(t, p, b), p, b)
    [] OTHER -> Detached(WithoutSymbol(t, p, t.name[b]), p, b)

\* setParent and the append to the list of children.
Linked(t, p, b) == [t EXCEPT !.parent[b] = p, !.kids[p] = Append(@, b)]

-----------------------------------------------------------------------------
(* The calls. *)

Done(t) == tree' = t /\ outcome' = "done" /\ UNCHANGED fieldType

\* t is what has not been undone.
Refuse(t) == tree' = t /\ outcome' = "refused" /\ UNCHANGED fieldType

\* TryAddMessage, TryAddEnum, TryAddExtension and TryAddService of a file,
\* TryAddNestedEnum and TryAddNestedExtension, TryAddValue, TryAddMethod.
AddPlain(p, b) ==
  /\ \/ p \in Plain /\ b \notin Oneofs \cup Fields
     \/ p \in Messages /\ b \in Plain \cup Leaves
  /\ IF Free(tree, p, tree.name[b])
     THEN Done(Linked(Unlinked(WithSymbol(tree, p, b), b), p, b))
     ELSE Refuse(tree)

PresentButNotChild(t, m, b) == t.parent[b] # m /\ t.symbols[m][t.name[b]] = b

\* TryAddNestedMessage: a group's message that is already in the table of m leaves
\* its field first.
AddNestedMessage(m, b) ==
  /\ m \in Messages /\ b \in Messages
  /\ IF PresentButNotChild(tree, m, b)
     THEN Done(Linked(WithSymbol(Unlinked(tree, b), m, b), m, b))
     ELSE IF Free(tree, m, tree.name[b])
     THEN Done(Linked(Unlinked(WithSymbol(tree, m, b), b), m, b))
     ELSE Refuse(tree)

\* TryAddField: a choice of one of m's own oneofs leaves it first, and is an orphan if
\* m refuses it then.
AddField(m, f) ==
  LET t == Unlinked(tree, f) IN
  /\ m \in Messages /\ f \in Fields
  /\ IF PresentButNotChild(tree, m, f)
     THEN IF CanRegister(t, m, f)
          THEN Done(Linked(RegisteredField(t, m, f), m, f))
          ELSE Refuse(RefusedField(t, m, f))
     ELSE IF CanRegister(tree, m, f)
     THEN Done(Linked(Unlinked(RegisteredField(tree, m, f), f), m, f))
     ELSE Refuse(RefusedField(tree, m, f))

\* What is registered when the first i choices of o have been, with their groups.
RegisteredUpTo(m, o, i) ==
  LET choices == {tree.kids[o][j] : j \in 1..i}
  IN Listed(tree, m, choices \cup {o} \cup ({tree.group[f] : f \in choices} \ {NoBuilder}))

\* The first choice that conflicts, or one past the last.
Conflict(m, o) ==
  CHOOSE i \in 1..Len(tree.kids[o]) + 1 :
    /\ i <= Len(tree.kids[o]) => ~CanRegister(RegisteredUpTo(m, o, i - 1), m, tree.kids[o][i])
    /\ \A j \in 1..i - 1 : CanRegister(RegisteredUpTo(m, o, j - 1), m, tree.kids[o][j])

\* Fault: the oneof itself stays registered.
TakenBackChoices(t, m, o, choices) ==
  Forgotten(t, m, NamesOf(t, choices), NumbersOf(t, choices))

\* After a conflict.
TakenBack(t, m, o, choices) ==
  Forgotten(t, m, NamesOf(t, choices \cup {o}), NumbersOf(t, choices))

\* TryAddOneOf.  A conflict at choice i takes the oneof and choices 2 to i - 1 back.
AddOneOf(m, o) ==
  LET i == Conflict(m, o)
      t == RegisteredUpTo(m, o, i - 1)
      back == {tree.kids[o][j] : j \in 2..i - 1}
  IN
  /\ m \in Messages /\ o \in Oneofs
  /\ IF ~Free(tree, m, tree.name[o]) THEN Refuse(tree)
     ELSE IF i > Len(tree.kids[o]) THEN Done(Linked(Unlinked(t, o), m, o))
     ELSE Refuse(TakenBack(RefusedField(t, m, tree.kids[o][i]), m, o, back))

\* TryAddChoice.  A oneof that has no message does not unlink the field; one that has
\* a message forgets the name again if the message refuses the field, unless the
\* field was the message's already.
AddChoice(o, f) ==
  LET m == tree.parent[o]
      t == WithSymbol(tree, o, f)
      u == Unlinked(t, f)
  IN
  /\ o \in Oneofs /\ f \in Fields
  /\ IF ~Free(tree, o, tree.name[f]) THEN Refuse(tree)
     ELSE IF m = NoBuilder THEN Done(Linked(t, o, f))
     ELSE IF PresentButNotChild(tree, m, f)
     THEN IF CanRegister(u, m, f)
          THEN Done(Linked(RegisteredField(u, m, f), o, f))
          ELSE Refuse(RefusedField(u, m, f))
     ELSE IF CanRegister(tree, m, f)
     THEN Done(Linked(Unlinked(RegisteredField(t, m, f), f), o, f))
     ELSE Refuse(WithoutSymbol(RefusedField(t, m, f), o, tree.name[f]))

Add(p, b) ==
  AddPlain(p, b) \/ AddNestedMessage(p, b) \/ AddField(p, b) \/ AddOneOf(p, b) \/ AddChoice(p, b)

\* TryRemoveField, TryRemoveNestedMessage and all the others: by name.
TakeOut(p, n) ==
  /\ tree.symbols[p][n] # NoBuilder
  /\ Done(Unlinked(tree, tree.symbols[p][n]))

Named(t, b, n) == [t EXCEPT !.name[b] = n]

\* setName of a child with the renamedChild of its parent, if there is no error.
SetName(t, b, n) ==
  LET p == t.parent[b]
      m == IF p \in Oneofs THEN t.parent[p] ELSE NoBuilder
      u == Named(t, b, n)
      moved(v, q) == WithoutSymbol(WithSymbol(v, q, b), q, t.name[b])
  IN
  CASE n = t.name[b] -> [ok |-> TRUE, tree |-> t]
    [] n # t.name[b] /\ p \notin Parents -> [ok |-> TRUE, tree |-> u]
    [] n # t.name[b] /\ p \in Parents /\ m = NoBuilder ->
         [ok |-> Free(t, p, n), tree |-> moved(u, p)]
    [] OTHER ->
         [ok |-> Free(t, p, n) /\ Free(t, m, n), tree |-> moved(moved(u, p), m)]

\* What it leaves after an error: a oneof had the new name if its message refused it.
NameRefused(t, b, n) ==
  LET o == t.parent[b]
      u == Named(t, b, n)
  IN Named(IF o \in Oneofs /\ Free(t, o, n) THEN WithoutSymbol(WithSymbol(u, o, b), o, n) ELSE u,
           b, t.name[b])

\* The message of a group takes its field along; what the message was called stays
\* in the table.
SetGroupName(t, b, n) ==
  LET f == t.parent[b]
      r == SetName(Named(t, b, n), f, GroupName[n])
      listed == t.parent[f] \in Messages
  IN IF n \notin Capital THEN [ok |-> FALSE, tree |-> t]
     ELSE [ok |-> r.ok /\ (listed => Free(r.tree, t.parent[f], n)),
           tree |-> IF listed THEN WithSymbol(r.tree, t.parent[f], b) ELSE r.tree]

\* What it leaves after an error: the field gets its old name back if it is the
\* message above that refused the group's.
GroupNameRefused(t, b, n) ==
  LET f == t.parent[b]
      u == Named(t, b, n)
      r == SetName(u, f, GroupName[n])
  IN Named(IF n \notin Capital THEN u
           ELSE IF r.ok THEN SetName(r.tree, f, t.name[f]).tree
           ELSE NameRefused(u, f, GroupName[n]),
           b, t.name[b])

IsGroupOf(t, b) == t.parent[b] \in Fields /\ t.group[t.parent[b]] = b

\* TrySetName checks: the name of a group's field is changed with that of the group,
\* and a message below a field that is of no group type is taken for a map entry.
NameIsFixed(b) ==
  \/ b \in Fields /\ tree.group[b] # NoBuilder
  \/ tree.parent[b] \in Fields /\ fieldType[tree.parent[b]] # "group"

\* TrySetName.
Rename(b, n) ==
  LET isGroup == IsGroupOf(tree, b)
      r == IF isGroup THEN SetGroupName(tree, b, n) ELSE SetName(tree, b, n)
  IN
  /\ n # tree.name[b]
  /\ IF NameIsFixed(b) THEN Refuse(tree)
     ELSE IF r.ok THEN Done(r.tree)
     ELSE Refuse(IF isGroup THEN GroupNameRefused(tree, b, n) ELSE NameRefused(tree, b, n))

\* The message in whose tables a field is.
MessageOf(t, f) == IF t.parent[f] \in Oneofs THEN t.parent[t.parent[f]] ELSE t.parent[f]

\* TrySetNumber.
SetNumber(f, i) ==
  LET m == MessageOf(tree, f)
      t == [tree EXCEPT !.number[f] = i]
  IN
  /\ i # tree.number[f]
  /\ IF m = NoBuilder THEN Done(t)
     ELSE IF TagFree(tree, m, i) THEN Done(WithoutTag(WithTag(t, m, f), m, tree.number[f]))
     ELSE Refuse([t EXCEPT !.number[f] = tree.number[f]])

\* SetType, of a group field that is to be no group any more.
SetType(f) ==
  /\ fieldType[f] = "group"
  /\ fieldType' = [fieldType EXCEPT ![f] = "other"]
  /\ tree' = IF tree.group[f] = NoBuilder THEN tree ELSE Unlinked(tree, tree.group[f])
  /\ outcome' = "done"

-----------------------------------------------------------------------------
(* MessageBuilder.buildProto: the fields in order, and their numbers. *)

\* Where the fields of a message are: <<i, 0>> is the i-th child itself, <<i, j>> the
\* j-th choice of a oneof that is the i-th child.
Places(t, m) ==
  {<<i, 0>> : i \in {k \in DOMAIN t.kids[m] : t.kids[m][k] \in Fields}} \cup
  UNION {{<<i, j>> : j \in DOMAIN t.kids[t.kids[m][i]]} :
           i \in {k \in DOMAIN t.kids[m] : t.kids[m][k] \in Oneofs}}

FieldAt(t, m, p) == IF p[2] = 0 THEN t.kids[m][p[1]] ELSE t.kids[t.kids[m][p[1]]][p[2]]

NumberAt(t, m, p) == t.number[FieldAt(t, m, p)]

\* How many fields without a number there are up to a place.
Rank(t, m, p) ==
  Cardinality({q \in Places(t, m) : NumberAt(t, m, q) = 0 /\
                 (q[1] < p[1] \/ (q[1] = p[1] /\ q[2] <= p[2]))})

\* Fault: the numbers that are taken are not skipped.
BuiltNumberCounting(t, m, p) ==
  IF NumberAt(t, m, p) # 0 THEN NumberAt(t, m, p) ELSE Rank(t, m, p)

\* The i-th field without a number is given the i-th number nobody has.
BuiltNumber(t, m, p) ==
  LET taken == {NumberAt(t, m, q) : q \in Places(t, m)} IN
  IF NumberAt(t, m, p) # 0 THEN NumberAt(t, m, p)
  ELSE CHOOSE k \in 1..Cardinality(Places(t, m)) :
         k \notin taken /\ Cardinality((1..k) \ taken) = Rank(t, m, p)

-----------------------------------------------------------------------------

AvoidedAdd(p, b) ==
  \/ /\ "laterConflict" \in Avoids /\ b \in Oneofs /\ p \in Messages
     /\ Conflict(p, b) \in 2..Len(tree.kids[b])
  \/ /\ "looseOneof" \in Avoids /\ p \in Oneofs /\ b \in Fields
     /\ tree.parent[p] = NoBuilder /\ tree.parent[b] # NoBuilder
  \/ /\ "groupChoice" \in Avoids /\ p \in Oneofs /\ b \in Fields
     /\ tree.group[b] # NoBuilder

AvoidedRename(b, n) ==
  /\ "groupName" \in Avoids /\ IsGroupOf(tree, b)
  /\ tree.parent[tree.parent[b]] # NoBuilder /\ SetGroupName(tree, b, n).ok

Next ==
  \/ \E h \in Holds : ~AvoidedAdd(h[1], h[2]) /\ Add(h[1], h[2])
  \/ \E p \in Parents, n \in Names : TakeOut(p, n)
  \/ \E b \in Renamed : \E n \in NewNames[b] : ~AvoidedRename(b, n) /\ Rename(b, n)
  \/ \E f \in Fields : \E i \in NewNumbers[f] : SetNumber(f, i)
  \/ \E f \in Fields : SetType(f)

Spec == Init /\ [][Next]_vars

-----------------------------------------------------------------------------

TypeOK ==
  /\ tree \in Trees /\ fieldType \in [Fields -> {"group", "other"}]
  /\ outcome \in {"done", "refused"}

\* The elements whose names have to differ in p: its children and, in a message, the
\* choices of its oneofs and the messages of its group fields.
Members(t, p) ==
  LET kids == Range(t.kids[p])
      fields == kids \cup UNION {Range(t.kids[o]) : o \in kids \cap Oneofs}
  IN IF p \notin Messages THEN kids
     ELSE fields \cup ({t.group[f] : f \in fields \cap Fields} \ {NoBuilder})

\* The symbol table of every parent lists exactly its members, each under the name it
\* has now, whatever was moved, renamed or removed in whatever order (findChild and
\* every check for a conflict read the table; Build fails on what it misses).
SymbolsExact ==
  \A p \in Parents :
    LET members == Members(tree, p) IN
    \A n \in Names : {b \in members : tree.name[b] = n} = {tree.symbols[p][n]} \ {NoBuilder}

\* The tag table of every message lists exactly the numbered fields that are built
\* into it, choices of its oneofs included (addTag reads it).
TagsExact ==
  \A m \in Messages :
    LET fields == Members(tree, m) \cap Fields IN
    \A i \in 1..MaxTag : {f \in fields : tree.number[f] = i} = {tree.tags[m][i]} \ {NoBuilder}

\* Each builder is listed by the parent it has, once, and by no other, and the message
\* of a group is below its field (the hierarchy keeps referential integrity: builder.go,
\* setParent with the appends and removals of each parent).  It does not say that a
\* message below a field is the field's: FieldBuilder.removeChild leaves the message of
\* a group that was taken out with its link, though GetParent is documented to be nil.
ListsAgree ==
  \A b \in Builders :
    /\ \A p \in Parents :
         Cardinality({i \in DOMAIN tree.kids[p] : tree.kids[p][i] = b}) =
           (IF tree.parent[b] = p THEN 1 ELSE 0)
    /\ \A f \in Fields : tree.group[f] = b => tree.parent[b] = f

\* Every field of a built message has a number, different from those of all others,
\* the numbers that were assigned included, and one that was set is the one that is
\* built (buildProto).
NumbersBuilt ==
  \A m \in Messages :
    LET places == Places(tree, m)
        built == [p \in places |-> BuiltNumber(tree, m, p)]
    IN
    /\ \A p, q \in places : p # q => built[p] # built[q]
    /\ \A p \in places : built[p] \in Nat \ {0}
    /\ \A p \in places : NumberAt(tree, m, p) # 0 => built[p] = NumberAt(tree, m, p)

\* A call that is refused leaves every builder as it was (registerField, TryAddOneOf:
\* "must undo all additions we've made so far", TryAddChoice, renamedChild, setName and
\* TrySetNumber undo what they did before the error).
RefusalsChangeNothing == [][outcome' = "refused" => UNCHANGED tree]_vars

=============================================================================
