--------------------------- MODULE SourceInfoProofs ---------------------------
(***************************************************************************)
(* Proofs about SourceInfo, for any files and imports, any data and any    *)
(* number of callers: typing, one info per file, and, in programs that     *)
(* register info in the order packages are initialized, one answer per     *)
(* file, real failures only, and references that are all upgraded.         *)
(***************************************************************************)
EXTENDS SourceInfo, TLAPS

LEMMA NeedsFacts ==
  ASSUME NEW f \in Files
  PROVE  /\ Imports[f] \subseteq Files /\ Needs[f] \subseteq Files
         /\ f \in Needs[f]
         /\ Imports[f] \subseteq Needs[f]
         /\ \A g \in Needs[f] : Needs[g] \subseteq Needs[f]
         /\ \A h \in Needs[f] : h = f \/ \E g \in Imports[f] : h \in Needs[g]
<1>1. /\ Imports[f] \subseteq Files /\ Needs[f] \subseteq Files
      /\ Needs[f] = {f} \cup UNION {Needs[g] : g \in Imports[f]}
      /\ \A g \in Needs[f] : Needs[g] \subseteq Needs[f]
  BY SourceInfoAssumption
<1>2. ASSUME NEW g \in Imports[f] PROVE g \in Needs[f]
  <2>1. g \in Files /\ g \in Needs[g]
    BY <1>1, SourceInfoAssumption
  <2> QED
    BY <1>1, <2>1
<1> QED
  BY <1>1, <1>2

-----------------------------------------------------------------------------
(* Typing. *)

\* TypeOK is kept by every step.
LEMMA TypeStep == TypeOK /\ [Next]_vars => TypeOK'
<1> SUFFICES ASSUME TypeOK, [Next]_vars PROVE TypeOK'
  OBVIOUS
<1> USE DEF TypeOK
<1>1. ASSUME NEW f \in Files, Register(f) PROVE TypeOK'
  BY <1>1 DEF Register
<1>2. ASSUME NEW c \in Callers, NEW f \in Files, NEW op \in {"getFile", "ForFile"}, Call(c, op, f)
      PROVE  TypeOK'
  BY <1>2 DEF Call
<1>3. ASSUME NEW c \in Callers, ReadFile(c) PROVE TypeOK'
  BY <1>3 DEF ReadFile, Answered
<1>4. ASSUME NEW c \in Callers, LockFile(c) PROVE TypeOK'
  BY <1>4 DEF LockFile, Answered, BuiltMeanwhile
<1>5. ASSUME NEW c \in Callers, ReadInfo(c) PROVE TypeOK'
  <2>1. given'[file[c]] \subseteq Callers /\ given' \in [Files -> SUBSET Callers]
    BY <1>5, SourceInfoAssumption DEF ReadInfo
  <2> QED
    BY <1>5, <2>1 DEF ReadInfo
<1>6. ASSUME NEW c \in Callers, StoreInfo(c) PROVE TypeOK'
  <2>1. StoredInfo(c, file[c]) \in Callers
    BY DEF StoredInfo
  <2> QED
    BY <1>6, <2>1 DEF StoreInfo
<1>7. ASSUME NEW c \in Callers, NEW g \in Files, Descend(c, g) PROVE TypeOK'
  BY <1>7 DEF Descend
<1>8. ASSUME NEW c \in Callers, NEW g \in Files, Build(c, g) PROVE TypeOK'
  <2> DEFINE unpacked == IF infos[g] = None /\ g \in registered THEN c ELSE infos[g]
  <2>1. unpacked \in Callers \cup {None}
    OBVIOUS
  <2>2. ASSUME NEW a \in {"itself", "upgraded", "error"}, Returns(c, g, a)
        PROVE  /\ todo' \subseteq Files /\ done' \subseteq Files
               /\ holder' \in Callers \cup {None}
               /\ pc' \in [Callers -> {"idle", "getFile", "lock", "getFileLocked", "ForFile", "unpack"}]
               /\ answers' \in [Files -> SUBSET {"itself", "upgraded", "error"}]
    BY <2>2 DEF Returns, Answered
  <2>3. /\ infos' \in [Files -> Callers \cup {None}] /\ upgraded' \subseteq Files
        /\ links' \in [Files -> SUBSET Files] /\ given' \in [Files -> SUBSET Callers]
    BY <1>8, <2>1 DEF Build
  <2>4. \E a \in {"itself", "upgraded", "error"} : Returns(c, g, a)
    BY <1>8 DEF Build
  <2> QED
    BY <1>8, <2>2, <2>3, <2>4 DEF Build
<1>9. CASE UNCHANGED vars
  BY <1>9 DEF vars
<1> QED
  BY <1>1, <1>2, <1>3, <1>4, <1>5, <1>6, <1>7, <1>8, <1>9 DEF Next

\* The variables keep their types.
THEOREM TypeCorrect == Spec => []TypeOK
<1>1. Init => TypeOK
  BY DEF Init, TypeOK
<1> QED
  BY <1>1, TypeStep, PTL DEF Spec

-----------------------------------------------------------------------------
(* One info per file. *)

\* Info that was unpacked is never unpacked again: what is handed out is what is stored.
InfoInv ==
  /\ \A f \in Files : infos[f] # None => f \in registered /\ content[f] # "garbage"
  /\ \A f \in Files : \A a \in given[f] : infos[f] = a
  /\ \A c \in Callers : pc[c] = "unpack" => file[c] \in registered

LEMMA InfoStep == TypeOK /\ InfoInv /\ [Next]_vars => InfoInv'
<1> SUFFICES ASSUME TypeOK, InfoInv, [Next]_vars PROVE InfoInv'
  OBVIOUS
<1>0. /\ infos \in [Files -> Callers \cup {None}] /\ given \in [Files -> SUBSET Callers]
      /\ file \in [Callers -> Files] /\ None \notin Callers
      /\ DOMAIN pc = Callers
  BY SourceInfoAssumption DEF TypeOK
<1>1. ASSUME NEW f \in Files, Register(f) PROVE InfoInv'
  BY <1>1 DEF Register, InfoInv
<1>2. ASSUME NEW c \in Callers, NEW f \in Files, NEW op \in {"getFile", "ForFile"}, Call(c, op, f)
      PROVE  InfoInv'
  BY <1>0, <1>2 DEF Call, InfoInv
<1>3. ASSUME NEW c \in Callers, ReadFile(c) PROVE InfoInv'
  BY <1>0, <1>3 DEF ReadFile, InfoInv
<1>4. ASSUME NEW c \in Callers, LockFile(c) PROVE InfoInv'
  BY <1>0, <1>4 DEF LockFile, InfoInv
<1>5. ASSUME NEW c \in Callers, ReadInfo(c) PROVE InfoInv'
  <2>1. \A f \in Files : given'[f] \subseteq given[f] \cup ({infos[f]} \ {None})
    BY <1>0, <1>5 DEF ReadInfo
  <2>2. \A d \in Callers : pc'[d] = "unpack" => file[d] \in registered
    BY <1>0, <1>5 DEF ReadInfo, InfoInv
  <2> QED
    BY <1>5, <2>1, <2>2 DEF ReadInfo, InfoInv
<1>6. ASSUME NEW c \in Callers, StoreInfo(c) PROVE InfoInv'
  <2> DEFINE f == file[c]
  <2>1. f \in Files /\ f \in registered
    BY <1>0, <1>6 DEF StoreInfo, InfoInv
  <2>2. \A d \in Callers : pc'[d] = "unpack" => pc[d] = "unpack"
    BY <1>0, <1>6 DEF StoreInfo
  <2>3. CASE content[f] = "garbage"
    BY <1>6, <2>2, <2>3 DEF StoreInfo, InfoInv
  <2>4. CASE content[f] # "garbage"
    <3>1. /\ infos' = [infos EXCEPT ![f] = StoredInfo(c, f)]
          /\ given' = [given EXCEPT ![f] = @ \cup {StoredInfo(c, f)}]
          /\ UNCHANGED <<content, registered, file>>
      BY <1>6, <2>4 DEF StoreInfo
    <3>2. infos[f] # None => StoredInfo(c, f) = infos[f]
      BY DEF StoredInfo
    <3>3. \A a \in given[f] : infos[f] = a /\ a # None
      BY <1>0, <2>1 DEF InfoInv
    <3>4. \A g \in Files : \A a \in given'[g] : infos'[g] = a
      BY <1>0, <2>1, <3>1, <3>2, <3>3 DEF InfoInv
    <3>5. \A g \in Files : infos'[g] # None => g \in registered /\ content[g] # "garbage"
      BY <1>0, <2>1, <2>4, <3>1 DEF InfoInv
    <3> QED
      BY <2>2, <3>1, <3>4, <3>5 DEF InfoInv
  <2> QED
    BY <2>3, <2>4
<1>7. ASSUME NEW c \in Callers, NEW g \in Files, Descend(c, g) PROVE InfoInv'
  BY <1>7 DEF Descend, InfoInv
<1>8. ASSUME NEW c \in Callers, NEW g \in Files, Build(c, g) PROVE InfoInv'
  <2> DEFINE unpacked == IF infos[g] = None /\ g \in registered THEN c ELSE infos[g]
  <2>1. \A d \in Callers : pc'[d] = "unpack" => pc[d] = "unpack"
    BY <1>0, <1>8 DEF Build, Returns
  <2>2. UNCHANGED <<content, registered, file>>
    BY <1>8 DEF Build
  <2>3. CASE infos[g] = None /\ g \in registered /\ content[g] = "garbage"
    BY <1>8, <2>1, <2>2, <2>3 DEF Build, InfoInv
  <2>4. CASE ~(infos[g] = None /\ g \in registered /\ content[g] = "garbage")
    <3>1. infos' = [infos EXCEPT ![g] = unpacked]
      BY <1>8, <2>4 DEF Build
    <3>2. \/ UNCHANGED given
          \/ given' = [given EXCEPT ![g] = @ \cup ({unpacked} \ {None})]
      BY <1>8, <2>4 DEF Build
    <3>3. \A a \in given[g] : infos[g] = a /\ a # None
      BY <1>0 DEF InfoInv
    <3>4. \A f \in Files : \A a \in given'[f] : infos'[f] = a
      BY <1>0, <3>1, <3>2, <3>3 DEF InfoInv
    <3>5. \A f \in Files : infos'[f] # None => f \in registered /\ content[f] # "garbage"
      BY <1>0, <2>4, <3>1 DEF InfoInv
    <3> QED
      BY <2>1, <2>2, <3>4, <3>5 DEF InfoInv
  <2> QED
    BY <2>3, <2>4
<1>9. CASE UNCHANGED vars
  BY <1>9 DEF vars, InfoInv
<1> QED
  BY <1>1, <1>2, <1>3, <1>4, <1>5, <1>6, <1>7, <1>8, <1>9 DEF Next

\* Every caller of ForFile and every upgraded file gets one and the same info, though it
\* may be unpacked by several goroutines at once.
THEOREM InfoIsOne == Spec => []OneInfo
<1>1. Init => TypeOK /\ InfoInv
  BY DEF Init, TypeOK, InfoInv
<1>2. InfoInv => OneInfo
  BY DEF InfoInv, OneInfo
<1> QED
  BY <1>1, <1>2, TypeStep, InfoStep, PTL DEF Spec

-----------------------------------------------------------------------------
(* The mutex. *)

\* The calls of getFileLocked belong to the caller that holds the mutex, are for files
\* its file needs, and for none that is upgraded already.
LockInv ==
  /\ \A c \in Callers : holder = c <=> pc[c] = "getFileLocked"
  /\ holder = None => todo = {} /\ done = {}
  /\ holder # None => file[holder] \in asked /\ todo \cup done \subseteq Needs[file[holder]]
  /\ todo \cap upgraded = {}

LEMMA LockStep == TypeOK /\ LockInv /\ [Next]_vars => LockInv'
<1> SUFFICES ASSUME TypeOK, LockInv, [Next]_vars PROVE LockInv'
  OBVIOUS
<1>0. /\ pc \in [Callers -> {"idle", "getFile", "lock", "getFileLocked", "ForFile", "unpack"}]
      /\ file \in [Callers -> Files] /\ None \notin Callers /\ holder \in Callers \cup {None}
  BY SourceInfoAssumption DEF TypeOK
<1>1. ASSUME NEW f \in Files, Register(f) PROVE LockInv'
  BY <1>1 DEF Register, LockInv
<1>2. ASSUME NEW c \in Callers, NEW f \in Files, NEW op \in {"getFile", "ForFile"}, Call(c, op, f)
      PROVE  LockInv'
  <2>1. holder # c
    BY <1>2 DEF Call, LockInv
  <2> QED
    BY <1>0, <1>2, <2>1 DEF Call, LockInv
<1>3. ASSUME NEW c \in Callers, ReadFile(c) PROVE LockInv'
  BY <1>0, <1>3 DEF ReadFile, LockInv
<1>4. ASSUME NEW c \in Callers, LockFile(c) PROVE LockInv'
  <2>1. file[c] \in Files /\ file[c] \in Needs[file[c]]
    BY <1>0, NeedsFacts
  <2> QED
    BY <1>0, <1>4, <2>1 DEF LockFile, BuiltMeanwhile, LockInv
<1>5. ASSUME NEW c \in Callers, ReadInfo(c) PROVE LockInv'
  BY <1>0, <1>5 DEF ReadInfo, LockInv
<1>6. ASSUME NEW c \in Callers, StoreInfo(c) PROVE LockInv'
  BY <1>0, <1>6 DEF StoreInfo, LockInv
<1>7. ASSUME NEW c \in Callers, NEW g \in Files, Descend(c, g) PROVE LockInv'
  <2>1. PICK f \in todo : g \in Imports[f]
    BY <1>7 DEF Descend
  <2>2. file[c] \in Files /\ f \in Needs[file[c]]
    BY <1>0, <1>7, <2>1 DEF Descend, LockInv
  <2>3. f \in Files /\ Needs[f] \subseteq Needs[file[c]] /\ Imports[f] \subseteq Needs[f]
    BY <2>2, NeedsFacts
  <2> QED
    BY <1>0, <1>7, <2>1, <2>3 DEF Descend, LockInv
<1>8. ASSUME NEW c \in Callers, NEW g \in Files, Build(c, g) PROVE LockInv'
  <2>1. holder = c /\ g \in todo /\ UNCHANGED <<file, asked>>
    BY <1>8 DEF Build
  <2>2. PICK a \in {"itself", "upgraded", "error"} :
          /\ Returns(c, g, a)
          /\ upgraded' = upgraded \/ (upgraded' = upgraded \cup {g} /\ a = "upgraded")
    BY <1>8 DEF Build
  <2>3. CASE a = "error" \/ g = file[c]
    BY <1>0, <2>1, <2>2, <2>3 DEF Returns, LockInv
  <2>4. CASE ~(a = "error" \/ g = file[c])
    BY <1>0, <2>1, <2>2, <2>4 DEF Returns, LockInv
  <2> QED
    BY <2>3, <2>4
<1>9. CASE UNCHANGED vars
  BY <1>9 DEF vars, LockInv
<1> QED
  BY <1>1, <1>2, <1>3, <1>4, <1>5, <1>6, <1>7, <1>8, <1>9 DEF Next

-----------------------------------------------------------------------------
(* Answers. *)

\* The files whose info is settled: somebody asked for a file that needs them.
Fixed == UNION {Needs[a] : a \in asked}

\* Nothing below g was upgraded, or can be.
Quiet(g) ==
  \A h \in Needs[g] : h \notin upgraded /\ (h \in registered => content[h] = "nothing")

\* All the data below g can be unpacked.
Clean(g) == \A h \in Needs[g] : h \in registered => content[h] # "garbage"

FileInv ==
  /\ upgraded \subseteq Fixed
  /\ \A f \in Files : answers[f] # {} => f \in Fixed
  /\ \A g \in done : Quiet(g)
  /\ \A f \in upgraded : Clean(f) /\ \A g \in Imports[f] : g \in links[f] \/ Quiet(g)
  /\ \A f \in Files : "itself" \in answers[f] => Quiet(f)
  /\ \A f \in Files : "upgraded" \in answers[f] => f \in upgraded
  /\ \A f \in Files : "error" \in answers[f] => ~Clean(f)

LEMMA FixedFacts ==
  ASSUME TypeOK, NEW f \in Fixed
  PROVE  f \in Files /\ Needs[f] \subseteq Fixed
<1>1. PICK a \in asked : f \in Needs[a]
  BY DEF Fixed
<1>2. a \in Files
  BY DEF TypeOK
<1>3. f \in Files /\ Needs[f] \subseteq Needs[a]
  BY <1>1, <1>2, NeedsFacts
<1> QED
  BY <1>1, <1>3 DEF Fixed

\* A step that registers and upgrades nothing, and answers only as it may.
LEMMA QuietStep ==
  ASSUME FileInv,
         UNCHANGED <<content, registered, upgraded, links>>,
         asked \subseteq asked', done' \subseteq done,
         \A f \in Files : answers'[f] \subseteq answers[f] \cup
           (IF f \in upgraded THEN {"upgraded"} ELSE {})
  PROVE  FileInv'
<1>1. Fixed \subseteq Fixed'
  BY DEF Fixed
<1>2. \A g : (Quiet(g) => Quiet(g)') /\ (Clean(g) <=> Clean(g)')
  BY DEF Quiet, Clean
<1>3. \A f \in Files : answers'[f] # {} => answers[f] # {} \/ f \in upgraded
  OBVIOUS
<1>4. (upgraded \subseteq Fixed)' /\ \A f \in Files : answers'[f] # {} => f \in Fixed'
  BY <1>1, <1>3 DEF FileInv
<1>5. \A g \in done' : Quiet(g)'
  BY <1>2 DEF FileInv
<1>6. \A f \in upgraded' : Clean(f)' /\ \A g \in Imports[f] : g \in links'[f] \/ Quiet(g)'
  BY <1>2 DEF FileInv
<1>7. /\ \A f \in Files : "itself" \in answers'[f] => Quiet(f)'
      /\ \A f \in Files : "upgraded" \in answers'[f] => f \in upgraded'
      /\ \A f \in Files : "error" \in answers'[f] => ~Clean(f)'
  BY <1>2 DEF FileInv
<1> QED
  BY <1>4, <1>5, <1>6, <1>7 DEF FileInv

\* Register reaches nothing that is settled.
LEMMA RegisterStep ==
  ASSUME TypeOK, LockInv, FileInv, InitOrder = TRUE, NEW r \in Files, Register(r)
  PROVE  FileInv'
<1>1. /\ r \notin Fixed /\ registered' = registered \cup {r} /\ done = {}
      /\ UNCHANGED <<content, upgraded, links, done, answers, asked>>
  BY DEF Register, Fixed, LockInv
<1>2. ASSUME NEW g \in Fixed PROVE Quiet(g) => Quiet(g)'
  BY <1>1, FixedFacts DEF Quiet
<1>3. ASSUME NEW g \in Fixed PROVE Clean(g) => Clean(g)'
  BY <1>1, FixedFacts DEF Clean
<1>4. ASSUME NEW g PROVE ~Clean(g) => ~Clean(g)'
  BY <1>1 DEF Clean
<1>5. Fixed' = Fixed
  BY <1>1 DEF Fixed
<1>6. ASSUME NEW f \in upgraded, NEW g \in Imports[f]
      PROVE  g \in links'[f] \/ Quiet(g)'
  <2>1. f \in Fixed /\ g \in Fixed
    BY FixedFacts, NeedsFacts DEF FileInv
  <2> QED
    BY <1>1, <1>2, <2>1 DEF FileInv
<1>7. \A f \in upgraded : Clean(f)'
  BY <1>3 DEF FileInv
<1>8. \A f \in Files : "itself" \in answers[f] => Quiet(f)'
  BY <1>2 DEF FileInv
<1>9. \A f \in Files : "error" \in answers[f] => ~Clean(f)'
  BY <1>4 DEF FileInv
<1>10. (upgraded \subseteq Fixed)' /\ \A f \in Files : answers'[f] # {} => f \in Fixed'
  BY <1>1, <1>5 DEF FileInv
<1>11. \A g \in done' : Quiet(g)'
  BY <1>1
<1>12. \A f \in Files : "upgraded" \in answers'[f] => f \in upgraded'
  BY <1>1 DEF FileInv
<1> QED
  BY <1>1, <1>6, <1>7, <1>8, <1>9, <1>10, <1>11, <1>12 DEF FileInv

\* What every call of getFileLocked finds before it builds g.
LEMMA BeforeBuild ==
  ASSUME TypeOK, InfoInv, LockInv, FileInv, NEW c \in Callers, NEW g \in Files, Build(c, g)
  PROVE  /\ holder = c /\ file[c] \in Files /\ g \in Needs[file[c]]
         /\ file[c] \in Fixed /\ g \in Fixed /\ g \notin upgraded
         /\ HasInfo(g) <=> g \in registered
         /\ infos[g] # None => content[g] # "garbage"
         /\ \A i \in Imports[g] : i \in Files /\ (i \in upgraded \/ (i \in done /\ Quiet(i)))
<1>1. holder = c /\ g \in todo /\ Imports[g] \subseteq upgraded \cup done /\ c # None
  BY SourceInfoAssumption DEF Build
<1>2. file[c] \in Files /\ file[c] \in asked /\ g \in Needs[file[c]] /\ g \notin upgraded
  BY <1>1 DEF LockInv, TypeOK
<1>3. file[c] \in Needs[file[c]]
  BY <1>2, NeedsFacts
<1>4. file[c] \in Fixed /\ g \in Fixed
  BY <1>2, <1>3 DEF Fixed
<1>5. (HasInfo(g) <=> g \in registered) /\ (infos[g] # None => content[g] # "garbage")
  BY DEF InfoInv, HasInfo
<1>6. \A i \in Imports[g] : i \in Files /\ (i \in upgraded \/ (i \in done /\ Quiet(i)))
  BY <1>1, NeedsFacts DEF FileInv
<1> QED
  BY <1>1, <1>2, <1>4, <1>5, <1>6

\* A call that leaves the file as it is, or fails.
LEMMA BuildNothingStep ==
  ASSUME TypeOK, InfoInv, LockInv, FileInv, NEW c \in Callers, NEW g \in Files, Build(c, g),
         NEW a \in {"itself", "error"}, Returns(c, g, a),
         a = "itself" => Quiet(g), a = "error" => ~Clean(file[c]),
         UNCHANGED <<upgraded, links>>
  PROVE  FileInv'
<1>0. /\ file[c] \in Files /\ file[c] \in Fixed
      /\ UNCHANGED <<content, registered, asked, file>>
      /\ answers \in [Files -> SUBSET {"itself", "upgraded", "error"}]
  BY BeforeBuild DEF Build, TypeOK
<1>1. Fixed' = Fixed /\ \A x : (Quiet(x)' <=> Quiet(x)) /\ (Clean(x)' <=> Clean(x))
  BY <1>0 DEF Fixed, Quiet, Clean
<1>2. done' \subseteq done \cup (IF a = "itself" THEN {g} ELSE {})
  BY DEF Returns
<1>3. \/ UNCHANGED answers
      \/ /\ answers' = [answers EXCEPT ![file[c]] = @ \cup {a}]
         /\ a = "itself" => g = file[c]
  BY DEF Returns, Answered
<1>4. \A f \in Files : answers'[f] \subseteq answers[f] \cup (IF f = file[c] THEN {a} ELSE {})
  BY <1>0, <1>3
<1>5. \A f \in Files : answers'[f] # answers[f] => f = file[c] /\ (a = "itself" => Quiet(f))
  BY <1>0, <1>3
<1>6. \A f \in Files : answers'[f] # {} => f \in Fixed
  BY <1>0, <1>5 DEF FileInv
<1>7. \A f \in Files : "itself" \in answers'[f] => Quiet(f)
  BY <1>4, <1>5 DEF FileInv
<1>8. \A f \in Files : "upgraded" \in answers'[f] => f \in upgraded
  BY <1>4 DEF FileInv
<1>9. \A f \in Files : "error" \in answers'[f] => ~Clean(f)
  BY <1>4 DEF FileInv
<1>10. \A x \in done' : Quiet(x)
  BY <1>2 DEF FileInv
<1> QED
  BY <1>1, <1>6, <1>7, <1>8, <1>9, <1>10 DEF FileInv

\* A call that upgrades a file reaches nothing that is quiet.
LEMMA BuildCopyStep ==
  ASSUME TypeOK, InfoInv, LockInv, FileInv, NEW c \in Callers, NEW g \in Files, Build(c, g),
         Returns(c, g, "upgraded"),
         (HasInfo(g) /\ content[g] = "locations") \/ HasUpgradedImport(g),
         g \in registered => content[g] # "garbage",
         upgraded' = upgraded \cup {g},
         links' = [links EXCEPT ![g] = Imports[g] \cap upgraded]
  PROVE  FileInv'
<1>0. /\ file[c] \in Files /\ g \in Fixed /\ g \notin upgraded
      /\ UNCHANGED <<content, registered, asked, file>>
      /\ answers \in [Files -> SUBSET {"itself", "upgraded", "error"}]
      /\ links \in [Files -> SUBSET Files]
  BY BeforeBuild DEF Build, TypeOK
<1>1. Fixed' = Fixed /\ \A x : Clean(x)' <=> Clean(x)
  BY <1>0 DEF Fixed, Clean
<1>2. ASSUME NEW x \in Files, Quiet(x) PROVE Quiet(x)'
  <2>1. g \notin Needs[x]
    <3>1. SUFFICES ASSUME g \in Needs[x] PROVE FALSE
      OBVIOUS
    <3>2. g \in registered => content[g] = "nothing"
      BY <1>2, <3>1 DEF Quiet
    <3>3. HasUpgradedImport(g)
      BY <3>2, BeforeBuild
    <3>4. PICK i \in Imports[g] : i \in upgraded
      BY <3>3 DEF HasUpgradedImport
    <3>5. i \in Needs[x]
      BY <3>1, <3>4, NeedsFacts
    <3> QED
      BY <1>2, <3>4, <3>5 DEF Quiet
  <2> QED
    BY <1>0, <1>2, <2>1 DEF Quiet
<1>3. Clean(g)
  <2>1. SUFFICES ASSUME NEW h \in Needs[g], h \in registered PROVE content[h] # "garbage"
    BY DEF Clean
  <2>2. CASE h = g
    BY <2>1, <2>2
  <2>3. ASSUME NEW i \in Imports[g], h \in Needs[i] PROVE content[h] # "garbage"
    <3>1. i \in upgraded => Clean(i)
      BY DEF FileInv
    <3>2. i \in upgraded \/ Quiet(i)
      BY BeforeBuild
    <3> QED
      BY <2>1, <2>3, <3>1, <3>2 DEF Clean, Quiet
  <2> QED
    BY <2>2, <2>3, NeedsFacts
<1>4. \A i \in Imports[g] : i \in links'[g] \/ Quiet(i)'
  BY <1>0, <1>2, BeforeBuild
<1>5. ASSUME NEW f \in upgraded, NEW i \in Imports[f] PROVE i \in links'[f] \/ Quiet(i)'
  <2>1. f \in Files /\ i \in Files /\ links'[f] = links[f]
    BY <1>0, NeedsFacts DEF TypeOK
  <2> QED
    BY <1>2, <2>1 DEF FileInv
<1>6. \A f \in upgraded' : Clean(f)' /\ \A i \in Imports[f] : i \in links'[f] \/ Quiet(i)'
  BY <1>1, <1>3, <1>4, <1>5 DEF FileInv
<1>7. done' \subseteq done
  BY DEF Returns
<1>8. \A x \in done' : Quiet(x)'
  BY <1>2, <1>7 DEF FileInv, TypeOK
<1>9. \/ UNCHANGED answers
      \/ answers' = [answers EXCEPT ![g] = @ \cup {"upgraded"}]
  BY DEF Returns, Answered
<1>10. /\ \A f \in Files : "itself" \in answers'[f] => "itself" \in answers[f]
       /\ \A f \in Files : "error" \in answers'[f] => "error" \in answers[f]
       /\ \A f \in Files : "upgraded" \in answers'[f] => "upgraded" \in answers[f] \/ f = g
       /\ \A f \in Files : answers'[f] # {} => answers[f] # {} \/ f = g
  BY <1>0, <1>9
<1>11. \A f \in Files : "itself" \in answers'[f] => Quiet(f)'
  BY <1>2, <1>10 DEF FileInv
<1>12. \A f \in Files : "error" \in answers'[f] => ~Clean(f)'
  BY <1>1, <1>10 DEF FileInv
<1>13. \A f \in Files : "upgraded" \in answers'[f] => f \in upgraded'
  BY <1>10 DEF FileInv
<1>14. upgraded' \subseteq Fixed' /\ \A f \in Files : answers'[f] # {} => f \in Fixed'
  BY <1>0, <1>1, <1>10 DEF FileInv
<1> QED
  BY <1>6, <1>8, <1>11, <1>12, <1>13, <1>14 DEF FileInv

LEMMA BuildStep ==
  ASSUME TypeOK, InfoInv, LockInv, FileInv, NEW c \in Callers, NEW g \in Files, Build(c, g)
  PROVE  FileInv'
<1>0. /\ g \notin upgraded /\ (HasInfo(g) <=> g \in registered)
      /\ g \in Needs[file[c]] /\ (infos[g] # None => content[g] # "garbage")
      /\ content[g] \in {"locations", "nothing", "garbage"}
  BY BeforeBuild DEF TypeOK
<1>1. CASE infos[g] = None /\ g \in registered /\ content[g] = "garbage"
  <2>1. Returns(c, g, "error") /\ UNCHANGED <<upgraded, links>>
    BY <1>1 DEF Build
  <2>2. ~Clean(file[c])
    BY <1>0, <1>1 DEF Clean
  <2> QED
    BY <2>1, <2>2, BuildNothingStep
<1>2. CASE ~(infos[g] = None /\ g \in registered /\ content[g] = "garbage")
  <2>1. g \in registered => content[g] # "garbage"
    BY <1>0, <1>2
  <2>2. CASE ~(HasInfo(g) /\ content[g] = "locations") /\ ~HasUpgradedImport(g)
    <3>1. Returns(c, g, "itself") /\ UNCHANGED <<upgraded, links>>
      BY <1>2, <2>2 DEF Build
    <3>2. Quiet(g)
      <4>1. SUFFICES ASSUME NEW h \in Needs[g]
                     PROVE  h \notin upgraded /\ (h \in registered => content[h] = "nothing")
        BY DEF Quiet
      <4>2. CASE h = g
        BY <1>0, <2>1, <2>2, <4>2
      <4>3. ASSUME NEW i \in Imports[g], h \in Needs[i]
            PROVE  h \notin upgraded /\ (h \in registered => content[h] = "nothing")
        <5>1. Quiet(i)
          BY <2>2, BeforeBuild DEF HasUpgradedImport
        <5> QED
          BY <4>3, <5>1 DEF Quiet
      <4> QED
        BY <4>2, <4>3, NeedsFacts
    <3> QED
      BY <3>1, <3>2, BuildNothingStep
  <2>3. CASE (HasInfo(g) /\ content[g] = "locations") \/ HasUpgradedImport(g)
    <3>1. /\ Returns(c, g, "upgraded")
          /\ upgraded' = upgraded \cup {g}
          /\ links' = [links EXCEPT ![g] = Imports[g] \cap upgraded]
      BY <1>0, <1>2, <2>3 DEF Build
    <3> QED
      BY <2>1, <2>3, <3>1, BuildCopyStep
  <2> QED
    BY <2>2, <2>3
<1> QED
  BY <1>1, <1>2

SourceInv == TypeOK /\ InfoInv /\ LockInv /\ FileInv

LEMMA SourceStep == InitOrder = TRUE /\ SourceInv /\ [Next]_vars => SourceInv'
<1> SUFFICES ASSUME InitOrder = TRUE, TypeOK, InfoInv, LockInv, FileInv, [Next]_vars
             PROVE  FileInv'
  BY TypeStep, InfoStep, LockStep DEF SourceInv
<1>0. answers \in [Files -> SUBSET {"itself", "upgraded", "error"}] /\ file \in [Callers -> Files]
  BY DEF TypeOK
<1>1. ASSUME NEW f \in Files, Register(f) PROVE FileInv'
  BY <1>1, RegisterStep
<1>2. ASSUME NEW c \in Callers, NEW f \in Files, NEW op \in {"getFile", "ForFile"}, Call(c, op, f)
      PROVE  FileInv'
  BY <1>2, QuietStep DEF Call
<1>3. ASSUME NEW c \in Callers, ReadFile(c) PROVE FileInv'
  <2>1. \A f \in Files : answers'[f] \subseteq answers[f] \cup
          (IF f \in upgraded THEN {"upgraded"} ELSE {})
    BY <1>0, <1>3 DEF ReadFile, Answered
  <2> QED
    BY <1>3, <2>1, QuietStep DEF ReadFile
<1>4. ASSUME NEW c \in Callers, LockFile(c) PROVE FileInv'
  <2>1. \A f \in Files : answers'[f] \subseteq answers[f] \cup
          (IF f \in upgraded THEN {"upgraded"} ELSE {})
    BY <1>0, <1>4 DEF LockFile, Answered, BuiltMeanwhile
  <2> QED
    BY <1>4, <2>1, QuietStep DEF LockFile
<1>5. ASSUME NEW c \in Callers, ReadInfo(c) PROVE FileInv'
  BY <1>5, QuietStep DEF ReadInfo
<1>6. ASSUME NEW c \in Callers, StoreInfo(c) PROVE FileInv'
  BY <1>6, QuietStep DEF StoreInfo
<1>7. ASSUME NEW c \in Callers, NEW g \in Files, Descend(c, g) PROVE FileInv'
  BY <1>7, QuietStep DEF Descend
<1>8. ASSUME NEW c \in Callers, NEW g \in Files, Build(c, g) PROVE FileInv'
  BY <1>8, BuildStep
<1>9. CASE UNCHANGED vars
  BY <1>9, QuietStep DEF vars
<1> QED
  BY <1>1, <1>2, <1>3, <1>4, <1>5, <1>6, <1>7, <1>8, <1>9 DEF Next

LEMMA SourceInvariant == InitOrder = TRUE => (Spec => []SourceInv)
<1>1. Init => SourceInv
  BY SourceInfoAssumption DEF Init, SourceInv, TypeOK, InfoInv, LockInv, FileInv
<1>2. ASSUME InitOrder = TRUE PROVE SourceInv /\ [Next]_vars => SourceInv'
  BY <1>2, SourceStep
<1>3. ASSUME InitOrder = TRUE PROVE Spec => []SourceInv
  BY <1>1, <1>2, <1>3, PTL DEF Spec
<1> QED
  BY <1>3

\* In a program that registers info in the order packages are initialized, upgraded
\* files refer to upgraded files, and what was answered unchanged stays that way.
THEOREM ReferencesAreUpgraded == InitOrder = TRUE => (Spec => []ReferencesUpgraded)
<1>1. SourceInv => ReferencesUpgraded
  <2>1. SUFFICES ASSUME SourceInv PROVE ReferencesUpgraded
    OBVIOUS
  <2>2. ASSUME NEW f \in upgraded, NEW g \in Imports[f] \cap upgraded PROVE g \in links[f]
    <3>1. f \in Files /\ g \in Files /\ g \in Needs[g]
      BY <2>1, NeedsFacts DEF SourceInv, TypeOK
    <3> QED
      BY <2>1, <3>1 DEF SourceInv, FileInv, Quiet
  <2>3. ASSUME NEW f \in Files, "itself" \in answers[f] PROVE Needs[f] \cap upgraded = {}
    BY <2>1, <2>3 DEF SourceInv, FileInv, Quiet
  <2> QED
    BY <2>2, <2>3 DEF ReferencesUpgraded
<1> QED
  BY <1>1, SourceInvariant, PTL

\* Then everybody who asks for a file, at any time, is answered the same.
THEOREM AnswersAgree == InitOrder = TRUE => (Spec => []OneAnswer)
<1>1. SourceInv => OneAnswer
  <2>1. SUFFICES ASSUME SourceInv, NEW f \in Files, NEW a \in answers[f], NEW b \in answers[f]
                 PROVE  a = b
    BY DEF OneAnswer
  <2>2. f \in Needs[f] /\ a \in {"itself", "upgraded", "error"} /\ b \in {"itself", "upgraded", "error"}
    BY <2>1, NeedsFacts DEF SourceInv, TypeOK
  <2>3. Quiet(f) => f \notin upgraded /\ Clean(f)
    BY <2>2 DEF Quiet, Clean
  <2>4. f \in upgraded => Clean(f)
    BY <2>1 DEF SourceInv, FileInv
  <2> QED
    BY <2>1, <2>2, <2>3, <2>4 DEF SourceInv, FileInv
<1> QED
  BY <1>1, SourceInvariant, PTL

\* Then a file that cannot be had needs a file whose data cannot be unpacked.
THEOREM SourceFailuresAreReal == InitOrder = TRUE => (Spec => []FailuresAreReal)
<1>1. SourceInv => FailuresAreReal
  BY DEF SourceInv, FileInv, Clean, FailuresAreReal
<1> QED
  BY <1>1, SourceInvariant, PTL
=============================================================================
