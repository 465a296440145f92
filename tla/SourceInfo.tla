----------------------------- MODULE SourceInfo -----------------------------
(***************************************************************************)
(* The registry of source code info (sourceinfo/registry.go): generated    *)
(* code registers compressed info for its files, and a file descriptor     *)
(* compiled into the program is answered with an upgraded copy, built once *)
(* under the package's mutex, whose imports are upgraded first.            *)
(*                                                                         *)
(* Several goroutines ask for files (getFile) and for info (ForFile).  A   *)
(* critical section is one step, but for getFileLocked, which recurses.    *)
(***************************************************************************)
EXTENDS Integers, FiniteSets

CONSTANTS
  Callers,
  Files,      \* the files compiled into the program
  Imports,    \* the imports of each file
  Needs,      \* the file and all that it imports, directly or not
  InitOrder,  \* info is registered before a file that needs it is asked for
  None

ASSUME SourceInfoAssumption ==
  /\ Imports \in [Files -> SUBSET Files] /\ Needs \in [Files -> SUBSET Files]
  /\ \A f \in Files :
       /\ Needs[f] = {f} \cup UNION {Needs[g] : g \in Imports[f]}
       /\ \A g \in Needs[f] : Needs[g] \subseteq Needs[f]
  /\ InitOrder \in BOOLEAN
  /\ None \notin Callers \cup Files

VARIABLES
  content,     \* what the data registered for a file holds, if it is
  registered,  \* sourceInfoDataByFile
  infos,       \* sourceInfoByFile: who unpacked the info
  upgraded,    \* fileDescriptors, and the files of updatedDescriptors
  links,       \* the imports of an upgraded file that are upgraded files
  holder,      \* who holds the mutex in getFileLocked
  todo, done,  \* its calls that have not returned, and that returned the file itself
  pc, file,    \* where each caller is, and the file it asks for
  asked,       \* history: the files getFileLocked was called for from getFile
  answers,     \* history: what getFile answered for each file
  given        \* history: the infos handed out for each file

vars == <<content, registered, infos, upgraded, links, holder, todo, done, pc, file,
          asked, answers, given>>

TypeOK ==
  /\ content \in [Files -> {"locations", "nothing", "garbage"}]
  /\ registered \subseteq Files
  /\ infos \in [Files -> Callers \cup {None}]
  /\ upgraded \subseteq Files
  /\ links \in [Files -> SUBSET Files]
  /\ holder \in Callers \cup {None}
  /\ todo \subseteq Files /\ done \subseteq Files
  /\ pc \in [Callers -> {"idle", "getFile", "lock", "getFileLocked", "ForFile", "unpack"}]
  /\ file \in [Callers -> Files]
  /\ asked \subseteq Files
  /\ answers \in [Files -> SUBSET {"itself", "upgraded", "error"}]
  /\ given \in [Files -> SUBSET Callers]

Init ==
  /\ content \in [Files -> {"locations", "nothing", "garbage"}]
  /\ registered = {} /\ upgraded = {}
  /\ infos = [f \in Files |-> None]
  /\ links = [f \in Files |-> {}]
  /\ holder = None /\ todo = {} /\ done = {}
  /\ pc = [c \in Callers |-> "idle"] /\ file \in [Callers -> Files]
  /\ asked = {}
  /\ answers = [f \in Files |-> {}] /\ given = [f \in Files |-> {}]

-----------------------------------------------------------------------------

\* Register.  Packages are initialized after those they import.
Register(f) ==
  /\ holder = None
  /\ f \notin registered
  /\ InitOrder => \A a \in asked : f \notin Needs[a]
  /\ registered' = registered \cup {f}
  /\ UNCHANGED <<content, infos, upgraded, links, holder, todo, done, pc, file,
                 asked, answers, given>>

Call(c, op, f) ==
  /\ pc[c] = "idle"
  /\ pc' = [pc EXCEPT ![c] = op]
  /\ file' = [file EXCEPT ![c] = f]
  /\ UNCHANGED <<content, registered, infos, upgraded, links, holder, todo, done,
                 asked, answers, given>>

Answered(f, a) == answers' = [answers EXCEPT ![f] = @ \cup {a}]

\* getFile, with the read lock.
ReadFile(c) ==
  LET f == file[c] IN
  /\ pc[c] = "getFile" /\ holder = None
  /\ IF f \in upgraded
     THEN pc' = [pc EXCEPT ![c] = "idle"] /\ Answered(f, "upgraded")
     ELSE pc' = [pc EXCEPT ![c] = "lock"] /\ UNCHANGED answers
  /\ UNCHANGED <<content, registered, infos, upgraded, links, holder, todo, done, file,
                 asked, given>>

\* Fault: nobody can have built the file in the meantime.
BuiltMeanwhileNever(f) == FALSE

\* getFileLocked looks again.
BuiltMeanwhile(f) == f \in upgraded

\* getFile, with the write lock.
LockFile(c) ==
  LET f == file[c] IN
  /\ pc[c] = "lock" /\ holder = None
  /\ asked' = asked \cup {f}
  /\ IF BuiltMeanwhile(f)
     THEN /\ pc' = [pc EXCEPT ![c] = "idle"] /\ Answered(f, "upgraded")
          /\ UNCHANGED <<holder, todo>>
     ELSE /\ pc' = [pc EXCEPT ![c] = "getFileLocked"]
          /\ holder' = c /\ todo' = {f}
          /\ UNCHANGED answers
  /\ UNCHANGED <<content, registered, infos, upgraded, links, done, file, given>>

\* getFileLocked calls itself for an import.
Descend(c, g) ==
  /\ holder = c
  /\ g \notin upgraded \cup todo \cup done
  /\ \E f \in todo : g \in Imports[f]
  /\ todo' = todo \cup {g}
  /\ UNCHANGED <<content, registered, infos, upgraded, links, holder, done, pc, file,
                 asked, answers, given>>

\* A call of getFileLocked for g returns a; an error or the outermost call ends getFile.
Returns(c, g, a) ==
  LET ends == a = "error" \/ g = file[c] IN
  /\ todo' = IF ends THEN {} ELSE todo \ {g}
  /\ done' = IF ends THEN {} ELSE IF a = "itself" THEN done \cup {g} ELSE done
  /\ holder' = IF ends THEN None ELSE c
  /\ pc' = IF ends THEN [pc EXCEPT ![c] = "idle"] ELSE pc
  /\ IF ends THEN Answered(file[c], a) ELSE UNCHANGED answers

\* Fault: a file is upgraded only for what was registered for itself.
HasUpgradedImportNever(g) == FALSE

HasUpgradedImport(g) == Imports[g] \cap upgraded # {}

HasInfo(g) == infos[g] # None \/ g \in registered

\* forFileLocked, and the upgraded file, with the imports found by filesWithFallback.
Build(c, g) ==
  LET unpacked == IF infos[g] = None /\ g \in registered THEN c ELSE infos[g] IN
  /\ holder = c /\ g \in todo
  /\ Imports[g] \subseteq upgraded \cup done
  /\ IF infos[g] = None /\ g \in registered /\ content[g] = "garbage"
     THEN Returns(c, g, "error") /\ UNCHANGED <<infos, upgraded, links, given>>
     ELSE
       /\ infos' = [infos EXCEPT ![g] = unpacked]
       /\ IF ~(HasInfo(g) /\ content[g] = "locations") /\ ~HasUpgradedImport(g)
          THEN Returns(c, g, "itself") /\ UNCHANGED <<upgraded, links, given>>
          ELSE IF g \in upgraded
          THEN Returns(c, g, "error") /\ UNCHANGED <<upgraded, links, given>>
          ELSE /\ Returns(c, g, "upgraded")
               /\ upgraded' = upgraded \cup {g}
               /\ links' = [links EXCEPT ![g] = Imports[g] \cap upgraded]
               /\ given' = [given EXCEPT ![g] = @ \cup ({unpacked} \ {None})]
  /\ UNCHANGED <<content, registered, file, asked>>

-----------------------------------------------------------------------------

\* ForFile, with the read lock.
ReadInfo(c) ==
  LET f == file[c] IN
  /\ pc[c] = "ForFile" /\ holder = None
  /\ pc' = [pc EXCEPT ![c] = IF infos[f] = None /\ f \in registered THEN "unpack" ELSE "idle"]
  /\ given' = [given EXCEPT ![f] = @ \cup ({infos[f]} \ {None})]
  /\ UNCHANGED <<content, registered, infos, upgraded, links, holder, todo, done, file,
                 asked, answers>>

\* Fault: what is there is replaced.
StoredInfoLatest(c, f) == c

\* ForFile checks again after upgrading the lock.
StoredInfo(c, f) == IF infos[f] # None THEN infos[f] ELSE c

\* ForFile has unpacked the data, without the lock.
StoreInfo(c) ==
  LET f == file[c]
      info == StoredInfo(c, f)
  IN
  /\ pc[c] = "unpack"
  /\ content[f] # "garbage" => holder = None
  /\ pc' = [pc EXCEPT ![c] = "idle"]
  /\ IF content[f] = "garbage" THEN UNCHANGED <<infos, given>>
     ELSE /\ infos' = [infos EXCEPT ![f] = info]
          /\ given' = [given EXCEPT ![f] = @ \cup {info}]
  /\ UNCHANGED <<content, registered, upgraded, links, holder, todo, done, file,
                 asked, answers>>

Next ==
  \/ \E f \in Files : Register(f)
  \/ \E c \in Callers, f \in Files : Call(c, "getFile", f) \/ Call(c, "ForFile", f)
  \/ \E c \in Callers : ReadFile(c) \/ LockFile(c) \/ ReadInfo(c) \/ StoreInfo(c)
  \/ \E c \in Callers, g \in Files : Descend(c, g) \/ Build(c, g)

Spec == Init /\ [][Next]_vars

-----------------------------------------------------------------------------

\* "The descriptor's references *all* have source code info" (getFileLocked): an
\* upgraded file refers to every file that has an upgraded copy through that copy, and
\* who was given a file as it was has nothing below it that was ever upgraded.
ReferencesUpgraded ==
  /\ \A f \in upgraded : Imports[f] \cap upgraded \subseteq links[f]
  /\ \A f \in Files : "itself" \in answers[f] => Needs[f] \cap upgraded = {}

\* getFile gives one answer for a file, whoever asks and whenever, though the first call
\* for it and those for the files that import it may all be under way together, and some
\* of them fail: descriptors are compared by identity (registry_test.go: assert.Same).
OneAnswer == \A f \in Files : \A a, b \in answers[f] : a = b

\* A file cannot be had only if the data of a file it needs cannot be unpacked: building
\* it never conflicts with a copy that is already there.
FailuresAreReal ==
  \A f \in Files : "error" \in answers[f] =>
    \E g \in Needs[f] \cap registered : content[g] = "garbage"

\* Everybody who gets info for a file gets the same object, the upgraded file included
\* (ForFile: "check again after upgrading lock").
OneInfo == \A f \in Files : \A a, b \in given[f] : a = b
=============================================================================
