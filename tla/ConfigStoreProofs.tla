-------------------------- MODULE ConfigStoreProofs --------------------------
(***************************************************************************)
(* Proofs about ConfigStore: type correctness, and that inside one process *)
(* a save replaces only the version it was checked against, is answered    *)
(* with its own text, and loses no text but the oldest of a full history.  *)
(***************************************************************************)
EXTENDS ConfigStore, SequenceTheorems, TLAPS

(* What an editor carries with it. *)
CarriesInv ==
    \A e \in Editors :
        /\ pc[e] \in {"saving", "comparing", "snapshot", "creating", "looking",
                      "writing", "replacing", "answering"} => text[e] \in Texts
        /\ pc[e] \in {"editing", "saving", "comparing", "snapshot"} => base[e] \in Texts
        /\ pc[e] \in {"creating", "looking", "rereading"} => base[e] = NoFile

IInv == TypeOK /\ CarriesInv

(* A process that keeps the newest versions keeps at most MaxHistory.      *)
LEMMA NewestOK ==
    ASSUME NEW versions \in Seq(Texts), Len(versions) <= MaxHistory + 1
    PROVE  Newest(versions) \in Seq(Texts) /\ Len(Newest(versions)) <= MaxHistory
<1> DEFINE from == IF Len(versions) > MaxHistory
                   THEN Len(versions) - MaxHistory + 1 ELSE 1
<1>1. Len(versions) \in Nat /\ MaxHistory \in Nat /\ MaxHistory # 0
  BY ConfigStoreAssumption
<1>2. from \in 1..(Len(versions) + 1)
  BY <1>1
<1>3. /\ SubSeq(versions, from, Len(versions)) \in Seq(Texts)
      /\ Len(SubSeq(versions, from, Len(versions))) =
            IF from <= Len(versions) THEN Len(versions) - from + 1 ELSE 0
  BY <1>1, <1>2, SubSeqProperties
<1>4. Newest(versions) = SubSeq(versions, from, Len(versions))
  BY DEF Newest
<1> HIDE DEF from
<1>5. Len(SubSeq(versions, from, Len(versions))) <= MaxHistory
  BY <1>1, <1>2, <1>3 DEF from
<1>6. QED
  BY <1>3, <1>4, <1>5

(* No file, no history, no server: the types hold. *)
LEMMA InitIInv == Init => IInv
<1> SUFFICES ASSUME Init PROVE IInv
  OBVIOUS
<1> USE ConfigStoreAssumption DEF Init
<1>1. history \in Seq(Texts) /\ Len(history) <= MaxHistory /\ archived \in Seq(Texts)
  BY EmptySeq
<1>2. edits \in 0..MaxEdits /\ starts \in 0..MaxStarts
  OBVIOUS
<1>3. /\ base \in [Editors -> Texts \cup {NoFile}]
      /\ text \in [Editors -> Texts \cup {NoFile}]
      /\ lock \in [Processes -> Editors \cup {Nobody}]
  OBVIOUS
<1>4. TypeOK
  BY <1>1, <1>2, <1>3 DEF TypeOK
<1>5. QED
  BY <1>4 DEF IInv, CarriesInv

(* Every step of an editor keeps the types. *)
LEMMA EditorStepIInv ==
    ASSUME IInv, NEW e \in Editors, EditorStep(e)
    PROVE  IInv'
<1> USE ConfigStoreAssumption
    DEF IInv, TypeOK, CarriesInv, Goto, Finish, FinishLocked, Take, disk, seeding, setting
<1>1. home[e] \in Processes
  OBVIOUS
<1>2. CASE EnterSave(e)
  BY <1>1, <1>2 DEF EnterSave
<1>3. CASE Compare(e)
  BY <1>1, <1>3 DEF Compare
<1>4. CASE Snapshot(e)
  <2>1. /\ Append(history, base[e]) \in Seq(Texts)
        /\ Len(Append(history, base[e])) = Len(history) + 1
    BY <1>4, AppendProperties DEF Snapshot
  <2>2. Len(history) \in Nat
    OBVIOUS
  <2>3. Len(Append(history, base[e])) <= MaxHistory + 1
    BY <2>1, <2>2
  <2>4. history' \in Seq(Texts) /\ Len(history') <= MaxHistory
    BY <1>4, <2>1, <2>3, NewestOK DEF Snapshot
  <2>5. QED
    BY <1>4, <2>4 DEF Snapshot
<1>5. CASE WriteTmp(e)
  BY <1>5 DEF WriteTmp
<1>6. CASE Replace(e)
  <2>1. CASE base[e] = NoFile
    BY <1>1, <1>6, <2>1 DEF Replace
  <2>2. CASE base[e] # NoFile
    BY <1>1, <1>6, <2>2 DEF Replace
  <2>3. QED
    BY <2>1, <2>2
<1>7. CASE ReplaceFails(e)
  BY <1>1, <1>7 DEF ReplaceFails
<1>11. CASE Answer(e)
  BY <1>1, <1>11 DEF Answer
<1>8. CASE EnterCreate(e)
  BY <1>1, <1>8 DEF EnterCreate
<1>9. CASE LookFor(e)
  BY <1>1, <1>9 DEF LookFor
<1>10. CASE Move(e)
  <2>1. file # NoFile => Append(archived, file) \in Seq(Texts)
    BY AppendProperties
  <2>2. QED
    BY <1>10, <2>1 DEF Move
<1>12. QED
  BY <1>2, <1>3, <1>4, <1>5, <1>6, <1>7, <1>8, <1>9, <1>10, <1>11 DEF EditorStep

(* Every step of a server keeps the types. *)
LEMMA ServerStepIInv ==
    ASSUME IInv, NEW s \in Servers,
           \/ StartServer(s) \/ SeedFile(s) \/ RecordSeeded(s) \/ SeedFails(s)
           \/ StopServer(s)
    PROVE  IInv'
<1> USE ConfigStoreAssumption DEF IInv, TypeOK, CarriesInv, disk, setting, editing
<1>1. CASE StartServer(s)
  BY <1>1 DEF StartServer
<1>2. CASE SeedFile(s)
  BY <1>2 DEF SeedFile
<1>3. CASE RecordSeeded(s)
  BY <1>3 DEF RecordSeeded
<1>4. CASE SeedFails(s)
  BY <1>4 DEF SeedFails
<1>5. CASE StopServer(s)
  BY <1>5 DEF StopServer
<1>6. QED
  BY <1>1, <1>2, <1>3, <1>4, <1>5

(* Every step keeps the types. *)
LEMMA NextIInv == IInv /\ [Next]_vars => IInv'
<1> SUFFICES ASSUME IInv, [Next]_vars PROVE IInv'
  OBVIOUS
<1>1. CASE UNCHANGED vars
  BY <1>1 DEF IInv, TypeOK, CarriesInv, vars
<1>2. ASSUME NEW e \in Editors, EditorStep(e) PROVE IInv'
  BY <1>2, EditorStepIInv
<1>3. ASSUME NEW e \in Editors, Open(e) PROVE IInv'
  BY <1>3, ConfigStoreAssumption
  DEF IInv, TypeOK, CarriesInv, Open, Begin, Goto, disk, seeding, setting
<1>4. ASSUME NEW e \in Editors, Archive(e) PROVE IInv'
  BY <1>4, ConfigStoreAssumption
  DEF IInv, TypeOK, CarriesInv, Archive, Begin, Goto, disk, seeding, setting
<1>5. ASSUME NEW e \in Editors, NEW t \in Texts, Save(e, t) PROVE IInv'
  BY <1>5 DEF IInv, TypeOK, CarriesInv, Save, Goto, disk, seeding, setting
<1>6. ASSUME NEW e \in Editors, NEW t \in Texts, Create(e, t) PROVE IInv'
  BY <1>6, ConfigStoreAssumption
  DEF IInv, TypeOK, CarriesInv, Create, Begin, Goto, disk, seeding, setting
<1>7. QED
  BY <1>1, <1>2, <1>3, <1>4, <1>5, <1>6, ServerStepIInv DEF Next

(* The state stays well typed: every request holds its base and its texts, the *)
(* lock is free or held by a request inside save (store.py). *)
LEMMA Typed == Spec => []IInv
  BY InitIInv, NextIInv, PTL DEF Spec

(* Files, history, archive, lock and editors always have their types; in   *)
(* particular no more than MaxHistory versions are kept.                   *)
THEOREM TypeCorrect == Spec => []TypeOK
<1>1. IInv => TypeOK
  BY DEF IInv
<1>2. QED
  BY Typed, <1>1, PTL

-----------------------------------------------------------------------------
(* One process.                                                            *)
Locked == {"comparing", "snapshot", "looking", "writing", "replacing",
            "answering"}

(* Who holds the write lock of a process, and that threads of a server     *)
(* exist only while it serves.                                             *)
HoldersInv ==
    \A e \in Editors :
        /\ pc[e] \in Locked <=> lock[home[e]] = e
        /\ pc[e] # "idle" => Up(e)

(* From its check on, the holder's version is the file, or an archiving    *)
(* moved it away; what is about to replace it is the holder's text, and    *)
(* then that text is the file, or the newest one in the archive.           *)
WriterInv ==
    OneProcess =>
        \A e \in Editors :
            /\ pc[e] \in {"snapshot", "writing", "replacing"} => file \in {base[e], NoFile}
            /\ pc[e] = "replacing" => tmp = text[e]
            /\ pc[e] = "answering" => \/ file = text[e]
                                      \/ file = NoFile /\ text[e] \in ToSet(archived)

Inv == IInv /\ HoldersInv /\ WriterInv

(* No request has started: the facts about versions, tickets and the lock hold. *)
LEMMA InitInv == Init => Inv
  BY InitIInv, ConfigStoreAssumption DEF Init, Inv, HoldersInv, WriterInv, Locked

(* Locks are taken when free and given back by their holder. *)
LEMMA HoldersStep == IInv /\ HoldersInv /\ [Next]_vars => HoldersInv'
<1> SUFFICES ASSUME IInv, HoldersInv, [Next]_vars PROVE HoldersInv'
  OBVIOUS
<1> USE ConfigStoreAssumption
    DEF IInv, TypeOK, HoldersInv, Locked, Up, Goto, Finish, FinishLocked, Begin, Take,
        disk, seeding, setting, editing
<1>1. CASE UNCHANGED vars
  BY <1>1 DEF vars
<1>2. ASSUME NEW e \in Editors, EditorStep(e) PROVE HoldersInv'
  <2>1. CASE EnterSave(e) \/ EnterCreate(e)
    BY <2>1 DEF EnterSave, EnterCreate
  <2>2. CASE Compare(e) \/ LookFor(e)
    BY <2>2 DEF Compare, LookFor
  <2>3. CASE Snapshot(e) \/ WriteTmp(e)
    BY <2>3 DEF Snapshot, WriteTmp
  <2>4. CASE Replace(e) \/ ReplaceFails(e) \/ Answer(e)
    BY <2>4 DEF Replace, ReplaceFails, Answer
  <2>5. CASE Move(e)
    BY <2>5 DEF Move
  <2>6. QED
    BY <1>2, <2>1, <2>2, <2>3, <2>4, <2>5 DEF EditorStep
<1>3. ASSUME NEW e \in Editors, Open(e) \/ Archive(e) PROVE HoldersInv'
  BY <1>3 DEF Open, Archive
<1>4. ASSUME NEW e \in Editors, NEW t \in Texts, Save(e, t) \/ Create(e, t)
      PROVE  HoldersInv'
  BY <1>4 DEF Save, Create
<1>5. ASSUME NEW s \in Servers,
             StartServer(s) \/ SeedFile(s) \/ RecordSeeded(s) \/ SeedFails(s)
      PROVE  HoldersInv'
  BY <1>5 DEF StartServer, SeedFile, RecordSeeded, SeedFails
<1>6. ASSUME NEW s \in Servers, StopServer(s) PROVE HoldersInv'
  BY <1>6 DEF StopServer
<1>7. QED
  BY <1>1, <1>2, <1>3, <1>4, <1>5, <1>6 DEF Next

(* Where the editors run does not change, nor whether seeding fails.       *)
LEMMA HomeFixed == [Next]_vars => home' = home /\ seedErrors' = seedErrors
  BY DEF vars, Next, EditorStep, EnterSave, Compare, Snapshot, WriteTmp, Replace,
     ReplaceFails, Answer, EnterCreate, LookFor, Move, Open, Archive, Save, Create,
     StartServer, SeedFile, RecordSeeded, SeedFails, StopServer, seeding,
     setting, editing

(* Archiving a text keeps those archived before.                           *)
LEMMA AppendIsIn ==
    ASSUME NEW versions \in Seq(Texts), NEW t \in Texts
    PROVE  /\ t \in ToSet(Append(versions, t))
           /\ ToSet(versions) \subseteq ToSet(Append(versions, t))
<1> DEFINE all == Append(versions, t)
<1>1. /\ all \in Seq(Texts) /\ Len(all) = Len(versions) + 1 /\ all[Len(versions) + 1] = t
      /\ \A i \in 1..Len(versions) : all[i] = versions[i]
  BY AppendProperties
<1>2. Len(versions) \in Nat /\ DOMAIN versions = 1..Len(versions)
  OBVIOUS
<1>3. DOMAIN all = 1..Len(all)
  BY <1>1
<1> HIDE DEF all
<1>4. t \in ToSet(all)
  BY <1>1, <1>2, <1>3 DEF ToSet
<1>5. ASSUME NEW i \in DOMAIN versions PROVE versions[i] \in ToSet(all)
  BY <1>1, <1>2, <1>3 DEF ToSet
<1>6. QED
  BY <1>4, <1>5 DEF ToSet, all

(* From its check to its answer nobody but an archiving interferes.        *)
LEMMA WriterStep == Inv /\ [Next]_vars => WriterInv'
<1> SUFFICES ASSUME Inv, [Next]_vars, OneProcess' PROVE WriterInv'
  BY DEF WriterInv
<1>1. home' = home
  BY HomeFixed
<1>2. OneProcess
  BY <1>1 DEF OneProcess
<1>3. PICK p \in Processes : Servers \subseteq {p} /\ \A e \in Editors : home[e] = p
  BY <1>2 DEF OneProcess
<1>4. \A e1, e2 \in Editors : pc[e1] \in Locked /\ pc[e2] \in Locked => e1 = e2
  BY <1>3 DEF Inv, HoldersInv
<1> USE ConfigStoreAssumption, <1>2 DEF Inv, IInv, TypeOK, WriterInv, Locked, Goto,
        Finish, FinishLocked, Begin, Take, disk, seeding, setting, editing
<1>5. CASE UNCHANGED vars
  BY <1>5 DEF vars
<1>6. ASSUME NEW e \in Editors, EditorStep(e) PROVE WriterInv'
  <2>1. CASE EnterSave(e) \/ EnterCreate(e)
    BY <2>1 DEF EnterSave, EnterCreate
  <2>2. CASE Compare(e)
    BY <2>2 DEF Compare
  <2>3. CASE LookFor(e)
    BY <2>3 DEF LookFor
  <2>4. CASE Snapshot(e)
    BY <2>4 DEF Snapshot
  <2>5. CASE WriteTmp(e)
    BY <1>4, <2>5 DEF WriteTmp
  <2>6. CASE Replace(e)
    BY <1>4, <2>6 DEF Replace
  <2>7. CASE ReplaceFails(e)
    BY <2>7 DEF ReplaceFails
  <2>8. CASE Answer(e)
    BY <1>4, <2>8 DEF Answer
  <2>9. CASE Move(e)
    <3>1. file # NoFile => file \in ToSet(Append(archived, file))
      BY AppendIsIn
    <3>2. file # NoFile => ToSet(archived) \subseteq ToSet(Append(archived, file))
      BY AppendIsIn
    <3>3. QED
      BY <2>9, <3>1, <3>2 DEF Move
  <2>10. QED
    BY <1>6, <2>1, <2>2, <2>3, <2>4, <2>5, <2>6, <2>7, <2>8, <2>9 DEF EditorStep
<1>7. ASSUME NEW e \in Editors, Open(e) \/ Archive(e) PROVE WriterInv'
  BY <1>7 DEF Open, Archive
<1>8. ASSUME NEW e \in Editors, NEW t \in Texts, Save(e, t) \/ Create(e, t)
      PROVE  WriterInv'
  <2>1. CASE Save(e, t)
    BY <2>1 DEF Save
  <2>2. CASE Create(e, t)
    BY <2>2 DEF Create
  <2>3. QED
    BY <1>8, <2>1, <2>2
<1>9. ASSUME NEW s \in Servers, StartServer(s) \/ RecordSeeded(s) \/ SeedFails(s)
      PROVE  WriterInv'
  BY <1>9 DEF StartServer, RecordSeeded, SeedFails
<1>10. ASSUME NEW s \in Servers, SeedFile(s) PROVE WriterInv'
  <2>1. \A e \in Editors : home[e] = s
    BY <1>3
  <2>2. \A e \in Editors : pc[e] = "idle"
    BY <1>10, <2>1 DEF SeedFile, HoldersInv, Up
  <2>3. QED
    BY <1>10, <2>2 DEF SeedFile
<1>11. ASSUME NEW s \in Servers, StopServer(s) PROVE WriterInv'
  BY <1>11 DEF StopServer
<1>12. QED
  BY <1>5, <1>6, <1>7, <1>8, <1>9, <1>10, <1>11 DEF Next

-----------------------------------------------------------------------------
(* Nothing is destroyed.                                                   *)
Newly(e) == pc[e] \in {"writing", "replacing"} /\ base[e] # NoFile

(* The version a save is about to replace is the newest of the history.    *)
HistoryInv ==
    OneProcess =>
        \A e \in Editors : Newly(e) => history # <<>> /\ history[Len(history)] = base[e]

(* Without seeding errors a server that serves has written its manifest,   *)
(* and every later start reads it.                                         *)
SeededInv ==
    OneProcess /\ ~seedErrors =>
        /\ archived # <<>> /\ Servers # {} => manifest
        /\ \A s \in Servers :
              /\ server[s] = "serving" => manifest
              /\ server[s] = "seeding" => offered[s] = manifest

(* Of a list of versions the last one is kept. *)
LEMMA NewestKeepsLast ==
    ASSUME NEW versions \in Seq(Texts), NEW t \in Texts
    PROVE  /\ Newest(Append(versions, t)) # <<>>
           /\ LET kept == Newest(Append(versions, t)) IN kept[Len(kept)] = t
<1> DEFINE all  == Append(versions, t)
           from == IF Len(all) > MaxHistory THEN Len(all) - MaxHistory + 1 ELSE 1
<1>1. /\ all \in Seq(Texts) /\ Len(all) = Len(versions) + 1 /\ all[Len(versions) + 1] = t
  BY AppendProperties
<1>2. Len(versions) \in Nat /\ MaxHistory \in Nat /\ MaxHistory # 0
  BY ConfigStoreAssumption
<1>3. Len(all) \in Nat /\ from \in 1..Len(all)
  BY <1>1, <1>2
<1>4. Newest(all) = SubSeq(all, from, Len(all))
  BY DEF Newest
<1> HIDE DEF from, all
<1>5. /\ Newest(all) \in Seq(Texts)
      /\ Len(Newest(all)) = Len(all) - from + 1
      /\ \A i \in 1..(Len(all) - from + 1) : Newest(all)[i] = all[from + i - 1]
  <2>1. from \in 1..(Len(all) + 1) /\ Len(all) \in from - 1 .. Len(all)
    BY <1>3
  <2>2. QED
    BY <1>1, <1>3, <1>4, <2>1, SubSeqProperties
<1>6. Len(all) - from + 1 \in 1..(Len(all) - from + 1)
  BY <1>3
<1>7. Newest(all)[Len(Newest(all))] = all[from + (Len(all) - from + 1) - 1]
  BY <1>5, <1>6
<1>8. from + (Len(all) - from + 1) - 1 = Len(all)
  BY <1>3
<1>9. Newest(all) # <<>>
  BY <1>3, <1>5, EmptySeq
<1>10. Newest(all)[Len(Newest(all))] = t
  BY <1>1, <1>7, <1>8
<1>11. QED
  BY <1>9, <1>10 DEF all

(* In one process only the holder of the lock adds a version. *)
LEMMA HistoryStep == Inv /\ HistoryInv /\ [Next]_vars => HistoryInv'
<1> SUFFICES ASSUME Inv, HistoryInv, [Next]_vars, OneProcess' PROVE HistoryInv'
  BY DEF HistoryInv
<1>1. OneProcess
  BY HomeFixed DEF OneProcess
<1>2. \A e1, e2 \in Editors : pc[e1] \in Locked /\ pc[e2] \in Locked => e1 = e2
  BY <1>1 DEF OneProcess, Inv, HoldersInv
<1> USE ConfigStoreAssumption, <1>1 DEF Inv, IInv, TypeOK, CarriesInv, HistoryInv, Newly,
        Locked, Goto, Finish, FinishLocked, Begin, Take, disk, seeding, setting, editing
<1>3. CASE UNCHANGED vars
  BY <1>3 DEF vars
<1>4. ASSUME NEW e \in Editors, EditorStep(e) PROVE HistoryInv'
  <2>1. CASE EnterSave(e) \/ EnterCreate(e)
    BY <2>1 DEF EnterSave, EnterCreate
  <2>2. CASE Compare(e)
    BY <2>2 DEF Compare
  <2>3. CASE LookFor(e)
    BY <2>3 DEF LookFor
  <2>4. CASE Snapshot(e)
    <3>1. history' # <<>> /\ history'[Len(history')] = base[e]
      <4>1. base[e] \in Texts /\ history \in Seq(Texts)
        BY <2>4 DEF Snapshot
      <4>2. history' = Newest(Append(history, base[e]))
        BY <2>4 DEF Snapshot
      <4>3. QED
        BY <4>1, <4>2, NewestKeepsLast
    <3>2. \A f \in Editors \ {e} : pc'[f] \notin {"writing", "replacing"}
      BY <1>2, <2>4 DEF Snapshot
    <3>3. QED
      BY <2>4, <3>1, <3>2 DEF Snapshot
  <2>5. CASE WriteTmp(e)
    BY <2>5 DEF WriteTmp
  <2>6. CASE Replace(e) \/ ReplaceFails(e) \/ Answer(e)
    BY <2>6 DEF Replace, ReplaceFails, Answer
  <2>7. CASE Move(e)
    BY <2>7 DEF Move
  <2>8. QED
    BY <1>4, <2>1, <2>2, <2>3, <2>4, <2>5, <2>6, <2>7 DEF EditorStep
<1>5. ASSUME NEW e \in Editors, Open(e) \/ Archive(e) PROVE HistoryInv'
  BY <1>5 DEF Open, Archive
<1>6. ASSUME NEW e \in Editors, NEW t \in Texts, Save(e, t) \/ Create(e, t)
      PROVE  HistoryInv'
  BY <1>6 DEF Save, Create
<1>7. ASSUME NEW s \in Servers,
             StartServer(s) \/ SeedFile(s) \/ RecordSeeded(s) \/ SeedFails(s)
      PROVE  HistoryInv'
  BY <1>7 DEF StartServer, SeedFile, RecordSeeded, SeedFails
<1>8. ASSUME NEW s \in Servers, StopServer(s) PROVE HistoryInv'
  BY <1>8 DEF StopServer
<1>9. QED
  BY <1>3, <1>4, <1>5, <1>6, <1>7, <1>8 DEF Next

(* An archiving happens while the server serves, after its manifest.       *)
LEMMA SeededStep == Inv /\ SeededInv /\ [Next]_vars => SeededInv'
<1> SUFFICES ASSUME Inv, SeededInv, [Next]_vars, OneProcess', ~seedErrors'
             PROVE  SeededInv'
  BY DEF SeededInv
<1>1. OneProcess /\ ~seedErrors
  BY HomeFixed DEF OneProcess
<1>2. PICK p \in Processes : Servers \subseteq {p} /\ \A e \in Editors : home[e] = p
  BY <1>1 DEF OneProcess
<1> USE ConfigStoreAssumption, <1>1 DEF Inv, IInv, TypeOK, SeededInv,
        Goto, Finish, FinishLocked, Begin, Take, disk, seeding, setting, editing
<1>3. CASE UNCHANGED vars
  BY <1>3 DEF vars
<1>4. ASSUME NEW e \in Editors, EditorStep(e) PROVE SeededInv'
  <2>1. CASE Move(e)
    <3>1. Servers # {} => home[e] \in Servers /\ server[home[e]] = "serving"
      BY <1>2, <2>1 DEF Move, HoldersInv, Up
    <3>2. QED
      BY <2>1, <3>1 DEF Move
  <2>2. CASE ~Move(e)
    BY <1>4, <2>2 DEF EditorStep, EnterSave, Compare, Snapshot, WriteTmp, Replace,
       ReplaceFails, Answer, EnterCreate, LookFor
  <2>3. QED
    BY <2>1, <2>2
<1>5. ASSUME NEW e \in Editors, Open(e) \/ Archive(e) PROVE SeededInv'
  BY <1>5 DEF Open, Archive
<1>6. ASSUME NEW e \in Editors, NEW t \in Texts, Save(e, t) \/ Create(e, t)
      PROVE  SeededInv'
  BY <1>6 DEF Save, Create
<1>7. ASSUME NEW s \in Servers,
             StartServer(s) \/ SeedFile(s) \/ SeedFails(s) \/ StopServer(s)
      PROVE  SeededInv'
  <2>1. CASE StartServer(s)
    BY <1>2, <1>7, <2>1 DEF StartServer
  <2>2. CASE SeedFile(s)
    BY <1>2, <1>7, <2>2 DEF SeedFile
  <2>3. CASE SeedFails(s)
    BY <1>7, <2>3 DEF SeedFails
  <2>4. CASE StopServer(s)
    BY <1>2, <1>7, <2>4 DEF StopServer
  <2>5. QED
    BY <1>7, <2>1, <2>2, <2>3, <2>4
<1>8. ASSUME NEW s \in Servers, RecordSeeded(s) PROVE SeededInv'
  <2>1. manifest' = TRUE /\ seedErrors' = seedErrors
    BY <1>8 DEF RecordSeeded
  <2>2. \A q \in Servers : q = s
    BY <1>2, <1>8
  <2>3. server'[s] = "serving"
    BY <1>8 DEF RecordSeeded
  <2>4. QED
    BY <2>1, <2>2, <2>3
<1>9. QED
  BY <1>3, <1>4, <1>5, <1>6, <1>7, <1>8 DEF Next

-----------------------------------------------------------------------------
AllInv == Inv /\ HistoryInv /\ SeededInv

(* The inductive invariant on which NoLostUpdate, SavedMeansStored and the other *)
(* theorems about ConfigStore rest holds in every reachable state. *)
LEMMA Invariant == Spec => []AllInv
<1>1. Init => AllInv
  BY InitInv, ConfigStoreAssumption
  DEF AllInv, Init, HistoryInv, Newly, SeededInv
<1>2. AllInv /\ [Next]_vars => AllInv'
  BY NextIInv, HoldersStep, WriterStep, HistoryStep, SeededStep DEF Inv, AllInv
<1>3. QED
  BY <1>1, <1>2, PTL DEF Spec

(* A save of one thread never overwrites a text that another thread stored *)
(* after the save's author opened the report.                              *)
THEOREM LosesNoUpdate == Spec => NoLostUpdate
<1>1. AllInv /\ [Next]_vars
      => [OneProcess => \A e \in Editors :
             Replace(e) /\ base[e] # NoFile /\ file # NoFile => file = base[e]]_vars
  BY DEF AllInv, Inv, WriterInv, Replace
<1>2. QED
  BY Invariant, <1>1, PTL DEF Spec, NoLostUpdate

(* A save is answered with its own text, or with an error once that text   *)
(* is in the archive.                                                      *)
THEOREM StoresWhatWasSaved == Spec => SavedMeansStored
<1>1. ASSUME AllInv, OneProcess, NEW e \in Editors, Answer(e), base[e] # NoFile
      PROVE  \/ result'[e] = "saved" /\ file = text[e]
             \/ result'[e] = "failed" /\ text[e] \in ToSet(archived)
  <2>1. pc[e] = "answering"
    BY <1>1 DEF Answer, AllInv, Inv, IInv, CarriesInv
  <2>2. result'[e] = IF file = NoFile THEN "failed" ELSE "saved"
    BY <1>1 DEF Answer, Finish, AllInv, Inv, IInv, TypeOK
  <2>3. text[e] # NoFile
    BY <1>1, <2>1, ConfigStoreAssumption DEF AllInv, Inv, IInv, CarriesInv
  <2>4. QED
    BY <1>1, <2>1, <2>2, <2>3 DEF AllInv, Inv, WriterInv
<1>2. AllInv /\ [Next]_vars
      => [OneProcess => \A e \in Editors :
             Answer(e) /\ base[e] # NoFile =>
                 \/ result'[e] = "saved" /\ file = text[e]
                 \/ result'[e] = "failed" /\ text[e] \in ToSet(archived)]_vars
  BY <1>1
<1>3. QED
  BY Invariant, <1>2, PTL DEF Spec, SavedMeansStored

(* A snapshot drops the oldest version of a full history and no other.     *)
LEMMA NewestKeepsTheRest ==
    ASSUME NEW versions \in Seq(Texts), Len(versions) <= MaxHistory, NEW t \in Texts,
           NEW v \in ToSet(versions), v \notin ToSet(Newest(Append(versions, t)))
    PROVE  Len(versions) = MaxHistory /\ v = Head(versions)
<1> DEFINE all  == Append(versions, t)
           from == IF Len(all) > MaxHistory THEN Len(all) - MaxHistory + 1 ELSE 1
<1>1. /\ all \in Seq(Texts) /\ Len(all) = Len(versions) + 1
      /\ \A i \in 1..Len(versions) : all[i] = versions[i]
  BY AppendProperties
<1>2. /\ Len(versions) \in Nat /\ MaxHistory \in Nat /\ MaxHistory # 0
      /\ DOMAIN versions = 1..Len(versions)
  BY ConfigStoreAssumption
<1>3. Len(all) \in Nat /\ from \in 1..Len(all)
  BY <1>1, <1>2
<1>4. Newest(all) = SubSeq(all, from, Len(all))
  BY DEF Newest
<1> HIDE DEF all
<1>5. from \in {1, 2} /\ (from = 2 => Len(versions) = MaxHistory)
  <2>1. \A n, m \in Nat : n <= m => (n + 1 > m => n = m) /\ (n = m => n + 1 - m + 1 = 2)
    OBVIOUS
  <2>2. Len(all) > MaxHistory => Len(versions) = MaxHistory
    BY <1>1, <1>2, <2>1
  <2>3. Len(versions) = MaxHistory => Len(all) - MaxHistory + 1 = 2
    BY <1>1, <1>2, <2>1
  <2>4. QED
    BY <2>2, <2>3
<1> HIDE DEF from
<1>6. /\ Newest(all) \in Seq(Texts)
      /\ Len(Newest(all)) = Len(all) - from + 1
      /\ \A i \in 1..(Len(all) - from + 1) : Newest(all)[i] = all[from + i - 1]
  <2>1. from \in 1..(Len(all) + 1) /\ Len(all) \in from - 1 .. Len(all)
    BY <1>3
  <2>2. QED
    BY <1>1, <1>3, <1>4, <2>1, SubSeqProperties
<1>7. PICK i \in 1..Len(versions) : v = versions[i]
  BY <1>2 DEF ToSet
<1>8. ASSUME i >= from PROVE FALSE
  <2>1. i - from + 1 \in 1..(Len(all) - from + 1) /\ from + (i - from + 1) - 1 = i
    BY <1>1, <1>2, <1>3, <1>8
  <2>2. Newest(all)[i - from + 1] = v
    BY <1>1, <1>6, <1>7, <2>1
  <2>3. DOMAIN Newest(all) = 1..(Len(all) - from + 1)
    BY <1>6
  <2>4. v \in ToSet(Newest(all))
    BY <2>1, <2>2, <2>3 DEF ToSet
  <2>5. QED
    BY <2>4 DEF all
<1>9. i = 1 /\ Len(versions) = MaxHistory
  BY <1>5, <1>8
<1>10. QED
  BY <1>7, <1>9, HeadTailProperties, EmptySeq

(* Every text that is the report, in its history or in its archive stays   *)
(* in one of them, but the oldest version when a full history takes one    *)
(* more.                                                                   *)
THEOREM DestroysNothing == Spec => NothingIsDestroyed
<1> DEFINE Pruned(t) == /\ Len(history) = MaxHistory /\ t = Head(history)
                        /\ \E e \in Editors : Snapshot(e)
<1>1. ASSUME AllInv, [Next]_vars, OneProcess, NEW t \in Kept, t \notin Kept'
      PROVE  Pruned(t)
  <2>1. /\ history \in Seq(Texts) /\ Len(history) <= MaxHistory
        /\ archived \in Seq(Texts) /\ file \in Texts \cup {NoFile}
    BY <1>1 DEF AllInv, Inv, IInv, TypeOK
  <2>2. /\ t # NoFile
        /\ t = file \/ t \in ToSet(history) \/ t \in ToSet(archived)
        /\ t # file' /\ t \notin ToSet(history') /\ t \notin ToSet(archived')
    BY <1>1 DEF Kept
  <2>3. ASSUME NEW e \in Editors, Snapshot(e) PROVE Pruned(t)
    <3>1. base[e] \in Texts /\ history' = Newest(Append(history, base[e]))
      BY <1>1, <2>3 DEF Snapshot, AllInv, Inv, IInv, CarriesInv
    <3>2. t \in ToSet(history)
      BY <2>2, <2>3 DEF Snapshot
    <3>3. QED
      BY <2>1, <2>2, <2>3, <3>1, <3>2, NewestKeepsTheRest
  <2>4. ASSUME NEW e \in Editors, Replace(e) PROVE FALSE
    <3>1. t = file /\ history' = history
      BY <2>2, <2>4 DEF Replace
    <3>2. file = base[e] /\ Newly(e)
      BY <1>1, <2>2, <2>4, <3>1 DEF AllInv, Inv, WriterInv, Replace, Newly
    <3>3. history # <<>> /\ history[Len(history)] = file
      BY <1>1, <3>2 DEF AllInv, HistoryInv
    <3>4. Len(history) \in DOMAIN history
      BY <2>1, <3>3, EmptySeq
    <3>5. QED
      BY <2>2, <3>1, <3>3, <3>4 DEF ToSet
  <2>5. ASSUME NEW e \in Editors, Move(e) PROVE FALSE
    <3>1. file # NoFile =>
            /\ file \in ToSet(Append(archived, file))
            /\ ToSet(archived) \subseteq ToSet(Append(archived, file))
      BY <2>1, AppendIsIn
    <3>2. QED
      BY <2>2, <2>5, <3>1 DEF Move
  <2>6. ASSUME NEW e \in Editors, EditorStep(e), ~Replace(e), ~Move(e), ~Snapshot(e)
        PROVE  FALSE
    BY <2>2, <2>6 DEF EditorStep, EnterSave, Compare, WriteTmp, ReplaceFails, Answer,
       EnterCreate, LookFor, disk
  <2>7. ASSUME NEW e \in Editors, Open(e) \/ Archive(e) PROVE FALSE
    BY <2>2, <2>7 DEF Open, Archive, disk
  <2>8. ASSUME NEW e \in Editors, NEW u \in Texts, Save(e, u) \/ Create(e, u)
        PROVE  FALSE
    BY <2>2, <2>8 DEF Save, Create, disk
  <2>9. ASSUME NEW s \in Servers,
               \/ StartServer(s) \/ SeedFile(s) \/ RecordSeeded(s) \/ SeedFails(s)
               \/ StopServer(s)
        PROVE  FALSE
    BY <2>2, <2>9 DEF StartServer, SeedFile, RecordSeeded, SeedFails, StopServer, disk
  <2>10. CASE UNCHANGED vars
    BY <2>2, <2>10 DEF vars
  <2> HIDE DEF Pruned
  <2>11. QED
    BY <1>1, <2>3, <2>4, <2>5, <2>6, <2>7, <2>8, <2>9, <2>10 DEF Next
<1>2. AllInv /\ [Next]_vars
      => [OneProcess => \A t \in Kept \ Kept' : Pruned(t)]_vars
  BY <1>1
<1>3. QED
  BY Invariant, <1>2, PTL DEF Spec, NothingIsDestroyed

(* A bundled report that was archived is not brought back by a later start *)
(* of the server.                                                          *)
THEOREM SeedsOnce == Spec => ArchivedIsNotReseeded
<1>1. ASSUME AllInv, [Next]_vars, OneProcess, ~seedErrors, NEW s \in Servers,
             server[s] = "seeding", server'[s] = "copied", archived # <<>>
      PROVE  file' = file
  <2>1. offered[s]
    BY <1>1 DEF AllInv, SeededInv
  <2>2. SeedFile(s)
    BY <1>1 DEF Next, vars, AllInv, Inv, IInv, TypeOK, EditorStep, EnterSave, Compare,
       Snapshot, WriteTmp, Replace, ReplaceFails, Answer, EnterCreate, LookFor, Move,
       Open, Archive, Save, Create, StartServer, SeedFile, RecordSeeded, SeedFails,
       StopServer, seeding
  <2>3. QED
    BY <2>1, <2>2 DEF SeedFile
<1>2. AllInv /\ [Next]_vars
      => [OneProcess /\ ~seedErrors => \A s \in Servers :
             server[s] = "seeding" /\ server'[s] = "copied" /\ archived # <<>>
             => file' = file]_vars
  BY <1>1
<1>3. QED
  BY Invariant, <1>2, PTL DEF Spec, ArchivedIsNotReseeded

=============================================================================
