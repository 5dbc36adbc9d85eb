----------------------------- MODULE ConfigStore -----------------------------
(***************************************************************************)
(* The file of one report config and everything that changes it: saves,    *)
(* creations, archivings and the seeding of bundled reports (config/store, *)
(* container.seed_bundled_reports, the handlers of distribution/config_api *)
(* and the commands of cli/config_cmds).                                   *)
(*                                                                         *)
(* An editor is one request thread of a server or one command-line         *)
(* process.  Threads of a process share its ConfigStore and so its         *)
(* _write_lock; processes share only the directory.                        *)
(***************************************************************************)
EXTENDS Naturals, Sequences, FiniteSets, SequencesExt

CONSTANTS
    Editors,      \* request threads and command-line processes
    Processes,    \* processes with a ConfigStore of their own
    Homes,        \* how the editors may be spread over the processes
    Servers,      \* the processes that run `dashdashgo serve`
    Texts,        \* config texts that pass ConfigStore.check
    Bundled,      \* the text shipped for this report
    NoFile,       \* there is no such file
    Nobody,       \* the lock is free
    MaxHistory,   \* MAX_HISTORY
    MaxEdits,     \* bound: operations begun in a behaviour
    MaxStarts,    \* bound: server starts in a behaviour
    SeedErrors    \* may seed_bundled fail half way (disk full)?  A set of answers

ASSUME ConfigStoreAssumption ==
    /\ Homes \subseteq [Editors -> Processes]
    /\ Servers \subseteq Processes
    /\ Bundled \in Texts
    /\ NoFile \notin Texts /\ Nobody \notin Editors
    /\ MaxHistory \in Nat \ {0} /\ MaxEdits \in Nat /\ MaxStarts \in Nat
    /\ SeedErrors \subseteq BOOLEAN

VARIABLES
    file,       \* reports/<name>.yaml
    tmp,        \* reports/.<name>.yaml.tmp, where _write_atomic prepares it
    history,    \* reports/.history/<name>/, oldest version first
    archived,   \* reports/.archive/<name>-*.yaml, oldest first
    manifest,   \* does reports/.seeded list the report?
    lock,       \* lock[p]: the editor inside `with self._write_lock` of p
    pc,         \* pc[e]: where editor e is
    base,       \* base[e]: the text of the version e opened, or was answered
    text,       \* text[e]: the text e wants to store
    result,     \* result[e]: how e's last operation ended
    server,     \* server[s]: "down", "seeding", "copied" or "serving"
    offered,    \* offered[s]: did the manifest s read list the report?
    edits,      \* operations begun so far
    starts,     \* server starts so far
    home,       \* home[e]: the process of editor e (fixed)
    seedErrors  \* does seeding fail in this behaviour? (fixed)

vars == <<file, tmp, history, archived, manifest, lock, pc, base, text, result,
          server, offered, edits, starts, home, seedErrors>>

disk    == <<file, tmp, history, archived>>
setting == <<home, seedErrors>>
seeding == <<manifest, server, offered, starts, setting>>

TypeOK ==
    /\ file \in Texts \cup {NoFile}
    /\ tmp \in Texts \cup {NoFile}
    /\ history \in Seq(Texts) /\ Len(history) <= MaxHistory
    /\ archived \in Seq(Texts)
    /\ manifest \in BOOLEAN
    /\ lock \in [Processes -> Editors \cup {Nobody}]
    /\ pc \in [Editors -> {"idle", "editing", "saving", "comparing", "snapshot",
                           "creating", "looking", "writing", "replacing", "answering",
                           "rereading", "moving"}]
    /\ base \in [Editors -> Texts \cup {NoFile}]
    /\ text \in [Editors -> Texts \cup {NoFile}]
    /\ result \in [Editors -> {"none", "saved", "unchanged", "refused", "failed",
                               "archived"}]
    /\ server \in [Servers -> {"down", "seeding", "copied", "serving"}]
    /\ offered \in [Servers -> BOOLEAN]
    /\ edits \in 0..MaxEdits
    /\ starts \in 0..MaxStarts
    /\ home \in Homes
    /\ seedErrors \in SeedErrors

Init ==
    /\ file = NoFile
    /\ tmp = NoFile
    /\ history = <<>>
    /\ archived = <<>>
    /\ manifest = FALSE
    /\ lock = [p \in Processes |-> Nobody]
    /\ pc = [e \in Editors |-> "idle"]
    /\ base = [e \in Editors |-> NoFile]
    /\ text = [e \in Editors |-> NoFile]
    /\ result = [e \in Editors |-> "none"]
    /\ server = [s \in Servers |-> "down"]
    /\ offered = [s \in Servers |-> FALSE]
    /\ edits = 0
    /\ starts = 0
    /\ home \in Homes
    /\ seedErrors \in SeedErrors

-----------------------------------------------------------------------------
Goto(e, label) == pc' = [pc EXCEPT ![e] = label]

(* A thread of a server exists while the server serves. *)
Up(e) == home[e] \in Servers => server[home[e]] = "serving"

Begin(e) ==
    /\ pc[e] = "idle"
    /\ Up(e)
    /\ edits < MaxEdits
    /\ edits' = edits + 1

Take(e) ==
    /\ lock[home[e]] = Nobody
    /\ lock' = [lock EXCEPT ![home[e]] = e]

Finish(e, how) ==
    /\ result' = [result EXCEPT ![e] = how]
    /\ Goto(e, "idle")

FinishLocked(e, how) ==
    /\ Finish(e, how)
    /\ lock' = [lock EXCEPT ![home[e]] = Nobody]

-----------------------------------------------------------------------------
(***************************************************************************)
(* Opening and saving: GET and PUT /reports/{name}/config; config edit,    *)
(* config import over an existing report, config restore.                  *)
(***************************************************************************)
Open(e) ==
    /\ Begin(e)
    /\ file # NoFile
    /\ base' = [base EXCEPT ![e] = file]
    /\ Goto(e, "editing")
    /\ UNCHANGED <<disk, lock, text, result, seeding>>

Save(e, t) ==
    /\ pc[e] = "editing"
    /\ text' = [text EXCEPT ![e] = t]
    /\ Goto(e, "saving")
    /\ UNCHANGED <<disk, lock, base, result, seeding, edits>>

EnterSave(e) ==
    /\ pc[e] = "saving"
    /\ Take(e)
    /\ Goto(e, "comparing")
    /\ UNCHANGED <<disk, base, text, result, seeding, edits>>

(* Mutant: the base version is not compared. *)
CompareTextOnly(e) ==
    /\ pc[e] = "comparing"
    /\ \/ /\ text[e] = file
          /\ FinishLocked(e, "unchanged")
       \/ /\ text[e] # file
          /\ Goto(e, "snapshot")
          /\ UNCHANGED <<lock, result>>
    /\ UNCHANGED <<disk, base, text, seeding, edits>>

(* Mutant: a refused save keeps the lock. *)
CompareKeepsLock(e) ==
    /\ pc[e] = "comparing"
    /\ \/ /\ file # base[e]
          /\ Finish(e, "refused")
          /\ UNCHANGED lock
       \/ /\ file = base[e] /\ text[e] = file
          /\ FinishLocked(e, "unchanged")
       \/ /\ file = base[e] /\ text[e] # file
          /\ Goto(e, "snapshot")
          /\ UNCHANGED <<lock, result>>
    /\ UNCHANGED <<disk, base, text, seeding, edits>>

(* _save up to the snapshot: the report may be gone, have another version, *)
(* or have this very text already.                                         *)
Compare(e) ==
    /\ pc[e] = "comparing"
    /\ \/ /\ file # base[e]
          /\ FinishLocked(e, "refused")
       \/ /\ file = base[e] /\ text[e] = file
          /\ FinishLocked(e, "unchanged")
       \/ /\ file = base[e] /\ text[e] # file
          /\ Goto(e, "snapshot")
          /\ UNCHANGED <<lock, result>>
    /\ UNCHANGED <<disk, base, text, seeding, edits>>

Newest(versions) ==
    SubSeq(versions, IF Len(versions) > MaxHistory
                     THEN Len(versions) - MaxHistory + 1 ELSE 1, Len(versions))

Snapshot(e) ==
    /\ pc[e] = "snapshot"
    /\ history' = Newest(Append(history, base[e]))
    /\ Goto(e, "writing")
    /\ UNCHANGED <<file, tmp, archived, lock, base, text, result, seeding, edits>>

(* _write_atomic: the temporary file has the same name in every process.   *)
WriteTmp(e) ==
    /\ pc[e] = "writing"
    /\ tmp' = text[e]
    /\ Goto(e, "replacing")
    /\ UNCHANGED <<file, history, archived, lock, base, text, result, seeding, edits>>

(* Mutant: every save gives the lock back before it reads its answer.      *)
ReplaceUnlocks(e) ==
    /\ pc[e] = "replacing"
    /\ tmp # NoFile
    /\ file' = tmp
    /\ tmp' = NoFile
    /\ Goto(e, "rereading")
    /\ lock' = [lock EXCEPT ![home[e]] = Nobody]
    /\ UNCHANGED <<history, archived, base, text, result, seeding, edits>>

(* A save keeps the lock for its answer, a creation does not.              *)
Replace(e) ==
    /\ pc[e] = "replacing"
    /\ tmp # NoFile
    /\ file' = tmp
    /\ tmp' = NoFile
    /\ IF base[e] = NoFile
       THEN Goto(e, "rereading") /\ lock' = [lock EXCEPT ![home[e]] = Nobody]
       ELSE Goto(e, "answering") /\ UNCHANGED lock
    /\ UNCHANGED <<history, archived, base, text, result, seeding, edits>>

(* Another process has renamed the temporary file already. *)
ReplaceFails(e) ==
    /\ pc[e] = "replacing"
    /\ tmp = NoFile
    /\ FinishLocked(e, "failed")
    /\ UNCHANGED <<disk, base, text, seeding, edits>>

(* The answer is read from the file again: its version is that of the text *)
(* the file has by now, and there is none when it has been archived.       *)
Answer(e) ==
    /\ \/ pc[e] = "answering" /\ lock' = [lock EXCEPT ![home[e]] = Nobody]
       \/ pc[e] = "rereading" /\ UNCHANGED lock
    /\ base' = [base EXCEPT ![e] = file]
    /\ Finish(e, IF file = NoFile THEN "failed" ELSE "saved")
    /\ UNCHANGED <<disk, text, seeding, edits>>

-----------------------------------------------------------------------------
(***************************************************************************)
(* POST /reports, config new, config import of a new report.               *)
(***************************************************************************)
Create(e, t) ==
    /\ Begin(e)
    /\ text' = [text EXCEPT ![e] = t]
    /\ base' = [base EXCEPT ![e] = NoFile]
    /\ Goto(e, "creating")
    /\ UNCHANGED <<disk, lock, result, seeding>>

EnterCreate(e) ==
    /\ pc[e] = "creating"
    /\ Take(e)
    /\ Goto(e, "looking")
    /\ UNCHANGED <<disk, base, text, result, seeding, edits>>

(* Mutant: an existing report is not looked for. *)
LookForNothing(e) ==
    /\ pc[e] = "looking"
    /\ Goto(e, "writing")
    /\ UNCHANGED <<disk, lock, base, text, result, seeding, edits>>

LookFor(e) ==
    /\ pc[e] = "looking"
    /\ \/ /\ file # NoFile
          /\ FinishLocked(e, "refused")
       \/ /\ file = NoFile
          /\ Goto(e, "writing")
          /\ UNCHANGED <<lock, result>>
    /\ UNCHANGED <<disk, base, text, seeding, edits>>

(***************************************************************************)
(* DELETE /reports/{name}, config archive: no lock is taken.               *)
(***************************************************************************)
Archive(e) ==
    /\ Begin(e)
    /\ file # NoFile
    /\ Goto(e, "moving")
    /\ UNCHANGED <<disk, lock, base, text, result, seeding>>

Move(e) ==
    /\ pc[e] = "moving"
    /\ IF file = NoFile
       THEN Finish(e, "failed") /\ UNCHANGED <<file, archived>>
       ELSE /\ archived' = Append(archived, file)
            /\ file' = NoFile
            /\ Finish(e, "archived")
    /\ UNCHANGED <<tmp, history, lock, base, text, seeding, edits>>

-----------------------------------------------------------------------------
(***************************************************************************)
(* seed_bundled at server start.  An OSError is logged and the server      *)
(* starts all the same; the bundle has other reports, whose copies may     *)
(* fail after this one's succeeded.                                        *)
(***************************************************************************)
editing == <<lock, pc, base, text, result, edits, setting>>

StartServer(s) ==
    /\ server[s] = "down"
    /\ starts < MaxStarts
    /\ starts' = starts + 1
    /\ offered' = [offered EXCEPT ![s] = manifest]
    /\ server' = [server EXCEPT ![s] = "seeding"]
    /\ UNCHANGED <<disk, manifest, editing>>

(* Mutant: the manifest is not consulted. *)
SeedFileAgain(s) ==
    /\ server[s] = "seeding"
    /\ IF file = NoFile
       THEN file' = Bundled /\ tmp' = NoFile
       ELSE UNCHANGED <<file, tmp>>
    /\ server' = [server EXCEPT ![s] = "copied"]
    /\ UNCHANGED <<history, archived, manifest, offered, starts, editing>>

SeedFile(s) ==
    /\ server[s] = "seeding"
    /\ IF ~offered[s] /\ file = NoFile
       THEN file' = Bundled /\ tmp' = NoFile
       ELSE UNCHANGED <<file, tmp>>
    /\ server' = [server EXCEPT ![s] = "copied"]
    /\ UNCHANGED <<history, archived, manifest, offered, starts, editing>>

RecordSeeded(s) ==
    /\ server[s] = "copied"
    /\ manifest' = TRUE
    /\ server' = [server EXCEPT ![s] = "serving"]
    /\ UNCHANGED <<disk, offered, starts, editing>>

SeedFails(s) ==
    /\ seedErrors
    /\ server[s] \in {"seeding", "copied"}
    /\ server' = [server EXCEPT ![s] = "serving"]
    /\ UNCHANGED <<disk, manifest, offered, starts, editing>>

(* The server stops; its threads stop where they are. *)
StopServer(s) ==
    /\ server[s] # "down"
    /\ server' = [server EXCEPT ![s] = "down"]
    /\ lock' = [lock EXCEPT ![s] = Nobody]
    /\ pc' = [e \in Editors |-> IF home[e] = s THEN "idle" ELSE pc[e]]
    /\ UNCHANGED <<disk, manifest, offered, starts, base, text, result, edits,
                   setting>>

-----------------------------------------------------------------------------
EditorStep(e) ==
    \/ EnterSave(e) \/ Compare(e) \/ Snapshot(e) \/ WriteTmp(e)
    \/ Replace(e) \/ ReplaceFails(e) \/ Answer(e)
    \/ EnterCreate(e) \/ LookFor(e) \/ Move(e)

Next ==
    \/ \E e \in Editors :
          \/ EditorStep(e) \/ Open(e) \/ Archive(e)
          \/ \E t \in Texts : Save(e, t) \/ Create(e, t)
    \/ \E s \in Servers :
          StartServer(s) \/ SeedFile(s) \/ RecordSeeded(s) \/ SeedFails(s) \/ StopServer(s)

Spec == Init /\ [][Next]_vars

(* A thread that can continue does. *)
FairSpec == Spec /\ \A e \in Editors : WF_vars(EditorStep(e))

-----------------------------------------------------------------------------
(***************************************************************************)
(* Properties.                                                             *)
(***************************************************************************)
(* The threads of one server share its write lock, and no other process    *)
(* writes the file.                                                        *)
OneProcess ==
    \E p \in Processes : Servers \subseteq {p} /\ \A e \in Editors : home[e] = p

(* "if the file changed since it was opened, the save is refused instead   *)
(* of silently overwriting" (store.py:6-7): a save replaces the text its   *)
(* author opened, never one stored by another thread in the meantime.       *)
NoLostUpdate ==
    [][OneProcess => \A e \in Editors :
           Replace(e) /\ base[e] # NoFile /\ file # NoFile => file = base[e]]_vars

(* "version check + write must be atomic" (store.py:135): what a save      *)
(* writes over is still the version it was checked against.                *)
CheckedWhenWritten ==
    [][\A e \in Editors : Replace(e) => file = base[e]]_vars

(* A save (a creation apart, which reads its answer without the lock) is   *)
(* answered with the version of its own text, never with that of another   *)
(* thread's; if the report is archived meanwhile, it is answered with an   *)
(* error, and its text is in the archive.                                  *)
SavedMeansStored ==
    [][OneProcess => \A e \in Editors :
           Answer(e) /\ base[e] # NoFile =>
               \/ result'[e] = "saved" /\ file = text[e]
               \/ result'[e] = "failed" /\ text[e] \in ToSet(archived)]_vars

Kept == ({file} \cup ToSet(history) \cup ToSet(archived)) \ {NoFile}

(* Edits and archivings lose no text that is the report, in its history or *)
(* in its archive, but for one: a snapshot into a full history drops the   *)
(* oldest version there (store.py:249-250), so that not "any edit can be   *)
(* inspected or rolled back" (store.py:8-9).                               *)
NothingIsDestroyed ==
    [][OneProcess => \A t \in Kept \ Kept' :
           /\ Len(history) = MaxHistory /\ t = Head(history)
           /\ \E e \in Editors : Snapshot(e)]_vars

(* "a report that was seeded once is never re-added (so archiving or       *)
(* deleting it sticks)" (store.py:219-220), as long as seeding succeeds    *)
(* and nobody archives it before the manifest is written.                  *)
ArchivedIsNotReseeded ==
    [][OneProcess /\ ~seedErrors => \A s \in Servers :
           server[s] = "seeding" /\ server'[s] = "copied" /\ archived # <<>>
           => file' = file]_vars

(* Every request is answered: nobody waits for the lock for ever.          *)
Answered == {"idle", "editing"}
RequestsEnd == \A e \in Editors : pc[e] \notin Answered ~> pc[e] \in Answered

=============================================================================
