-------------------------- MODULE StoreOpenProofs --------------------------
(***************************************************************************)
(* Theorems of StoreOpen.tla, for any number of daemons, files, starts and *)
(* faults.                                                                 *)
(***************************************************************************)
EXTENDS StoreOpen, TLAPS

\* The steps of the import's transaction, from Begin to Commit.
Importing(d) == pc[d] \in {"read", "marks", "comments", "commit"}

\* A daemon that works on the database has it open.
OpenInv ==
    \A d \in Daemon :
       pc[d] \in {"migrate", "begin", "rename", "running"} \/ Importing(d)
          => at[d] \in Inode

\* The transaction holds the write lock, and nobody has set the sentinel that
\* it found clear.
LockInv ==
    \A d \in Daemon :
       Importing(d) => lock[at[d]] = d /\ ~ file[at[d]].imported

\* Past the import the sentinel is set.
DoneInv ==
    /\ \A d \in Daemon : pc[d] = "rename" => file[at[d]].imported /\ imports > 0
    /\ ServesImported
    /\ RenamedAfterImport

IInv == TypeOK /\ OpenInv /\ LockInv /\ DoneInv

-----------------------------------------------------------------------------
LEMMA FreshUnused == Unused # {} => Fresh \in Unused
BY DEF Fresh

LEMMA ContentTypes ==
    /\ NoRows \in Rows
    /\ Blank \in Content
    /\ \A kind : Populated(kind) \in Content
BY DEF Rows, NoRows, Content, Blank, Populated

\* A file whose rows, sentinel, schema or soundness change is still a file.
LEMMA FileUpdate ==
    ASSUME TypeOK, NEW i \in Inode
    PROVE  /\ [file EXCEPT ![i].schema = "ours"] \in [Inode -> Content]
           /\ [file EXCEPT ![i].sound = FALSE] \in [Inode -> Content]
           /\ \A r \in Rows : [file EXCEPT ![i].rows = r] \in [Inode -> Content]
           /\ \A r \in Rows :
                 [file EXCEPT ![i].imported = TRUE, ![i].rows = r] \in [Inode -> Content]
<1>1. file \in [Inode -> Content] /\ file[i] \in Content /\ file[i].rows \in Rows
  BY DEF TypeOK, Content
<1>2. \A c \in Content : [file EXCEPT ![i] = c] \in [Inode -> Content]
  BY <1>1
<1>3. /\ [file[i] EXCEPT !.schema = "ours"] \in Content
      /\ [file[i] EXCEPT !.sound = FALSE] \in Content
  BY <1>1 DEF Content
<1>4. \A r \in Rows : [file[i] EXCEPT !.rows = r] \in Content
  BY <1>1 DEF Content
<1>5. \A r \in Rows : [file[i] EXCEPT !.imported = TRUE, !.rows = r] \in Content
  BY <1>1 DEF Content
<1>6. /\ [file EXCEPT ![i].schema = "ours"]
           = [file EXCEPT ![i] = [file[i] EXCEPT !.schema = "ours"]]
      /\ [file EXCEPT ![i].sound = FALSE]
           = [file EXCEPT ![i] = [file[i] EXCEPT !.sound = FALSE]]
  BY <1>1 DEF Content
<1>7. \A r \in Rows :
         /\ [file EXCEPT ![i].rows = r] = [file EXCEPT ![i] = [file[i] EXCEPT !.rows = r]]
         /\ [file EXCEPT ![i].imported = TRUE, ![i].rows = r]
              = [file EXCEPT ![i] = [file[i] EXCEPT !.imported = TRUE, !.rows = r]]
  BY <1>1
<1> QED
  BY <1>2, <1>3, <1>4, <1>5, <1>6, <1>7

LEMMA InitInv == Init => IInv
<1> SUFFICES ASSUME Init PROVE IInv
  OBVIOUS
<1> USE StoreAssumption
<1>1. path \in Inode \cup {None}
  BY DEF Init
<1>2. file \in [Inode -> Content]
  BY ContentTypes DEF Init
<1>3. json \in AllLegacy
  BY DEF Init
<1>4. TypeOK
  BY <1>1, <1>2, <1>3, ContentTypes DEF Init, TypeOK, Labels
<1>5. OpenInv /\ LockInv
  BY DEF Init, OpenInv, LockInv, Importing
<1>6. DoneInv
  BY <1>3 DEF Init, DoneInv, ServesImported, RenamedAfterImport, AllLegacy
<1> QED
  BY <1>4, <1>5, <1>6 DEF IInv

-----------------------------------------------------------------------------
(* Types.                                                                  *)

LEMMA TypeStep == IInv /\ [Next]_vars => TypeOK'
<1> SUFFICES ASSUME IInv, [Next]_vars PROVE TypeOK'
  OBVIOUS
<1> USE StoreAssumption DEF IInv
<1>1. CASE UNCHANGED vars
  BY <1>1 DEF vars, TypeOK
<1>2. CASE Corrupt
  <2>1. path \in Inode
    BY <1>2 DEF Corrupt, TypeOK
  <2>2. file' \in [Inode -> Content]
    BY <1>2, <2>1, FileUpdate DEF Corrupt
  <2> QED
    BY <1>2, <2>2 DEF Corrupt, Fault, TypeOK
<1>3. ASSUME NEW d \in Daemon,
             Start(d) \/ Opening(d) \/ Failing(d) \/ Use(d) \/ Stop(d)
      PROVE  TypeOK'
  <2>1. CASE Start(d)
    BY <2>1 DEF Start, disk, Goto, TypeOK, Labels
  <2>2. CASE OpenSQLite(d)
    <3> DEFINE i == IF path = None THEN Fresh ELSE path
    <3>1. i \in Inode
      BY <2>2, FreshUnused DEF OpenSQLite, Unused, TypeOK
    <3> HIDE DEF i
    <3>2. path' = i /\ at' = [at EXCEPT ![d] = i]
          /\ pc' = [pc EXCEPT ![d] = IF file[i].sound THEN "migrate" ELSE "recover"]
      BY <2>2 DEF OpenSQLite, Goto, i
    <3>3. UNCHANGED <<backups, json, file, imports, lock, existed, tx, faulty, starts>>
      BY <2>2 DEF OpenSQLite
    <3> QED
      BY <3>1, <3>2, <3>3 DEF TypeOK, Labels
  <2>3. CASE Migrate(d)
    <3>1. at[d] \in Inode
      BY <2>3 DEF Migrate, OpenInv
    <3>2. CASE file' = file
      BY <2>3, <3>2 DEF Migrate, Goto, TypeOK, Labels
    <3>3. CASE file' = [file EXCEPT ![at[d]].schema = "ours"]
      <4>1. file' \in [Inode -> Content]
        BY <3>1, <3>3, FileUpdate
      <4> QED
        BY <2>3, <4>1 DEF Migrate, Goto, TypeOK, Labels
    <3> QED
      BY <2>3, <3>2, <3>3 DEF Migrate
  <2>4. CASE Recover(d)
    BY <2>4 DEF Recover, Goto, TypeOK, Labels
  <2>5. CASE ImportBegin(d)
    <3>1. at[d] \in Inode
      BY <2>5 DEF ImportBegin, OpenInv
    <3>2. file[at[d]].rows \in Rows
      BY <3>1 DEF TypeOK, Content
    <3> QED
      BY <2>5, <3>1, <3>2 DEF ImportBegin, disk, Goto, TypeOK, Labels
  <2>6. CASE ReadJSON(d)
    BY <2>6 DEF ReadJSON, disk, Goto, TypeOK, Labels
  <2>7. CASE ImportMarks(d)
    BY <2>7 DEF ImportMarks, disk, Goto, TypeOK, Labels, Rows
  <2>8. CASE ImportComments(d)
    BY <2>8 DEF ImportComments, disk, Goto, TypeOK, Labels, Rows
  <2>9. CASE Commit(d)
    <3>1. at[d] \in Inode
      BY <2>9 DEF Commit, OpenInv, Importing
    <3>2. tx[d] \in Rows
      BY DEF TypeOK
    <3>3. file' = [file EXCEPT ![at[d]].imported = TRUE, ![at[d]].rows = tx[d]]
      BY <2>9 DEF Commit
    <3>4. file' \in [Inode -> Content]
      BY <3>1, <3>2, <3>3, FileUpdate
    <3> QED
      BY <2>9, <3>4 DEF Commit, Goto, TypeOK, Labels
  <2>10. CASE Rename(d)
    BY <2>10 DEF Rename, Goto, Fault, TypeOK, Labels
  <2>11. CASE Unwind(d)
    BY <2>11 DEF Unwind, Goto, TypeOK, Labels
  <2>12. CASE OpenFails(d) \/ ImportBeginFails(d) \/ ImportFails(d)
    <3>1. /\ lock' \in [Inode -> Daemon \cup {None}]
          /\ pc' \in [Daemon -> Labels]
          /\ faulty' \in Nat
      BY <2>12 DEF OpenFails, ImportBeginFails, ImportFails, Goto, Fault, TypeOK, Labels
    <3> QED
      BY <2>12, <3>1 DEF OpenFails, ImportBeginFails, ImportFails, disk, TypeOK
  <2>13. CASE Crash(d) \/ Stop(d)
    <3>1. /\ lock' \in [Inode -> Daemon \cup {None}]
          /\ at' \in [Daemon -> Inode \cup {None}]
          /\ pc' \in [Daemon -> Labels]
          /\ faulty' \in Nat
      BY <2>13 DEF Crash, Stop, Release, Goto, Fault, TypeOK, Labels
    <3> QED
      BY <2>13, <3>1 DEF Crash, Stop, disk, TypeOK
  <2>14. CASE Use(d)
    <3>1. at[d] \in Inode
      BY <2>14 DEF Use, OpenInv
    <3>2. PICK r : /\ file' = [file EXCEPT ![at[d]].rows = r]
                   /\ \/ r = [file[at[d]].rows EXCEPT !.mark = "new"]
                      \/ r = [file[at[d]].rows EXCEPT !.comment = FALSE]
      BY <2>14 DEF Use
    <3>3. file[at[d]].rows \in Rows
      BY <3>1 DEF TypeOK, Content
    <3>4. r \in Rows
      BY <3>2, <3>3 DEF Rows
    <3>5. TypeOK
      OBVIOUS
    <3>6. file' \in [Inode -> Content]
      BY <3>1, <3>2, <3>4, <3>5, FileUpdate
    <3>7. UNCHANGED <<path, backups, json, imports, lock, pc, at, existed, tx, faulty, starts>>
      BY <2>14 DEF Use
    <3> QED
      BY <3>5, <3>6, <3>7 DEF TypeOK
  <2> QED
    BY <1>3, <2>1, <2>2, <2>3, <2>4, <2>5, <2>6, <2>7, <2>8, <2>9, <2>10, <2>11,
       <2>12, <2>13, <2>14 DEF Opening, Failing
<1> QED
  BY <1>1, <1>2, <1>3 DEF Next

-----------------------------------------------------------------------------
(* The import's transaction and what it leaves behind.                     *)

\* What a step of one daemon may do to the files and locks another one works
\* with: the sentinel of a file changes only by its lock holder's commit, and
\* locks change only from or to None.
Keeps(d) ==
    /\ \A i \in Inode : file[i].imported => file'[i].imported
    /\ \A i \in Inode : lock[i] # None /\ lock[i] # d => lock'[i] = lock[i]
    /\ \A i \in Inode : file'[i].imported # file[i].imported => lock[i] = d
    /\ \A e \in Daemon \ {d} : pc'[e] = pc[e] /\ at'[e] = at[e]
    /\ imports' >= imports
    /\ json' = "imported" => json = "imported" \/ pc[d] = "rename"

\* Every step of a daemon keeps what the others rely on, and leaves itself
\* with a file, a lock and a sentinel as its next step expects them.
LEMMA DaemonStep ==
    ASSUME IInv, NEW d \in Daemon,
           Start(d) \/ Opening(d) \/ Failing(d) \/ Use(d) \/ Stop(d)
    PROVE  /\ Keeps(d)
           /\ pc'[d] \in {"migrate", "begin", "rename", "running"} \/ Importing(d)'
                 => at'[d] \in Inode
           /\ Importing(d)' => lock'[at'[d]] = d /\ ~ file'[at'[d]].imported
           /\ pc'[d] = "rename" => file'[at'[d]].imported /\ imports' > 0
           /\ pc'[d] = "running" => file'[at'[d]].imported
<1> USE StoreAssumption DEF IInv
<1> DEFINE Own ==
      /\ pc'[d] \in {"migrate", "begin", "rename", "running"} \/ Importing(d)'
            => at'[d] \in Inode
      /\ Importing(d)' => lock'[at'[d]] = d /\ ~ file'[at'[d]].imported
      /\ pc'[d] = "rename" => file'[at'[d]].imported /\ imports' > 0
      /\ pc'[d] = "running" => file'[at'[d]].imported
<1>1. CASE Start(d)
  BY <1>1 DEF Start, disk, Goto, TypeOK, Keeps, Importing
<1>2. CASE OpenSQLite(d)
  <2> DEFINE i == IF path = None THEN Fresh ELSE path
  <2>1. i \in Inode
    BY <1>2, FreshUnused DEF OpenSQLite, Unused, TypeOK
  <2> HIDE DEF i
  <2>2. at' = [at EXCEPT ![d] = i]
        /\ pc' = [pc EXCEPT ![d] = IF file[i].sound THEN "migrate" ELSE "recover"]
    BY <1>2 DEF OpenSQLite, Goto, i
  <2>3. UNCHANGED <<json, file, imports, lock>>
    BY <1>2 DEF OpenSQLite
  <2> QED
    BY <2>1, <2>2, <2>3 DEF TypeOK, Keeps, Importing
<1>3. CASE Migrate(d)
  <2>1. at[d] \in Inode
    BY <1>3 DEF Migrate, OpenInv
  <2>2. \A i \in Inode : file'[i].imported = file[i].imported
    BY <1>3, <2>1 DEF Migrate, TypeOK, Content
  <2>3. pc'[d] \in {"recover", "begin"} /\ at' = at /\ lock' = lock
        /\ \A e \in Daemon \ {d} : pc'[e] = pc[e]
    BY <1>3 DEF Migrate, Goto, TypeOK
  <2>4. UNCHANGED <<json, imports>>
    BY <1>3 DEF Migrate
  <2> QED
    BY <2>1, <2>2, <2>3, <2>4 DEF TypeOK, Keeps, Importing
<1>4. CASE Recover(d)
  <2>1. pc'[d] \in {"open", "off"} /\ at' = [at EXCEPT ![d] = None]
        /\ \A e \in Daemon \ {d} : pc'[e] = pc[e]
    BY <1>4 DEF Recover, Goto, TypeOK
  <2>2. UNCHANGED <<json, file, imports, lock>>
    BY <1>4 DEF Recover
  <2> QED
    BY <2>1, <2>2 DEF TypeOK, Keeps, Importing
<1>5. CASE ImportBegin(d)
  <2>1. at[d] \in Inode
    BY <1>5 DEF ImportBegin, OpenInv
  <2>2. UNCHANGED <<json, file, imports, at>>
    BY <1>5 DEF ImportBegin, disk
  <2> QED
    BY <1>5, <2>1, <2>2 DEF ImportBegin, Goto, TypeOK, Keeps, Importing
<1>6. CASE ReadJSON(d) \/ ImportMarks(d) \/ ImportComments(d)
  <2>1. pc[d] \in {"read", "marks", "comments"} /\ at[d] \in Inode
    BY <1>6 DEF ReadJSON, ImportMarks, ImportComments, OpenInv, Importing
  <2>2. pc'[d] \in {"marks", "comments", "commit"}
        /\ \A e \in Daemon \ {d} : pc'[e] = pc[e]
    BY <1>6 DEF ReadJSON, ImportMarks, ImportComments, Goto, TypeOK
  <2>3. UNCHANGED <<json, file, imports, at, lock>>
    BY <1>6 DEF ReadJSON, ImportMarks, ImportComments, disk
  <2> QED
    BY <2>1, <2>2, <2>3 DEF LockInv, Keeps, Importing, TypeOK
<1>7. CASE Commit(d)
  <2>1. at[d] \in Inode /\ lock[at[d]] = d
    BY <1>7 DEF Commit, OpenInv, LockInv, Importing
  <2>2. file'[at[d]].imported
        /\ \A i \in Inode \ {at[d]} : file'[i] = file[i]
    BY <1>7, <2>1 DEF Commit, TypeOK, Content
  <2>3. /\ at' = at /\ json' = json
        /\ \A i \in Inode \ {at[d]} : lock'[i] = lock[i]
        /\ \A e \in Daemon \ {d} : pc'[e] = pc[e]
    BY <1>7, <2>1 DEF Commit, Goto, TypeOK
  <2>4. \/ pc'[d] = "rename" /\ imports' = imports + 1
        \/ pc'[d] = "running" /\ imports' = imports
    BY <1>7 DEF Commit, Goto, TypeOK
  <2> QED
    BY <2>1, <2>2, <2>3, <2>4 DEF Keeps, Importing, TypeOK
<1>8. CASE Rename(d)
  <2>1. at[d] \in Inode /\ file[at[d]].imported
    BY <1>8 DEF Rename, OpenInv, DoneInv
  <2>2. pc'[d] = "running" /\ \A e \in Daemon \ {d} : pc'[e] = pc[e]
    BY <1>8 DEF Rename, Goto, TypeOK
  <2>3. UNCHANGED <<file, imports, lock, at>> /\ pc[d] = "rename"
    BY <1>8 DEF Rename
  <2> QED
    BY <2>1, <2>2, <2>3 DEF Keeps, Importing, TypeOK
<1>9. CASE Unwind(d)
  <2>1. pc'[d] = "off" /\ at' = [at EXCEPT ![d] = None]
        /\ \A e \in Daemon \ {d} : pc'[e] = pc[e]
    BY <1>9 DEF Unwind, Goto, TypeOK
  <2>2. UNCHANGED <<json, file, imports, lock>>
    BY <1>9 DEF Unwind
  <2> QED
    BY <2>1, <2>2 DEF TypeOK, Keeps, Importing
<1>10. CASE OpenFails(d) \/ ImportBeginFails(d)
  <2>1. pc'[d] \in {"recover", "unwind"} /\ \A e \in Daemon \ {d} : pc'[e] = pc[e]
    BY <1>10 DEF OpenFails, ImportBeginFails, Goto, TypeOK
  <2>2. UNCHANGED <<json, file, imports, lock, at>>
    BY <1>10 DEF OpenFails, ImportBeginFails, disk
  <2> QED
    BY <2>1, <2>2 DEF TypeOK, Keeps, Importing
<1>11. CASE ImportFails(d)
  <2>1. at[d] \in Inode /\ lock[at[d]] = d
    BY <1>11 DEF ImportFails, OpenInv, LockInv, Importing
  <2>2. /\ pc'[d] = "unwind" /\ \A e \in Daemon \ {d} : pc'[e] = pc[e]
        /\ \A i \in Inode \ {at[d]} : lock'[i] = lock[i]
    BY <1>11, <2>1 DEF ImportFails, Goto, TypeOK
  <2>3. UNCHANGED <<json, file, imports, at>>
    BY <1>11 DEF ImportFails, disk
  <2> QED
    BY <2>1, <2>2, <2>3 DEF TypeOK, Keeps, Importing
<1>12. CASE Use(d)
  <2>1. at[d] \in Inode
    BY <1>12 DEF Use, OpenInv
  <2>2. \A i \in Inode : file'[i].imported = file[i].imported
    BY <1>12, <2>1 DEF Use, TypeOK, Content
  <2>3. UNCHANGED <<json, imports, lock, pc, at>> /\ pc[d] = "running"
    BY <1>12 DEF Use
  <2>4. file[at[d]].imported
    BY <2>3 DEF DoneInv, ServesImported
  <2> QED
    BY <2>1, <2>2, <2>3, <2>4 DEF Keeps, Importing, TypeOK
<1>13. CASE Crash(d) \/ Stop(d)
  <2>1. /\ pc'[d] = "off" /\ at' = [at EXCEPT ![d] = None]
        /\ \A e \in Daemon \ {d} : pc'[e] = pc[e]
        /\ \A i \in Inode : lock[i] # d => lock'[i] = lock[i]
    BY <1>13 DEF Crash, Stop, Release, Goto, TypeOK
  <2>2. UNCHANGED <<json, file, imports>>
    BY <1>13 DEF Crash, Stop, disk
  <2> QED
    BY <2>1, <2>2 DEF TypeOK, Keeps, Importing
<1> QED
  BY <1>1, <1>2, <1>3, <1>4, <1>5, <1>6, <1>7, <1>8, <1>9, <1>10, <1>11, <1>12,
     <1>13 DEF Opening, Failing

-----------------------------------------------------------------------------
LEMMA InvStep == IInv /\ [Next]_vars => IInv'
<1> SUFFICES ASSUME IInv, [Next]_vars PROVE IInv'
  OBVIOUS
<1> USE StoreAssumption
<1>1. TypeOK'
  BY TypeStep
<1>2. CASE UNCHANGED vars
  BY <1>2 DEF vars, IInv, TypeOK, OpenInv, LockInv, DoneInv, ServesImported,
              RenamedAfterImport, Importing
<1>3. CASE Corrupt
  <2>1. \A i \in Inode : file'[i].imported = file[i].imported
    BY <1>3 DEF Corrupt, IInv, TypeOK, Content
  <2>2. UNCHANGED <<json, imports, lock, pc, at>>
    BY <1>3 DEF Corrupt
  <2>3. \A d \in Daemon : pc[d] = "off"
    BY <1>3 DEF Corrupt
  <2> QED
    BY <1>1, <2>1, <2>2, <2>3 DEF IInv, OpenInv, LockInv, DoneInv, ServesImported,
                                  RenamedAfterImport, Importing
<1>4. ASSUME NEW d \in Daemon,
             Start(d) \/ Opening(d) \/ Failing(d) \/ Use(d) \/ Stop(d)
      PROVE  IInv'
  <2>1. Keeps(d)
    BY <1>4, DaemonStep
  <2>2. OpenInv'
    <3> SUFFICES ASSUME NEW e \in Daemon,
                        pc'[e] \in {"migrate", "begin", "rename", "running"} \/ Importing(e)'
                 PROVE  at'[e] \in Inode
      BY DEF OpenInv
    <3>1. CASE e = d
      BY <1>4, <3>1, DaemonStep
    <3>2. CASE e # d
      BY <2>1, <3>2 DEF Keeps, IInv, OpenInv, Importing
    <3> QED
      BY <3>1, <3>2
  <2>3. LockInv'
    <3> SUFFICES ASSUME NEW e \in Daemon, Importing(e)'
                 PROVE  lock'[at'[e]] = e /\ ~ file'[at'[e]].imported
      BY DEF LockInv
    <3>1. CASE e = d
      BY <1>4, <3>1, DaemonStep
    <3>2. CASE e # d
      <4>1. Importing(e) /\ at'[e] = at[e]
        BY <2>1, <3>2 DEF Keeps, Importing
      <4>2. at[e] \in Inode /\ lock[at[e]] = e /\ ~ file[at[e]].imported
        BY <4>1 DEF IInv, OpenInv, LockInv
      <4>3. lock'[at[e]] = lock[at[e]]
        BY <2>1, <3>2, <4>2 DEF Keeps
      <4>4. ~ file'[at[e]].imported
        BY <1>1, <2>1, <3>2, <4>2 DEF Keeps, IInv, TypeOK, Content
      <4> QED
        BY <4>1, <4>2, <4>3, <4>4
    <3> QED
      BY <3>1, <3>2
  <2>4. \A e \in Daemon : pc'[e] = "rename" => file'[at'[e]].imported /\ imports' > 0
    <3> SUFFICES ASSUME NEW e \in Daemon, pc'[e] = "rename"
                 PROVE  file'[at'[e]].imported /\ imports' > 0
      OBVIOUS
    <3>1. CASE e = d
      BY <1>4, <3>1, DaemonStep
    <3>2. CASE e # d
      <4>1. pc[e] = "rename" /\ at'[e] = at[e]
        BY <2>1, <3>2 DEF Keeps
      <4>2. at[e] \in Inode /\ file[at[e]].imported /\ imports > 0
        BY <4>1 DEF IInv, OpenInv, DoneInv
      <4> QED
        BY <1>1, <2>1, <4>1, <4>2 DEF Keeps, IInv, TypeOK
    <3> QED
      BY <3>1, <3>2
  <2>5. ServesImported'
    <3> SUFFICES ASSUME NEW e \in Daemon, pc'[e] = "running"
                 PROVE  file'[at'[e]].imported
      BY DEF ServesImported
    <3>1. CASE e = d
      BY <1>4, <3>1, DaemonStep
    <3>2. CASE e # d
      <4>1. pc[e] = "running" /\ at'[e] = at[e]
        BY <2>1, <3>2 DEF Keeps
      <4>2. at[e] \in Inode /\ file[at[e]].imported
        BY <4>1 DEF IInv, OpenInv, DoneInv, ServesImported
      <4> QED
        BY <2>1, <4>1, <4>2 DEF Keeps
    <3> QED
      BY <3>1, <3>2
  <2>6. RenamedAfterImport'
    BY <1>1, <2>1 DEF Keeps, IInv, DoneInv, RenamedAfterImport, TypeOK
  <2> QED
    BY <1>1, <2>2, <2>3, <2>4, <2>5, <2>6 DEF IInv, DoneInv
<1> QED
  BY <1>2, <1>3, <1>4 DEF Next

LEMMA Invariance == Spec => []IInv
<1> QED
  BY InitInv, InvStep, PTL DEF Spec

-----------------------------------------------------------------------------
\* Every variable keeps its type in every reachable state.
THEOREM TypeCorrect == Spec => []TypeOK
<1>1. IInv => TypeOK
  BY DEF IInv
<1> QED
  BY <1>1, Invariance, PTL

\* No daemon serves a database whose one-time import has not been committed
\* (openSQLiteWithImport), whatever other daemons do to the same file.
THEOREM ServesSound == Spec => []ServesImported
<1>1. IInv => ServesImported
  BY DEF IInv, DoneInv
<1> QED
  BY <1>1, Invariance, PTL

\* state.json is renamed only after its rows were committed (runImport).
THEOREM RenameSound == Spec => []RenamedAfterImport
<1>1. IInv => RenamedAfterImport
  BY DEF IInv, DoneInv
<1> QED
  BY <1>1, Invariance, PTL

\* One step of one daemon changes no imported file but by what its user does:
\* the only step that writes legacy rows, the commit, finds the sentinel clear.
LEMMA ImportsOnceStep ==
    ASSUME IInv, [Next]_vars, NEW i \in Inode, file[i].imported
    PROVE  /\ file'[i].imported
           /\ file'[i].rows.mark = "legacy" => file[i].rows.mark = "legacy"
           /\ file'[i].rows.comment => file[i].rows.comment
<1> USE StoreAssumption DEF IInv
<1>1. file[i] \in Content /\ file[i].rows \in Rows
  BY DEF TypeOK, Content
<1>2. CASE file' = file
  BY <1>2
<1>3. ASSUME NEW d \in Daemon, Migrate(d) PROVE file'[i].imported /\ file'[i].rows = file[i].rows
  <2>1. at[d] \in Inode
    BY <1>3 DEF Migrate, OpenInv
  <2> QED
    BY <1>1, <1>3, <2>1 DEF Migrate, TypeOK, Content
<1>4. ASSUME NEW d \in Daemon, Commit(d) PROVE file'[i] = file[i]
  <2>1. at[d] \in Inode /\ ~ file[at[d]].imported
    BY <1>4 DEF Commit, OpenInv, LockInv, Importing
  <2> QED
    BY <1>4, <2>1 DEF Commit, TypeOK
<1>5. ASSUME NEW d \in Daemon, Use(d)
      PROVE  /\ file'[i].imported
             /\ file'[i].rows.mark = "legacy" => file[i].rows.mark = "legacy"
             /\ file'[i].rows.comment => file[i].rows.comment
  <2>1. at[d] \in Inode
    BY <1>5 DEF Use, OpenInv
  <2>2. CASE i # at[d]
    BY <1>5, <2>1, <2>2 DEF Use, TypeOK
  <2>3. CASE i = at[d]
    <3>1. PICK r : /\ file' = [file EXCEPT ![i].rows = r]
                   /\ \/ r = [file[i].rows EXCEPT !.mark = "new"]
                      \/ r = [file[i].rows EXCEPT !.comment = FALSE]
      BY <1>5, <2>3 DEF Use
    <3>2. file'[i].imported = file[i].imported /\ file'[i].rows = r
      BY <1>1, <3>1 DEF TypeOK, Content
    <3> QED
      BY <1>1, <3>1, <3>2 DEF Rows
  <2> QED
    BY <2>2, <2>3
<1>6. ASSUME Corrupt PROVE file'[i].imported /\ file'[i].rows = file[i].rows
  BY <1>1, <1>6 DEF Corrupt, TypeOK, Content
<1>7. ASSUME NEW d \in Daemon,
             \/ Start(d) \/ OpenSQLite(d) \/ Recover(d) \/ ImportBegin(d) \/ ReadJSON(d)
             \/ ImportMarks(d) \/ ImportComments(d) \/ Rename(d) \/ Unwind(d)
             \/ Failing(d) \/ Stop(d)
      PROVE  file' = file
  BY <1>7 DEF Start, OpenSQLite, Recover, ImportBegin, ReadJSON, ImportMarks,
              ImportComments, Rename, Unwind, Failing, OpenFails, ImportBeginFails,
              ImportFails, Crash, Stop, disk
<1> QED
  BY <1>2, <1>3, <1>4, <1>5, <1>6, <1>7 DEF Next, Opening, vars

\* Once a database is imported into, no legacy row comes back over what its
\* users did since, whoever opens it and whenever (runImport).
THEOREM ImportsOnceSound == Spec => ImportsOnce
<1>1. IInv /\ [Next]_vars =>
        [\A i \in Inode : file[i].imported =>
            /\ file'[i].imported
            /\ file'[i].rows.mark = "legacy" => file[i].rows.mark = "legacy"
            /\ file'[i].rows.comment => file[i].rows.comment]_vars
  BY ImportsOnceStep
<1> QED
  BY <1>1, Invariance, PTL DEF Spec, ImportsOnce
=============================================================================
