----------------------------- MODULE StoreOpen -----------------------------
(***************************************************************************)
(* Opening the state database: store.Open for a path that does not end in  *)
(* .json (internal/store/open.go) over OpenSQLite (sqlite.go).             *)
(*                                                                         *)
(* A start notes whether the file exists, opens or creates it, checks and  *)
(* migrates it, and runs the one-time import of state.json in a single     *)
(* immediate transaction guarded by a sentinel row.  A file that does not  *)
(* open is moved aside and replaced by a fresh one; a failed import removes*)
(* the file.  Nothing keeps two daemons from starting over one path: a     *)
(* second one replaces the first one's socket (cmd/wtd), and a restart may *)
(* race a slow exit.                                                       *)
(*                                                                         *)
(* A file is an inode: a process that has it open keeps using it when its  *)
(* name is taken away or given to another file.  SQLite is external: what  *)
(* matters of it is the write lock of an inode, which "immediate"          *)
(* transactions take first, and that an uncommitted transaction leaves     *)
(* nothing behind.                                                         *)
(***************************************************************************)
EXTENDS Naturals, FiniteSets

CONSTANTS
    Daemon,         \* processes that may start over the path
    Inode,          \* files the path may name over time
    None,
    Legacy,         \* what state.json may be at first
    First,          \* what the database file may be at first
    Faults,         \* what may go wrong, out of AllFaults
    MaxFaults,      \* bound: faults in a behaviour
    MaxStarts       \* bound: starts of a daemon

\* crash: a process dies anywhere.  open: quick_check or the open itself fails
\* although the file is sound (I/O error, locked 20 times over).  begin: the
\* import cannot begin its transaction or read the sentinel (locked for longer
\* than the busy timeout, I/O error).  import: reading state.json, an insert or
\* the commit fails.  rename: state.json cannot be renamed.  corrupt: the
\* file at the path goes bad while no daemon runs.
AllFaults == {"crash", "open", "begin", "import", "rename", "corrupt"}
AllLegacy == {"absent", "valid", "malformed"}
AllFirst == {"absent", "populated", "newer", "corrupt"}

ASSUME StoreAssumption ==
    /\ None \notin Daemon \cup Inode
    /\ Legacy \subseteq AllLegacy
    /\ First \subseteq AllFirst
    /\ Faults \subseteq AllFaults
    /\ Inode # {}
    /\ MaxFaults \in Nat /\ MaxStarts \in Nat

VARIABLES
    path,       \* the inode state.db names, or None
    backups,    \* the inodes with a .corrupt-<time> name
    json,       \* state.json; "imported" once it has its .imported name
    file,       \* the committed content of every inode
    lock,       \* who holds the write lock of an inode
    pc,         \* where a daemon is
    at,         \* the inode a daemon has open
    existed,    \* its fileExists at the start
    tx,         \* the rows its import transaction has written so far
    imports,    \* history: committed imports of state.json
    faulty, starts      \* counters of the bounds

vars == <<path, backups, json, file, lock, pc, at, existed, tx, imports, faulty, starts>>
disk == <<path, backups, json, file, imports>>

\* One review mark and one comment stand for the rows: the import brings the
\* legacy mark and the legacy comment, a user may then mark the file anew and
\* delete the comment.
Rows == [mark : {"none", "legacy", "new"}, comment : BOOLEAN]
NoRows == [mark |-> "none", comment |-> FALSE]

\* schema is user_version against the migrations of this build, imported is
\* the sentinel row of import_done.
Content == [sound : BOOLEAN, schema : {"none", "ours", "newer"},
            imported : BOOLEAN, rows : Rows]
Blank == [sound |-> TRUE, schema |-> "none", imported |-> FALSE, rows |-> NoRows]
Populated(kind) ==
    [sound |-> kind # "corrupt", schema |-> IF kind = "newer" THEN "newer" ELSE "ours",
     imported |-> TRUE, rows |-> [mark |-> "new", comment |-> FALSE]]

Labels == {"off", "open", "migrate", "recover", "begin", "read", "marks",
           "comments", "commit", "rename", "unwind", "running"}

TypeOK ==
    /\ path \in Inode \cup {None}
    /\ backups \subseteq Inode
    /\ json \in AllLegacy \cup {"imported"}
    /\ file \in [Inode -> Content]
    /\ lock \in [Inode -> Daemon \cup {None}]
    /\ pc \in [Daemon -> Labels]
    /\ at \in [Daemon -> Inode \cup {None}]
    /\ existed \in [Daemon -> BOOLEAN]
    /\ tx \in [Daemon -> Rows]
    /\ imports \in Nat
    /\ faulty \in Nat /\ starts \in Nat

Init ==
    /\ path \in {None, CHOOSE i \in Inode : TRUE}
    /\ \E kind \in First :
          /\ path = None <=> kind = "absent"
          /\ file = [i \in Inode |-> IF i = path THEN Populated(kind) ELSE Blank]
    /\ json \in Legacy
    /\ backups = {}
    /\ lock = [i \in Inode |-> None]
    /\ pc = [d \in Daemon |-> "off"]
    /\ at = [d \in Daemon |-> None]
    /\ existed = [d \in Daemon |-> FALSE]
    /\ tx = [d \in Daemon |-> NoRows]
    /\ imports = 0
    /\ faulty = 0 /\ starts = 0

-----------------------------------------------------------------------------
Goto(d, label) == pc' = [pc EXCEPT ![d] = label]

\* A fault of the given kind happens now.
Fault(kind) ==
    /\ kind \in Faults
    /\ faulty < MaxFaults
    /\ faulty' = faulty + 1

\* Inodes that hold nothing and that nobody names or has open; a new file
\* gets one of them, no matter which.
Unused == {i \in Inode : /\ i # path /\ i \notin backups
                         /\ file[i] = Blank
                         /\ \A d \in Daemon : at[d] # i}
Fresh == CHOOSE i \in Unused : TRUE

\* openSQLiteWithImport, up to fileExists.
Start(d) ==
    /\ pc[d] = "off"
    /\ starts < MaxStarts
    /\ starts' = starts + 1
    /\ existed' = [existed EXCEPT ![d] = path # None]
    /\ Goto(d, "open")
    /\ UNCHANGED <<disk, lock, at, tx, faulty>>

\* sql.Open creates the file when it is not there.
OpenSQLite(d) ==
    /\ pc[d] = "open"
    /\ path = None => Unused # {}
    /\ LET i == IF path = None THEN Fresh ELSE path IN
          /\ path' = i
          /\ at' = [at EXCEPT ![d] = i]
          /\ Goto(d, IF file[i].sound THEN "migrate" ELSE "recover")
    /\ UNCHANGED <<backups, json, file, imports, lock, existed, tx, faulty, starts>>

\* migrate, in one immediate transaction: it waits for the write lock, and
\* refuses a schema of a newer build.
Migrate(d) ==
    /\ pc[d] = "migrate"
    /\ lock[at[d]] = None
    /\ IF file[at[d]].schema = "newer"
       THEN Goto(d, "recover") /\ UNCHANGED file
       ELSE Goto(d, "begin") /\ file' = [file EXCEPT ![at[d]].schema = "ours"]
    /\ UNCHANGED <<path, backups, json, imports, lock, at, existed, tx, faulty, starts>>

OpenFails(d) ==
    /\ pc[d] = "migrate"
    /\ Fault("open")
    /\ Goto(d, "recover")
    /\ UNCHANGED <<disk, lock, at, existed, tx, starts>>

\* Broken on purpose: the failure to move the file aside goes unnoticed.
RecoverUnnoticed(d) ==
    /\ pc[d] = "recover"
    /\ at' = [at EXCEPT ![d] = None]
    /\ existed' = [existed EXCEPT ![d] = FALSE]
    /\ IF existed[d]
       THEN /\ backups' = backups \cup {path}
            /\ path' = None
            /\ Goto(d, "open")
       ELSE Goto(d, "off") /\ UNCHANGED <<backups, path>>
    /\ UNCHANGED <<json, file, imports, lock, tx, faulty, starts>>

\* A file that existed and did not open is moved aside, by name, and a fresh
\* one is opened; a second failure, or one of a file that did not exist before,
\* ends the start.
Recover(d) ==
    /\ pc[d] = "recover"
    /\ at' = [at EXCEPT ![d] = None]
    /\ existed' = [existed EXCEPT ![d] = FALSE]
    /\ IF existed[d] /\ path # None
       THEN /\ backups' = backups \cup {path}
            /\ path' = None
            /\ Goto(d, "open")
       ELSE Goto(d, "off") /\ UNCHANGED <<backups, path>>
    /\ UNCHANGED <<json, file, imports, lock, tx, faulty, starts>>

-----------------------------------------------------------------------------
(* runImport.                                                              *)

\* Broken on purpose: a start that created no file believes that there is
\* nothing to import; the sentinel is read before the lock is taken; the
\* transaction that finds the sentinel set stays open.
ImportBeginExisted(d) ==
    /\ pc[d] = "begin"
    /\ lock[at[d]] = None
    /\ IF existed[d]
       THEN Goto(d, "running") /\ UNCHANGED lock
       ELSE Goto(d, "read") /\ lock' = [lock EXCEPT ![at[d]] = d]
    /\ tx' = [tx EXCEPT ![d] = file[at[d]].rows]
    /\ UNCHANGED <<disk, at, existed, faulty, starts>>

ImportBeginUnlocked(d) ==
    /\ pc[d] = "begin"
    /\ IF file[at[d]].imported
       THEN Goto(d, "running") /\ UNCHANGED lock
       ELSE Goto(d, "read") /\ lock' = [lock EXCEPT ![at[d]] = d]
    /\ tx' = [tx EXCEPT ![d] = file[at[d]].rows]
    /\ UNCHANGED <<disk, at, existed, faulty, starts>>

ImportBeginLeaks(d) ==
    /\ pc[d] = "begin"
    /\ lock[at[d]] = None
    /\ Goto(d, IF file[at[d]].imported THEN "running" ELSE "read")
    /\ lock' = [lock EXCEPT ![at[d]] = d]
    /\ tx' = [tx EXCEPT ![d] = file[at[d]].rows]
    /\ UNCHANGED <<disk, at, existed, faulty, starts>>

\* Begin takes the write lock and the sentinel is read under it.
ImportBegin(d) ==
    /\ pc[d] = "begin"
    /\ lock[at[d]] = None
    /\ IF file[at[d]].imported
       THEN Goto(d, "running") /\ UNCHANGED lock
       ELSE Goto(d, "read") /\ lock' = [lock EXCEPT ![at[d]] = d]
    /\ tx' = [tx EXCEPT ![d] = file[at[d]].rows]
    /\ UNCHANGED <<disk, at, existed, faulty, starts>>

ImportBeginFails(d) ==
    /\ pc[d] = "begin"
    /\ Fault("begin")
    /\ Goto(d, "unwind")
    /\ UNCHANGED <<disk, lock, at, existed, tx, starts>>

\* Broken on purpose: state.json gets its backup name as soon as it is read.
ReadJSONRenames(d) ==
    /\ pc[d] = "read"
    /\ Goto(d, IF json = "valid" THEN "marks" ELSE "commit")
    /\ json' = IF json = "valid" THEN "imported" ELSE json
    /\ UNCHANGED <<path, backups, file, imports, lock, at, existed, tx, faulty, starts>>

\* No state.json, or one that does not parse: only the sentinel is committed.
ReadJSON(d) ==
    /\ pc[d] = "read"
    /\ Goto(d, IF json = "valid" THEN "marks" ELSE "commit")
    /\ UNCHANGED <<disk, lock, at, existed, tx, faulty, starts>>

\* importPersistedTx: marks first, then comments.
ImportMarks(d) ==
    /\ pc[d] = "marks"
    /\ tx' = [tx EXCEPT ![d].mark = "legacy"]
    /\ Goto(d, "comments")
    /\ UNCHANGED <<disk, lock, at, existed, faulty, starts>>

ImportComments(d) ==
    /\ pc[d] = "comments"
    /\ tx' = [tx EXCEPT ![d].comment = TRUE]
    /\ Goto(d, "commit")
    /\ UNCHANGED <<disk, lock, at, existed, faulty, starts>>

\* Only an import that read rows renames the file afterwards.
Commit(d) ==
    /\ pc[d] = "commit"
    /\ file' = [file EXCEPT ![at[d]].imported = TRUE, ![at[d]].rows = tx[d]]
    /\ lock' = [lock EXCEPT ![at[d]] = None]
    /\ IF tx[d].comment
       THEN Goto(d, "rename") /\ imports' = imports + 1
       ELSE Goto(d, "running") /\ UNCHANGED imports
    /\ UNCHANGED <<path, backups, json, at, existed, tx, faulty, starts>>

\* The transaction is rolled back.
ImportFails(d) ==
    /\ pc[d] \in {"read", "marks", "comments", "commit"}
    /\ Fault("import")
    /\ lock' = [lock EXCEPT ![at[d]] = None]
    /\ Goto(d, "unwind")
    /\ UNCHANGED <<disk, at, existed, tx, starts>>

Rename(d) ==
    /\ pc[d] = "rename"
    /\ \/ /\ json' = IF json = "valid" THEN "imported" ELSE json
          /\ UNCHANGED faulty
       \/ UNCHANGED json /\ Fault("rename")
    /\ Goto(d, "running")
    /\ UNCHANGED <<path, backups, file, imports, lock, at, existed, tx, starts>>

\* openSQLiteWithImport after a failed import: removeDBFiles, by name.
Unwind(d) ==
    /\ pc[d] = "unwind"
    /\ path' = None
    /\ at' = [at EXCEPT ![d] = None]
    /\ Goto(d, "off")
    /\ UNCHANGED <<backups, json, file, imports, lock, existed, tx, faulty, starts>>

-----------------------------------------------------------------------------
(* A daemon that has opened the store, and its end.                        *)

\* SetReviewed and DeleteComment, one statement each.
Use(d) ==
    /\ pc[d] = "running"
    /\ lock[at[d]] = None
    /\ LET rows == file[at[d]].rows IN
       \E r \in {[rows EXCEPT !.mark = "new"], [rows EXCEPT !.comment = FALSE]} :
          file' = [file EXCEPT ![at[d]].rows = r]
    /\ UNCHANGED <<path, backups, json, imports, lock, pc, at, existed, tx, faulty, starts>>

Release(d) ==
    /\ lock' = [i \in Inode |-> IF lock[i] = d THEN None ELSE lock[i]]
    /\ at' = [at EXCEPT ![d] = None]
    /\ Goto(d, "off")

Stop(d) ==
    /\ pc[d] = "running"
    /\ Release(d)
    /\ UNCHANGED <<disk, existed, tx, faulty, starts>>

Crash(d) ==
    /\ pc[d] # "off"
    /\ Fault("crash")
    /\ Release(d)
    /\ UNCHANGED <<disk, existed, tx, starts>>

Corrupt ==
    /\ path # None
    /\ \A d \in Daemon : pc[d] = "off"
    /\ Fault("corrupt")
    /\ file' = [file EXCEPT ![path].sound = FALSE]
    /\ UNCHANGED <<path, backups, json, imports, lock, pc, at, existed, tx, starts>>

-----------------------------------------------------------------------------
Opening(d) ==
    \/ OpenSQLite(d) \/ Migrate(d) \/ Recover(d)
    \/ ImportBegin(d) \/ ReadJSON(d) \/ ImportMarks(d) \/ ImportComments(d)
    \/ Commit(d) \/ Rename(d) \/ Unwind(d)
Failing(d) == OpenFails(d) \/ ImportBeginFails(d) \/ ImportFails(d) \/ Crash(d)

Next ==
    \/ \E d \in Daemon : Start(d) \/ Opening(d) \/ Failing(d) \/ Use(d) \/ Stop(d)
    \/ Corrupt

Spec == Init /\ [][Next]_vars

\* A process that opens the store runs on; SQLite serves the waiters of a lock.
FairSpec == Spec /\ \A d \in Daemon : WF_vars(Opening(d))

-----------------------------------------------------------------------------
(* What the store promises.                                                *)

\* The import runs once per database: once the sentinel is committed, nothing
\* brings back a legacy mark over what a user marked since, or a legacy
\* comment a user deleted - not a second daemon that opens the file at the
\* same time, not a start after a crash before state.json was renamed
\* (runImport: sentinel and rows in one immediate transaction).
ImportsOnce ==
    [][\A i \in Inode : file[i].imported =>
          /\ file'[i].imported
          /\ file'[i].rows.mark = "legacy" => file[i].rows.mark = "legacy"
          /\ file'[i].rows.comment => file[i].rows.comment]_vars

\* No daemon serves a database whose import has not been settled ("refusing to
\* start with a half-migrated database", openSQLiteWithImport).
ServesImported ==
    \A d \in Daemon : pc[d] = "running" => file[at[d]].imported

\* state.json gets its backup name only when its rows are in a database, so
\* that no crash in between leaves them in neither place.
RenamedAfterImport == json = "imported" => imports > 0

\* Every start ends, in a running daemon or in an error.
StartsEnd == \A d \in Daemon : pc[d] = "open" ~> pc[d] \in {"running", "off"}
=============================================================================
