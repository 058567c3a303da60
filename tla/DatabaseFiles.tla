---------------------------- MODULE DatabaseFiles ----------------------------
(***************************************************************************)
(* The files of the SQLite database of Sentinel Monitor, as                *)
(* src/src/sqlite.rs creates, copies and validates them, and as SQLite     *)
(* itself writes them (external).                                          *)
(*                                                                         *)
(* A transaction is abstracted to a new version of every page: version 0   *)
(* is a page of an empty file or of a database without the current schema, *)
(* version 1 what the initialisation commits.  A content whose pages have  *)
(* different versions mixes two transactions.                              *)
(***************************************************************************)
EXTENDS Naturals

CONSTANTS
    NumPages,     \* pages of the main database file
    MaxVersion,   \* bound: transactions committed to one database
    MaxInodes     \* bound: inodes a database file may have

ASSUME FilesAssumption ==
    /\ NumPages \in Nat \ {0}
    /\ MaxVersion \in Nat \ {0}
    /\ MaxInodes \in Nat \ {0}

Pages == 1..NumPages
Versions == 0..MaxVersion
Content == [Pages -> Versions]

\* -wal: the last committed version in it (0: none), and how many pages were
\* appended after its last commit frame.
Wal == [commit : Versions, tail : 0..NumPages - 1]

\* The main file the path names (inode 0: no such file), what each inode holds,
\* unlinked or not, the inodes given out so far (a number that the kernel gives
\* out again counts as a new one), -wal, and whether a hot -journal stands there.
Files == [inode : 0..MaxInodes, pages : [1..MaxInodes -> Content], born : 0..MaxInodes,
          wal : Wal, journal : BOOLEAN]

Blank == [p \in Pages |-> 0]
At(v) == [p \in Pages |-> v]
NoWal == [commit |-> 0, tail |-> 0]
NoFiles == [inode |-> 0, pages |-> [i \in 1..MaxInodes |-> Blank], born |-> 0,
            wal |-> NoWal, journal |-> FALSE]

\* What a connection reads: a hot journal rolls the file back to the empty file
\* it was before the first transaction, committed WAL frames hide the pages of the main file.
Opened(pages, wal, journal) ==
    IF journal THEN Blank ELSE IF wal.commit # 0 THEN At(wal.commit) ELSE pages

Main(f) == IF f.inode = 0 THEN Blank ELSE f.pages[f.inode]
Current(f) == Opened(Main(f), f.wal, f.journal)

\* A new file at the path, and pages written to the file there.
NewFile(f, content) ==
    [f EXCEPT !.inode = f.born + 1, !.born = @ + 1, !.pages[f.born + 1] = content]
Written(f, content) == [f EXCEPT !.pages[f.inode] = content]

\* SQLite writes pages back in their order.
FirstPageWritten(f, v) ==
    LET behind == {p \in Pages : Main(f)[p] # v}
    IN  Written(f, [p \in Pages |-> IF p \in behind /\ \A q \in behind : p <= q
                                    THEN v ELSE Main(f)[p]])

\* validate_current_connection reads sqlite_schema, product_metadata and the lease
\* row.  It rejects a database that lacks any of them; it would not notice pages of two
\* transactions.
Accepted(content) == \A p \in Pages : content[p] # 0

Whole(content) == \E v \in Versions : content = At(v)

-----------------------------------------------------------------------------
(* snapshot_generation_once: the private copy.                             *)

\* Main file, -wal and -journal are copied one after the other, then each is hashed
\* and must be what was copied.  (copy_generation_file also hashes each right before
\* and after its copy, which refuses some of the copies that the last hashes do.)
MainPasses == {1, 4}

\* pass 7 is a finished copy; next is the page a pass over the main file reads
\* next; low is a history variable: the content when the copy opened the file.
Snapshot == [pass : 1..7, next : Pages, inode : 0..MaxInodes, pages : Content,
             wal : Wal, journal : BOOLEAN, low : Content]

NoSnapshot == [pass |-> 1, next |-> 1, inode |-> 0, pages |-> Blank, wal |-> NoWal,
               journal |-> FALSE, low |-> Blank]

Opens(s) == s.pass \in MainPasses /\ s.next = 1

\* The first pass over a file takes its content.  The main file is opened at the
\* start of a pass and read through that descriptor, whatever the path names since.
Read(f, s) ==
    CASE s.pass = 1 ->
           LET i == IF Opens(s) THEN f.inode ELSE s.inode
           IN  [s EXCEPT !.inode = i, !.pages[s.next] = f.pages[i][s.next],
                         !.low = IF Opens(s) THEN Current(f) ELSE @]
      [] s.pass = 2 -> [s EXCEPT !.wal = f.wal]
      [] s.pass = 3 -> [s EXCEPT !.journal = f.journal]
      [] OTHER -> s

\* A later pass finds something else: GenerationChanged.  (The code compares at the
\* end of a pass; nothing depends on when.)
Differs(f, s) ==
    CASE s.pass = 4 -> \/ Opens(s) /\ f.inode # s.inode
                      \/ f.pages[s.inode][s.next] # s.pages[s.next]
      [] s.pass = 5 -> f.wal # s.wal
      [] s.pass = 6 -> f.journal # s.journal
      [] OTHER -> FALSE

\* Mutant of NextPass: the files are not looked at again when all are copied.
NextPassUnchecked(s) == IF s.pass = 3 THEN 7 ELSE s.pass + 1

NextPass(s) == s.pass + 1

\* The page, or the pass, after a read.
Advanced(s) ==
    IF s.pass \in MainPasses /\ s.next # NumPages
    THEN [s EXCEPT !.next = @ + 1]
    ELSE [s EXCEPT !.next = 1, !.pass = NextPass(s)]

\* What validate_current_database opens instead of the source.
Copied(s) == Opened(s.pages, s.wal, s.journal)
=============================================================================
