-------------------------------- MODULE Stores --------------------------------
(***************************************************************************)
(* Zip and Unzip (src/compress/Zip.cpp, Unzip.cpp), class "archive";       *)
(* Sqlite3DataBase and Statment (src/db/Sqlite3DataBase.cpp), class        *)
(* "sqlite" for handles, "catalog" for getTables(), "columns" for          *)
(* getTableInfo(); AdoConnection (src/windows/ado/AdoConnection.cpp),      *)
(* class "ado".                                                            *)
(***************************************************************************)
EXTENDS Monitor, SequencesExt, TLC

CONSTANT MaxStored \* bound: calls on an archive; three more on a database
ASSUME StoresAssumption == MaxStored \in Nat

-----------------------------------------------------------------------------
(* Archives.  A name is a sequence of names of files; that of a directory   *)
(* ends with "".  The files to put in: one, and a directory with one that   *)
(* cannot be read, a directory in it, and an empty one.                     *)
SourceFiles == (<<"f">> :> <<"x">>) @@ (<<"d", "f">> :> <<"y", "z">>) @@ (<<"d", "u">> :> <<>>) @@ (<<"d", "s", "g">> :> <<"x">>)
SourceDirs == {<<"d">>, <<"d", "s">>, <<"d", "e">>}
ZipEntry(name, data) == [name |-> name, data |-> data]

(* doZipRegFile(): what cannot be read gives an empty entry.                *)
RegFile(src, entry, newName) ==
  ZipEntry(Append(entry, IF newName = "" THEN Last(src) ELSE newName), SourceFiles[src])
(* zip() of a file, or of a directory with all below it: an entry for every *)
(* file, none for a directory.                                              *)
Zipped[src \in DOMAIN SourceFiles \union SourceDirs, entry \in Seq(STRING), newName \in STRING] ==
  LET srcEntry == Append(entry, IF newName = "" THEN Last(src) ELSE newName)
      inside == SetToSeq({p \in DOMAIN SourceFiles \union SourceDirs : Len(p) = Len(src) + 1 /\ IsPrefix(src, p)})
  IN IF src \in DOMAIN SourceFiles THEN <<RegFile(src, entry, newName)>>
     ELSE FlattenSeq([i \in DOMAIN inside |->
            IF inside[i] \in SourceDirs THEN Zipped[inside[i], srcEntry, ""] ELSE <<RegFile(inside[i], srcEntry, "")>>])

(* open: _zipFile is not null; entries: what is in the file and what was    *)
(* written behind it; at: the entry that is open, 0 for none; disk: what    *)
(* the file is without that; stored: the entries when it was closed; due:   *)
(* what the callers put under each name; files, dated: the directory of the *)
(* process and another one, and the files there with an entry's date.       *)
Directories == {"cwd", "out"}
ArchiveInit ==
  /\ class = "archive" /\ pc = <<>>
  /\ obj = [open |-> FALSE, entries |-> <<>>, at |-> 0, disk |-> "none", stored |-> <<>>, due |-> <<>>, kept |-> <<>>,
            files |-> [p \in Directories |-> IF p = "out" THEN <<"d">> :> <<"old">> ELSE <<"f">> :> <<"old">>],
            dated |-> [p \in Directories |-> {}], was |-> <<>>, done |-> "nothing", calls |-> 0]
ArchiveAt == class = "archive" /\ obj.calls < MaxStored
ArchiveDid(o, done) == obj' = [o EXCEPT !.calls = @ + 1, !.done = done] /\ Stay

(* close() writes the directory of the archive.                             *)
ZipClosed(o) ==
  IF ~o.open THEN o
  ELSE [o EXCEPT !.open = FALSE, !.at = 0, !.disk = "whole", !.stored = o.entries, !.kept = o.due]
createNew ==
  /\ ArchiveAt
  /\ \/ ArchiveDid([ZipClosed(obj) EXCEPT !.open = TRUE, !.entries = <<>>, !.due = <<>>, !.disk = "torn"], "ok")
     \/ ArchiveDid(ZipClosed(obj), "throws")
openZip ==
  /\ ArchiveAt
  /\ IF obj.open THEN ArchiveDid(obj, "ok")
     ELSE IF obj.disk = "whole"
     THEN ArchiveDid([obj EXCEPT !.open = TRUE, !.entries = obj.stored, !.due = obj.kept], "ok")
     ELSE ArchiveDid(obj, "throws")
closeZip == ArchiveAt /\ ArchiveDid(ZipClosed(obj), "ok")
(* The process ends: what was not closed has no directory.                  *)
processEnds ==
  ArchiveAt /\ obj.open
    /\ ArchiveDid([obj EXCEPT !.open = FALSE, !.at = 0, !.due = <<>>, !.entries = <<>>], "ends")

(* New entries are written over the old directory.                          *)
WithEntries(o, more) ==
  [o EXCEPT !.entries = @ \o more, !.disk = IF more = <<>> THEN @ ELSE "torn",
            !.due = FoldLeft(LAMBDA due, e : (e.name :> e.data) @@ due, @, more)]
(* setCurrentEntry(): the one before is closed, also where this one fails.  *)
EntryNames == {<<"f">>, <<"f", "g">>, <<"e", "">>}
setCurrentEntry(name) ==
  /\ ArchiveAt
  /\ \/ obj.open /\ ArchiveDid([WithEntries(obj, <<ZipEntry(name, <<>>)>>) EXCEPT !.at = Len(obj.entries) + 1], "ok")
     \/ ArchiveDid([obj EXCEPT !.at = 0], "throws")
(* writeToCurrEntry() of bytes, a stream, a file.                           *)
writeToCurrEntry ==
  /\ ArchiveAt
  /\ IF obj.at = 0 THEN ArchiveDid(obj, "throws")
     ELSE ArchiveDid([obj EXCEPT !.entries[obj.at].data = Append(@, "w"),
                                 !.due[obj.entries[obj.at].name] = Append(@, "w")], "ok")
(* zip() may fail at any of its files.                                      *)
zip(src, entry, newName) ==
  LET all == Zipped[src, entry, newName] IN
  /\ ArchiveAt
  /\ \/ obj.open /\ ArchiveDid([WithEntries(obj, all) EXCEPT !.at = IF all = <<>> THEN @ ELSE 0], "ok")
     \/ \E n \in 0..(Len(all) - 1) :
          /\ ~obj.open => n = 0
          /\ ArchiveDid([WithEntries(obj, SubSeq(all, 1, n)) EXCEPT !.at = 0], "throws")

(* list(): none where there is no directory.                                *)
list ==
  ArchiveAt /\ ~obj.open /\ ArchiveDid(obj, IF obj.disk = "whole" THEN "listed" ELSE "throws")

(* DoExtractFile(): what is there and is not to be overwritten, what cannot *)
(* be opened, and a directory, are passed over as if they were written.  Of *)
(* a damaged entry a part is written.  The date goes to the file of that    *)
(* name in the directory of the process.                                    *)
ThereIs(files, name) == \E p \in DOMAIN files : IsPrefix(name, p)
CannotOpen(files, name) ==
  \E p \in DOMAIN files : (IsPrefix(p, name) \/ IsPrefix(name, p)) /\ p # name
PassedOver(files, name, overwrite) ==
  Last(name) = "" \/ (~overwrite /\ ThereIs(files, name)) \/ CannotOpen(files, name)
(* The mutant does not ask whether the file may be overwritten.             *)
ExtractAnyway(o, e, to, overwrite, damaged) ==
  IF CannotOpen(o.files[to], e.name) \/ Last(e.name) = "" THEN o
  ELSE [o EXCEPT !.files[to] = (e.name :> e.data) @@ @,
                 !.dated["cwd"] = IF e.name \in DOMAIN o.files["cwd"] \/ to = "cwd" THEN @ \union {e.name} ELSE @]
DoExtractFile(o, e, to, overwrite, damaged) ==
  IF PassedOver(o.files[to], e.name, overwrite) THEN o
  ELSE IF damaged THEN [o EXCEPT !.files[to] = (e.name :> <<>>) @@ @]
  ELSE [o EXCEPT !.files[to] = (e.name :> e.data) @@ @,
                 !.dated["cwd"] = IF e.name \in DOMAIN o.files["cwd"] \/ to = "cwd" THEN @ \union {e.name} ELSE @]
Seen(o, to) == [o EXCEPT !.was = o.files[to]]
(* unzipTo() of all: behind a damaged entry, 0 for none, nothing is         *)
(* extracted, and the result is still true.                                 *)
unzipAll(to, overwrite, damaged) ==
  LET stops == damaged # 0 /\ ~PassedOver(obj.files[to], obj.stored[damaged].name, overwrite)
      upto == IF stops THEN damaged ELSE Len(obj.stored)
  IN /\ ArchiveAt /\ ~obj.open
     /\ IF obj.disk # "whole" THEN damaged = 0 /\ ArchiveDid(Seen(obj, to), "false")
        ELSE ArchiveDid(FoldLeft(LAMBDA o, e : DoExtractFile(o, e, to, overwrite, damaged # 0 /\ e = obj.stored[damaged]),
                                 Seen(obj, to), SubSeq(obj.stored, 1, upto)),
                        IF damaged # 0 THEN "damaged" ELSE IF overwrite THEN "all over " \o to ELSE "all new " \o to)
(* unzipTo() of some: the first that is missing ends it.                    *)
unzipSome(names, to) ==
  LET at(name) == CHOOSE i \in DOMAIN obj.stored :
                    obj.stored[i].name = name /\ \A j \in 1..(i - 1) : obj.stored[j].name # name
      there(name) == \E i \in DOMAIN obj.stored : obj.stored[i].name = name
      found == SelectSeq(names, there)
      some == IF Len(names) > 0 /\ ~there(names[1]) THEN <<>> ELSE found
  IN /\ ArchiveAt /\ ~obj.open
     /\ IF obj.disk # "whole" THEN ArchiveDid(Seen(obj, to), "false")
        ELSE ArchiveDid(FoldLeft(LAMBDA o, name : DoExtractFile(o, obj.stored[at(name)], to, TRUE, FALSE), Seen(obj, to), some),
                        IF some = names THEN "some" ELSE "false")
ArchiveNext ==
  /\ class = "archive"
  /\ \/ createNew \/ openZip \/ closeZip \/ processEnds \/ writeToCurrEntry \/ list
     \/ \E name \in EntryNames : setCurrentEntry(name)
     \/ zip(<<"f">>, <<>>, "") \/ zip(<<"d">>, <<>>, "") \/ zip(<<"d">>, <<"p">>, "n")
     \/ \E to \in Directories, overwrite \in BOOLEAN, damaged \in {0, 1, Len(obj.stored)} \ (IF obj.stored = <<>> THEN {1} ELSE {}) : unzipAll(to, overwrite, damaged)
     \/ \E names \in {<<<<"f">>, <<"d", "f">>>>} : unzipSome(names, "out")

(* The names of regular files in an archive, each once.                     *)
FileNames(due) == {n \in DOMAIN due : Last(n) # ""}
Below(dir) == {p \in DOMAIN SourceFiles : IsPrefix(dir, p)}
Alone(name, due, was) ==
  \A p \in FileNames(due) \union DOMAIN was : p = name \/ ~(IsPrefix(p, name) \/ IsPrefix(name, p))
(* An archive that was closed gives back, under each name, what was put     *)
(* there last, and where nothing is to be overwritten what was there stays; *)
(* a directory comes back with every file below it.  Not so where a damaged *)
(* entry ends it, and an archive that was added to and not closed is lost.  *)
(* The date of an entry never gets to a file extracted elsewhere.           *)
ArchiveExact ==
  class = "archive" =>
    /\ obj.disk = "whole" /\ ~obj.open => FileNames(obj.kept) = {n \in {obj.stored[i].name : i \in DOMAIN obj.stored} : Last(n) # ""}
    /\ \A to \in Directories :
         /\ obj.done = "all over " \o to =>
              \A n \in FileNames(obj.kept) : Alone(n, obj.kept, obj.was) => obj.files[to][n] = obj.kept[n]
         /\ obj.done = "all new " \o to =>
              /\ \A n \in DOMAIN obj.was : obj.files[to][n] = obj.was[n]
              /\ \A n \in FileNames(obj.kept) : Alone(n, obj.kept, obj.was) => n \in DOMAIN obj.files[to]
    /\ obj.dated["out"] = {}
    /\ obj.disk = "torn" /\ ~obj.open => obj.done # "listed"
    /\ \A e \in {<<>>, <<"p">>} :
         LET all == Zipped[<<"d">>, e, ""] IN
         obj.calls = 0 => {all[i] : i \in DOMAIN all} = {ZipEntry(e \o p, SourceFiles[p]) : p \in Below(<<"d">>)}

-----------------------------------------------------------------------------
(* The handles of sqlite.  A connection of the library is open, closed, or  *)
(* closed but kept for the statements it still has; so it is where open()   *)
(* failed, for the library wants it closed.  A variable of class Statment   *)
(* has the number of a statement, 0 for none.                               *)
Variables == {"s1", "s2"}
SqliteInit ==
  /\ class = "sqlite" /\ pc = <<>>
  /\ obj = [db |-> 0, conns |-> <<>>, lost |-> {}, stmts |-> <<>>, slot |-> [s \in Variables |-> 0], copied |-> {},
            twice |-> FALSE, calls |-> 0]
SqliteAt == class = "sqlite" /\ obj.calls < MaxStored + 3 /\ ~obj.twice
SqliteDid(o) == obj' = [o EXCEPT !.calls = @ + 1] /\ Stay
LiveStatements(o, c) == {i \in DOMAIN o.stmts : o.stmts[i].conn = c /\ ~o.stmts[i].finalized}

(* open() does not look whether one is open.                                *)
openDb ==
  /\ SqliteAt
  /\ LET o == [obj EXCEPT !.conns = Append(@, "open"), !.lost = @ \union ({obj.db} \ {0})]
         new == Len(obj.conns) + 1
     IN \/ SqliteDid([o EXCEPT !.db = new])
        \/ SqliteDid([o EXCEPT !.db = 0, !.lost = @ \union {new}])
(* close(), and the destructor.                                             *)
closeDb ==
  /\ SqliteAt /\ obj.db # 0
  /\ SqliteDid([obj EXCEPT !.db = 0,
                          !.conns[obj.db] = IF LiveStatements(obj, obj.db) = {} THEN "closed" ELSE "kept"])
(* ~Statment().                                                             *)
Finalized(o, s) ==
  LET i == o.slot[s]
      f == [o EXCEPT !.stmts[i].finalized = TRUE]
      c == o.stmts[i].conn
  IN IF i = 0 THEN o
     ELSE IF o.stmts[i].finalized THEN [o EXCEPT !.twice = TRUE]
     ELSE IF o.conns[c] = "kept" /\ LiveStatements(f, c) = {} THEN [f EXCEPT !.conns[c] = "closed"]
     ELSE f
(* The mutant does not finalize.                                            *)
EndedWithout(o, s) == [o EXCEPT !.slot[s] = 0]
Ended(o, s) == [Finalized(o, s) EXCEPT !.slot[s] = 0]
destroyStatment(s) == SqliteAt /\ obj.slot[s] # 0 /\ SqliteDid(Ended(obj, s))
(* Statment s = prepare(): the one object there is.  Where s is one already,*)
(* it gets the pointer, and the other object finalizes it; the statement it *)
(* had is lost.                                                             *)
prepare(s) ==
  /\ SqliteAt /\ obj.db # 0
  /\ \E assigned \in BOOLEAN :
       /\ ~assigned => obj.slot[s] = 0
       /\ SqliteDid([obj EXCEPT !.stmts = Append(@, [conn |-> obj.db, finalized |-> assigned]),
                               !.slot[s] = Len(obj.stmts) + 1,
                               !.copied = IF assigned THEN @ \union ({obj.slot[s], Len(obj.stmts) + 1} \ {0}) ELSE @])
(* The copy of a Statment has the same pointer.                             *)
copyStatment(s, r) ==
  /\ SqliteAt /\ s # r /\ obj.slot[s] # 0 /\ obj.slot[r] = 0
  /\ SqliteDid([obj EXCEPT !.slot[r] = obj.slot[s], !.copied = @ \union {obj.slot[s]}])

SqliteNext ==
  \/ openDb \/ closeDb
  \/ \E s \in Variables :
       \/ destroyStatment(s) \/ prepare(s)
       \/ \E r \in Variables : copyStatment(s, r)

(* A connection the library still has open is the one of the object, or one *)
(* that a second or a failed open() lost, or waits for a statement that is  *)
(* not finalized; a statement is not finalized while one variable has it,   *)
(* and twice only where it was copied or assigned.                          *)
ConnectionsOwned ==
  class = "sqlite" =>
    /\ \A c \in DOMAIN obj.conns :
         /\ obj.conns[c] = "open" <=> c = obj.db \/ c \in obj.lost
         /\ obj.conns[c] = "kept" => LiveStatements(obj, c) # {}
    /\ \A i \in DOMAIN obj.stmts \ obj.copied :
         obj.stmts[i].finalized <=> ~\E s \in Variables : obj.slot[s] = i
    /\ obj.twice => obj.copied # {}

-----------------------------------------------------------------------------
(* getTables(): another process may keep the file locked, and makes and     *)
(* drops tables; what is read is of one moment.  A step that finds the file *)
(* locked is taken for a row, of no columns, and adds a name that is empty. *)
TableNames == {"a", "b", "c"}
InOrder(names) == SetToSortSeq(names, LAMBDA x, y : x = "a" \/ (x = "b" /\ y = "c"))
CatalogInit ==
  /\ class = "catalog" /\ pc = [t \in {"reader"} |-> "prepare"]
  /\ \E names \in SUBSET TableNames :
       obj = [tables |-> names, locked |-> FALSE, rows |-> <<>>, read |-> FALSE, result |-> <<>>, busy |-> 0, changes |-> 0]
otherProcess ==
  /\ class = "catalog" /\ At("reader", "step") /\ obj.changes < 3
  /\ \/ ~obj.read /\ obj' = [obj EXCEPT !.locked = ~@, !.changes = @ + 1]
     \/ obj.locked /\ \E name \in TableNames :
          obj' = [obj EXCEPT !.tables = IF name \in @ THEN @ \ {name} ELSE @ \union {name}, !.changes = @ + 1]
  /\ Stay
tablesPrepare == class = "catalog" /\ At("reader", "prepare") /\ Go("reader", "step") /\ UNCHANGED <<class, obj>>
tablesStep ==
  /\ class = "catalog" /\ At("reader", "step")
  /\ LET rows == IF obj.read THEN obj.rows ELSE InOrder(obj.tables) IN
     IF obj.locked /\ ~obj.read
     THEN /\ obj.busy < 3
          /\ obj' = [obj EXCEPT !.result = Append(@, ""), !.busy = @ + 1] /\ Stay
     ELSE IF rows = <<>> THEN Go("reader", "done") /\ UNCHANGED <<class, obj>>
     ELSE obj' = [obj EXCEPT !.read = TRUE, !.rows = Tail(rows), !.result = Append(@, Head(rows))] /\ Stay
CatalogNext == otherProcess \/ tablesPrepare \/ tablesStep

(* The result has every table there is, once and in order, and an empty     *)
(* name for each time the file was found locked.                            *)
TablesExact ==
  class = "catalog" /\ At("reader", "done") =>
    /\ SelectSeq(obj.result, LAMBDA n : n # "") = InOrder(obj.tables)
    /\ Len(obj.result) = obj.busy + Cardinality(obj.tables)

(* getTableInfo() of Sqlite3DataBase.  A column has a name, which may have  *)
(* blanks around it; two that differ by blanks only are alike for           *)
(* ColumnInfo, and the second makes addColumn() throw.  A view has no       *)
(* metadata.                                                                *)
SqlColumn(name, blanks, key) == [name |-> name, blanks |-> blanks, key |-> key]
SqlColumns == {SqlColumn(n, b, k) : n \in {"a", "b"}, b \in BOOLEAN, k \in BOOLEAN}
SqlTables == {s \in UNION {[1..n -> SqlColumns] : n \in 1..3} :
              \A i, j \in DOMAIN s : i # j => <<s[i].name, s[i].blanks>> # <<s[j].name, s[j].blanks>>}
Alike(c, d) == c.name = d.name
(* The mutant drops the second without a word.                              *)
addQuietly(info, c) ==
  IF \E d \in info.columns : Alike(c, d) THEN info ELSE [info EXCEPT !.columns = @ \union {c}]
addColumn(info, c) ==
  IF \E d \in info.columns : Alike(c, d) THEN [info EXCEPT !.ok = FALSE]
  ELSE [info EXCEPT !.columns = @ \union {c}]
ColumnsOf(table, view) ==
  FoldLeft(LAMBDA info, c : IF ~info.ok THEN info ELSE IF view THEN [info EXCEPT !.ok = FALSE] ELSE addColumn(info, c),
           [ok |-> TRUE, columns |-> {}], table)
SqlInfoInit == class = "columns" /\ pc = <<>> /\ obj = [asked |-> <<>>, view |-> FALSE, info |-> [ok |-> FALSE, columns |-> {}]]
getTableInfo ==
  /\ class = "columns" /\ obj.asked = <<>>
  /\ \E table \in SqlTables, view \in BOOLEAN :
       obj' = [asked |-> table, view |-> view, info |-> ColumnsOf(table, view)]
  /\ Stay

(* The information is about all columns of the table, or there is none.     *)
ColumnsExact ==
  class = "columns" /\ obj.asked # <<>> =>
    IF obj.info.ok THEN obj.info.columns = ToSet(obj.asked)
    ELSE obj.view \/ \E i, j \in DOMAIN obj.asked : i # j /\ obj.asked[i].name = obj.asked[j].name

-----------------------------------------------------------------------------
(* AdoConnection.  A name of a table is a letter and whether it is written  *)
(* in capitals; a database is what it says of itself and the tables of its  *)
(* schemas.  A provider that is exact compares names as they are written.   *)
TableName(letter, capital) == [letter |-> letter, capital |-> capital]
ToUpper(name) == [name EXCEPT !.capital = TRUE]
NoName == TableName("", TRUE)
AdoTable(schema, name, type, keys) == [schema |-> schema, name |-> name, type |-> type, keys |-> keys]
Database(oracle, usage, tables) == [oracle |-> oracle, usage |-> usage, tables |-> tables]
AdoTables == {AdoTable("me", TableName("t", TRUE), "TABLE", {"k"}), AdoTable("you", TableName("t", TRUE), "TABLE", {"l"}),
              AdoTable("me", TableName("u", FALSE), "TABLE", {}), AdoTable("you", TableName("v", TRUE), "VIEW", {})}
Databases == {Database(TRUE, 1, AdoTables), Database(FALSE, 0, {u \in AdoTables : u.schema = "me"})}
NoTableInfo == [name |-> NoName, schema |-> "", keys |-> {}, columns |-> FALSE]

(* cached: the properties of a connection, {} before they were asked for.   *)
AdoInit ==
  /\ class = "ado" /\ pc = <<>>
  /\ \E db \in Databases, exact \in BOOLEAN :
       obj = [db |-> db, cached |-> {}, exact |-> exact, given |-> FALSE, stale |-> FALSE,
              asked |-> NoName, one |-> NoTableInfo, names |-> {}, all |-> {}, calls |-> 0]
AdoAt == class = "ado" /\ obj.calls < MaxStored
(* Open() forgets the properties; operator= does not.                       *)
adoOpen ==
  /\ AdoAt /\ \E db \in Databases :
       obj' = [obj EXCEPT !.db = db, !.cached = {}, !.given = FALSE, !.stale = FALSE, !.calls = @ + 1]
  /\ Stay
adoAssign ==
  /\ AdoAt /\ \E db \in Databases :
       obj' = [obj EXCEPT !.db = db, !.given = FALSE, !.calls = @ + 1,
                          !.stale = \E c \in obj.cached : [oracle |-> db.oracle, usage |-> db.usage] # c]
  /\ Stay
(* getProperty(): of the data base there was when it was asked first.       *)
Properties(o) == IF o.cached = {} THEN {[oracle |-> o.db.oracle, usage |-> o.db.usage]} ELSE o.cached
ByUser(o) == \E p \in Properties(o) : p.oracle /\ p.usage > 0

(* OpenSchema(adSchemaTables), with and without the name of a table.        *)
Rows(o) == {t \in o.db.tables : ByUser(o) => t.schema = "me"}
RowsNamed(o, name) == {t \in Rows(o) : IF o.exact THEN t.name = name ELSE ToUpper(t.name) = ToUpper(name)}
getPrimaryKeys(o, t) == UNION {u.keys : u \in {u \in o.db.tables : u.name = t.name /\ u.schema = t.schema}}
InfoOf(o, t, columns) == [name |-> t.name, schema |-> t.schema, keys |-> getPrimaryKeys(o, t), columns |-> columns]

getTableNames(o) == {t.name : t \in {t \in Rows(o) : t.type = "TABLE"}}
(* getTableInfos(): one for a name, of any of its schemas; the columns are  *)
(* read and go nowhere.                                                     *)
Chosen(o) ==
  {pick \in [getTableNames(o) -> Rows(o)] : \A n \in DOMAIN pick : pick[n].name = n /\ pick[n].type = "TABLE"}
(* getTableInfo(): the provider is asked for the name in capitals, and the  *)
(* columns are those of a table with the name as it was given.  The mutant  *)
(* takes the keys of all tables of that name.                               *)
InfoOfAnySchema(o, name, t) ==
  [InfoOf(o, t, ToUpper(t.name) = name) EXCEPT !.keys = UNION {u.keys : u \in {u \in o.db.tables : u.name = t.name}}]
InfoNamed(o, name, t) == InfoOf(o, t, ToUpper(t.name) = name)
adoTables ==
  /\ AdoAt /\ \E pick \in Chosen(obj) :
       obj' = [obj EXCEPT !.cached = Properties(obj), !.given = TRUE, !.calls = @ + 1, !.asked = NoName, !.one = NoTableInfo,
                          !.names = getTableNames(obj), !.all = {InfoOf(obj, pick[n], FALSE) : n \in DOMAIN pick}]
  /\ Stay
adoTable ==
  /\ AdoAt /\ \E letter \in {"t", "u", "v", "w"}, capital \in BOOLEAN :
       LET name == TableName(letter, capital)
           found == {t \in RowsNamed(obj, ToUpper(name)) : t.type = "TABLE"}
       IN \E one \in {InfoNamed(obj, name, t) : t \in found} \union (IF found = {} THEN {NoTableInfo} ELSE {}) :
            obj' = [obj EXCEPT !.cached = Properties(obj), !.given = TRUE, !.calls = @ + 1, !.asked = name, !.one = one,
                               !.names = {}, !.all = {}]
  /\ Stay
AdoNext == adoOpen \/ adoAssign \/ adoTables \/ adoTable

(* Of a data base that names its user, the tables of that user are found,   *)
(* else those of everybody, unless the connection was assigned another with *)
(* different properties; keys are those of the table in its schema.  A      *)
(* table comes with its columns where the name was given in capitals only,  *)
(* and is not found where the provider is exact and its name is not so.     *)
AdoExact ==
  class = "ado" /\ obj.given /\ ~obj.stale =>
    LET mine == {t \in obj.db.tables : t.type = "TABLE" /\ (obj.db.oracle => t.schema = "me")}
        known == IF obj.asked = NoName THEN obj.all ELSE {obj.one} \ {NoTableInfo}
    IN /\ obj.asked = NoName => obj.names = {t.name : t \in mine} /\ {i.name : i \in obj.all} = obj.names
       /\ \A i \in known : \E t \in mine : t.name = i.name /\ t.schema = i.schema /\ t.keys = i.keys
       /\ obj.asked # NoName =>
            /\ obj.one = NoTableInfo <=>
                 ~\E t \in mine : ToUpper(t.name) = ToUpper(obj.asked) /\ (obj.exact => t.name.capital)
            /\ obj.one.columns <=> obj.one # NoTableInfo /\ obj.asked.capital
=============================================================================
