--------------------------------- MODULE Files ---------------------------------
(***************************************************************************)
(* File (src/file/File.cpp): what its operations do to a tree of files,    *)
(* class "files"; and the files a FileAppender (src/log/FileAppender.cpp)  *)
(* keeps in its directory, class "appender".  A path is a sequence of      *)
(* names; the operating system takes no path longer than MaxDepth.         *)
(***************************************************************************)
EXTENDS Monitor, SequencesExt, TLC

CONSTANTS Names, MaxDepth, \* bound: the names, and the length of a path
          FileContents,    \* what a file may hold
          MaxDay           \* bound: days that logs are written on

Paths == UNION {[1..n -> Names] : n \in 1..MaxDepth}
None == "none"
Dir == "dir"
ASSUME FilesAssumption == MaxDepth \in Nat /\ None \notin FileContents /\ Dir \notin FileContents
Under(p, q) == IsPrefix(p, q)
IsFile(f, p) == f[p] \in FileContents
HasParent(f, p) == Len(p) > 1 => f[Front(p)] = Dir
Clear(f, P) == [q \in Paths |-> IF q \in P THEN None ELSE f[q]]

Nothing == [op |-> "none", from |-> <<>>, to |-> <<>>, ok |-> TRUE]

(* fs: the tree; done: the last operation, what it gave, and the tree before*)
FilesInit ==
  /\ class = "files" /\ pc = <<>>
  /\ obj = [fs |-> [p \in Paths |-> None],
            done |-> Nothing,
            was |-> [p \in Paths |-> None]]
FilesAt == class = "files" /\ obj.done = Nothing
Did(op, s, d, ok, f) ==
  /\ obj' = [fs |-> f, done |-> [op |-> op, from |-> s, to |-> d, ok |-> ok], was |-> obj.fs]
  /\ Stay

(* The user has seen what it gave.                                          *)
UserGoesOn ==
  /\ class = "files" /\ obj.done # Nothing
  /\ obj' = [obj EXCEPT !.done = Nothing, !.was = obj.fs]
  /\ Stay

(* The user writes a file with something else.                              *)
UserWrites(p, v) ==
  /\ FilesAt /\ HasParent(obj.fs, p) /\ obj.fs[p] # Dir
  /\ Did("write", p, p, TRUE, [obj.fs EXCEPT ![p] = v])

mkdir(p) ==
  LET ok == obj.fs[p] = None /\ HasParent(obj.fs, p)
  IN FilesAt /\ Did("mkdir", p, p, ok, IF ok THEN [obj.fs EXCEPT ![p] = Dir] ELSE obj.fs)

(* Every ancestor that is missing is made, or is not, and that is not asked.*)
MadeDirs(f, p) ==
  [q \in Paths |-> IF Under(q, p) /\ f[q] = None /\ ~(\E r \in Paths : Under(r, q) /\ IsFile(f, r))
                   THEN Dir ELSE f[q]]
mkdirs(p) ==
  /\ FilesAt
  /\ LET ok == obj.fs[p] = None
     IN Did("mkdirs", p, p, ok, IF ok THEN MadeDirs(obj.fs, p) ELSE obj.fs)

(* remove(): what is in a directory goes with it; where it is not to be     *)
(* recursive the files go, and the directory if that was all.               *)
Removed(f, s, recursive) ==
  LET kept == IF recursive THEN {} ELSE {q \in Paths : Under(s, q) /\ s # q /\ f[q] = Dir
                                                         /\ Len(q) = Len(s) + 1}
      below == UNION {{q \in Paths : Under(k, q)} : k \in kept}
  IN [ok |-> f[s] # None /\ kept = {},
      fs |-> Clear(f, {q \in Paths : Under(s, q)} \ (below \union IF kept = {} THEN {} ELSE {s}))]
remove(s, recursive) ==
  /\ FilesAt
  /\ LET r == Removed(obj.fs, s, recursive) IN Did("remove", s, s, r.ok, r.fs)

empty(s) ==
  /\ FilesAt
  /\ Did("remove", s, s, TRUE,
         IF obj.fs[s] = Dir THEN Clear(obj.fs, {q \in Paths : Under(s, q) /\ q # s}) ELSE obj.fs)

(* The operating system's rename().                                         *)
rename(s, d) ==
  LET below == {x \in Paths : Under(s, x) /\ obj.fs[x] # None}
      At2(x) == d \o SubSeq(x, Len(s) + 1, Len(x))
      ok == /\ obj.fs[s] # None /\ HasParent(obj.fs, d)
            /\ s = d \/ ~Under(s, d)
            /\ IF obj.fs[s] = Dir
               THEN s = d \/ (obj.fs[d] \in {None, Dir} /\ \A q \in Paths : Under(d, q) /\ q # d => obj.fs[q] = None)
               ELSE obj.fs[d] # Dir
            /\ \A x \in below : At2(x) \in Paths
  IN /\ FilesAt
     /\ Did("rename", s, d, ok,
          IF ok
          THEN [q \in Paths |-> IF \E x \in below : At2(x) = q
                                THEN obj.fs[CHOOSE x \in below : At2(x) = q]
                                ELSE IF Under(s, q) THEN None ELSE obj.fs[q]]
          ELSE obj.fs)

(* copyTo(): a file is written if its directory is there, and nothing looks *)
(* whether it was; of a directory, what can be made is.                     *)
Copied(f, s, d) ==
  LET f1 == IF f[s] = Dir THEN MadeDirs(f, d) ELSE f
      From(q) == s \o SubSeq(q, Len(d) + 1, Len(q))
      Comes(q) ==
        /\ Under(d, q) /\ From(q) \in Paths /\ f[From(q)] # None
        /\ HasParent(f1, d) /\ ~(\E r \in Paths : Under(d, r) /\ Under(r, q) /\ r # q /\ IsFile(f1, r))
  IN [q \in Paths |-> IF ~Comes(q) THEN f1[q]
                      ELSE IF f[From(q)] = Dir THEN (IF f1[q] = None THEN Dir ELSE f1[q])
                      ELSE IF f1[q] = Dir THEN Dir ELSE f[From(q)]]
CopyToOk(f, s, d, force) ==
  /\ f[s] # None /\ s # d
  /\ force \/ f[d] = None
  /\ ~(f[s] = Dir /\ IsFile(f, d))
copyTo(s, d, force) ==
  /\ FilesAt /\ ~Under(s, d)
  /\ LET ok == CopyToOk(obj.fs, s, d, force)
     IN Did("copyTo", s, d, ok, IF ok THEN Copied(obj.fs, s, d) ELSE obj.fs)

(* moveTo() copies, then removes.  A directory moved into itself is copied  *)
(* into the copy and so on, and then removed.                               *)
MovedUnasked(f, s, d, force) ==
  [ok |-> TRUE, fs |-> Clear(IF CopyToOk(f, s, d, force) THEN Copied(f, s, d) ELSE f,
                             {q \in Paths : Under(s, q)})]
Moved(f, s, d, force) ==
  [ok |-> CopyToOk(f, s, d, force),
   fs |-> IF CopyToOk(f, s, d, force)
          THEN Clear(IF Under(s, d) THEN f ELSE Copied(f, s, d), {q \in Paths : Under(s, q)})
          ELSE f]
moveTo(s, d, force) ==
  /\ FilesAt
  /\ LET m == Moved(obj.fs, s, d, force) IN Did("moveTo", s, d, m.ok, m.fs)

FilesNext ==
  \/ UserGoesOn
  \/ \E s \in Paths :
       \/ \E v \in FileContents : UserWrites(s, v)
       \/ mkdir(s) \/ mkdirs(s) \/ empty(s)
       \/ \E b \in BOOLEAN : \/ remove(s, b) \/ \E d \in Paths : copyTo(s, d, b) \/ moveTo(s, d, b)
       \/ \E d \in Paths : rename(s, d)

-----------------------------------------------------------------------------
(* Two appenders of one directory.  files: what is there, <<prefix, day>>;  *)
(* name: m_logFileName, of the day it is of; logged: the files there have    *)
(* been; alone: one of them logs only.                                      *)
Appenders == {1, 2}
AppenderInit ==
  /\ class = "appender" /\ pc = <<>>
  /\ \E alone \in BOOLEAN, reserved \in {-1, 0, 1} :
       obj = [files |-> {}, logged |-> {}, day |-> 1, name |-> [p \in Appenders |-> 0], alone |-> alone,
              reserved |-> reserved]

NextDay ==
  /\ class = "appender" /\ obj.day < MaxDay
  /\ obj' = [obj EXCEPT !.day = @ + 1]
  /\ Stay

(* clearOldFiles(): of all other files, whatever they are, those of the     *)
(* first names go.                                                          *)
Before(f, g) == f[1] < g[1] \/ (f[1] = g[1] /\ f[2] < g[2])
clearNewFiles(files, current) ==
  IF obj.reserved < 0 THEN files
  ELSE {f \in files : f = current \/ Cardinality({g \in files \ {current} : Before(g, f)}) < obj.reserved}

clearOldFiles(files, current) ==
  IF obj.reserved < 0 THEN files
  ELSE {f \in files : f = current \/ Cardinality({g \in files \ {current} : Before(f, g)}) < obj.reserved}

(* log() with checkLogFile().                                               *)
appenderLog(p) ==
  /\ class = "appender" /\ (obj.alone => p = 1)
  /\ LET current == <<p, obj.day>>
     IN obj' = IF obj.name[p] = obj.day THEN obj
               ELSE [obj EXCEPT !.name[p] = obj.day, !.logged = @ \union {current},
                                !.files = clearOldFiles(@ \union {current}, current)]
  /\ Stay

AppenderNext == NextDay \/ \E p \in Appenders : appenderLog(p)

-----------------------------------------------------------------------------
Target(x) == obj.done.to \o SubSeq(x, Len(obj.done.from) + 1, Len(x))
(* What moveTo() loses although it says that it moved: a directory moved    *)
(* into itself; a file whose place cannot be written, because a directory   *)
(* is there, or there is no directory above it, or the path is too long.    *)
LostOnMove(x) ==
  \/ Under(obj.done.from, Target(x))
  \/ Target(x) \notin Paths
  \/ obj.was[Target(x)] = Dir
  \/ \E r \in Paths : Under(r, Target(x)) /\ r # Target(x) /\ IsFile(obj.was, r)
  \/ x = obj.done.from /\ ~HasParent(obj.was, obj.done.to)

(* A file that is moved is there with what it held, but for the cases above;*)
(* an operation that refuses leaves everything, except a remove() that is   *)
(* not recursive; a file no operation is about stays; and what is left is a *)
(* tree.                                                                    *)
FilesKept ==
  class = "files" =>
    LET did == obj.done IN
    /\ did.op = "moveTo" /\ did.ok =>
         \A x \in Paths : Under(did.from, x) /\ IsFile(obj.was, x) /\ ~LostOnMove(x) =>
                            obj.fs[Target(x)] = obj.was[x]
    /\ ~did.ok /\ did.op # "remove" => obj.fs = obj.was
    /\ \A x \in Paths : IsFile(obj.was, x) /\ ~Under(did.from, x) /\ ~Under(did.to, x) =>
                          obj.fs[x] = obj.was[x]
    /\ \A x \in Paths : obj.fs[x] # None => HasParent(obj.fs, x)

(* The file an appender writes is in the directory and with it the newest   *)
(* of the others, as many as are reserved, when it is alone there.          *)
NewestKept ==
  class = "appender" /\ obj.alone /\ obj.name[1] # 0 =>
    /\ <<1, obj.name[1]>> \in obj.files
    /\ obj.reserved >= 0 => Cardinality(obj.files) <= obj.reserved + 1
    /\ obj.reserved < 0 => obj.files = obj.logged
    /\ \A f \in obj.files, g \in obj.logged \ obj.files : g[2] < f[2]
=============================================================================
