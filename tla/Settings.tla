------------------------------ MODULE Settings ------------------------------
(***************************************************************************)
(* Settings (src/settings/Settings.cpp): class "settings", a map that      *)
(* several threads use and listeners are told of, and "settingsfile", the  *)
(* map as a file; class "cmdline", CmdLineParser (src/app), which writes   *)
(* to it.  A key is the sequence of the names between its dots.            *)
(***************************************************************************)
EXTENDS Monitor, SequencesExt

CONSTANTS
  MaxChanges, \* bound: calls that change the map
  MaxArgs     \* bound: arguments of a command line

Keys == {<<"a">>, <<"a", "b">>, <<"b">>}
Without(map, keys) == [k \in DOMAIN map \ keys |-> map[k]]
With1(map, key, value) ==
  [k \in DOMAIN map \union {key} |-> IF k = key THEN value ELSE map[k]]
NoSettings == [k \in {} |-> ""]
ValueOf(map, key) == IF key \in DOMAIN map THEN map[key] ELSE "none"

-----------------------------------------------------------------------------
(* Events of one call: what its thread has still to tell.                   *)
Event(kind, key, value, old) == [kind |-> kind, key |-> key, value |-> value, old |-> old]
SettingsInit ==
  /\ class = "settings" /\ pc = [t \in {"u1", "u2"} |-> "idle"]
  /\ obj = [values |-> NoSettings, listens |-> FALSE, copy |-> NoSettings, wrong |-> FALSE,
            calls |-> [t \in {"u1", "u2"} |-> [op |-> "none", key |-> <<>>, value |-> ""]],
            toTell |-> [t \in {"u1", "u2"} |-> <<>>], disturbed |-> {}, changes |-> 0]
SettingsThreads == {"u1", "u2"}

(* setValue(), removeValue() and clear() look for listeners before they     *)
(* lock.  A key that two calls are about at a time, or whose call has seen  *)
(* no listener yet, is disturbed.                                           *)
KeysOf(op, key) == IF op = "clear" THEN Keys ELSE {key}
settingsCall(t) ==
  /\ class = "settings" /\ pc[t] = "idle" /\ obj.changes < MaxChanges
  /\ \E op \in {"set", "remove", "clear"}, key \in Keys, value \in {"1", "2"} :
       /\ op # "set" => value = "1"
       /\ op = "clear" => key = <<"a">>
       /\ obj' = [obj EXCEPT
                    !.calls[t] = [op |-> op, key |-> key, value |-> value], !.changes = @ + 1,
                    !.disturbed = @ \union
                      {k \in KeysOf(op, key) :
                         \E u \in SettingsThreads \ {t} :
                           pc[u] # "idle" /\ k \in KeysOf(obj.calls[u].op, obj.calls[u].key)}
                        \union (IF obj.listens THEN {} ELSE KeysOf(op, key))]
       /\ Go(t, IF obj.listens THEN "change" ELSE "quietly")
  /\ UNCHANGED class
Changed(op, key, value) ==
  CASE op = "set" -> With1(obj.values, key, value)
    [] op = "remove" -> Without(obj.values, {key})
    [] OTHER -> NoSettings
EventsUnmoved(op, key, value) ==
  LET old == ValueOf(obj.values, key)
  IN CASE op = "set" -> <<Event(IF old = "none" THEN "Add" ELSE "Changed", key, value, old)>>
       [] op = "remove" -> IF old = "none" THEN <<>> ELSE <<Event("Del", key, "none", old)>>
       [] OTHER -> <<>>
Events(op, key, value) ==
  LET old == ValueOf(obj.values, key)
      gone == SetToSeq(DOMAIN obj.values)
  IN CASE op = "set" -> <<Event(IF old = "none" THEN "Add" ELSE "Changed", key, value, old)>>
       [] op = "remove" -> IF old = "none" THEN <<>> ELSE <<Event("Del", key, "none", old)>>
       [] OTHER -> [i \in DOMAIN gone |-> Event("Del", gone[i], "none", obj.values[gone[i]])]
settingsChange(t) ==
  /\ class = "settings" /\ At(t, "change")
  /\ LET c == obj.calls[t] IN
     obj' = [obj EXCEPT !.values = Changed(c.op, c.key, c.value),
                        !.toTell[t] = Events(c.op, c.key, c.value)]
  /\ Go(t, "tell") /\ UNCHANGED class
settingsQuietly(t) ==
  /\ class = "settings" /\ At(t, "quietly")
  /\ LET c == obj.calls[t] IN obj' = [obj EXCEPT !.values = Changed(c.op, c.key, c.value)]
  /\ Go(t, "idle") /\ UNCHANGED class
(* A listener keeps a copy by what it is told, without the lock, and sees   *)
(* what was there before as it knows it.                                    *)
settingsTell(t) ==
  /\ class = "settings" /\ At(t, "tell") /\ obj.toTell[t] # <<>>
  /\ LET e == Head(obj.toTell[t]) IN
     obj' = [obj EXCEPT !.toTell[t] = Tail(@),
                        !.copy = IF e.kind = "Del" THEN Without(@, {e.key}) ELSE With1(@, e.key, e.value),
                        !.wrong = @ \/ (e.key \notin obj.disturbed /\ ValueOf(obj.copy, e.key) # e.old)]
  /\ UNCHANGED <<class, pc>>
settingsTold(t) ==
  /\ class = "settings" /\ At(t, "tell") /\ obj.toTell[t] = <<>>
  /\ Go(t, "idle") /\ UNCHANGED <<class, obj>>
(* Listeners are added while no thread calls one; this one takes a copy.    *)
onChanged ==
  /\ class = "settings" /\ ~obj.listens /\ \A t \in SettingsThreads : pc[t] # "tell"
  /\ obj' = [obj EXCEPT !.listens = TRUE, !.copy = obj.values,
                        !.disturbed = UNION {KeysOf(obj.calls[t].op, obj.calls[t].key) :
                                               t \in {u \in SettingsThreads : pc[u] # "idle"}}]
  /\ Stay
SettingsNext ==
  \/ onChanged
  \/ \E t \in SettingsThreads :
       settingsCall(t) \/ settingsChange(t) \/ settingsQuietly(t) \/ settingsTell(t) \/ settingsTold(t)

(* A listener that applies what it is told has the settings, and is told of *)
(* each change with the value it replaces, but for keys two calls change at *)
(* a time: their events may overtake each other, as they are told without   *)
(* the lock.  A clear() tells of every key.                                 *)
ListenersExact ==
  class = "settings" /\ obj.listens =>
    /\ ~obj.wrong
    /\ \A k \in Keys \ obj.disturbed :
         (\A t \in SettingsThreads : pc[t] # "idle" => k \notin KeysOf(obj.calls[t].op, obj.calls[t].key))
           => ValueOf(obj.copy, k) = ValueOf(obj.values, k)

-----------------------------------------------------------------------------
(* A file: a tree of JSON, as the map from paths to leaves.  A path that    *)
(* goes on behind a leaf throws, before the file is opened; keys come in    *)
(* order, the shorter first.                                                *)
Kinds == {"BOOLEAN", "INT", "ULONGLONG", "DOUBLE", "WHOLEDOUBLE", "STRING"}
Maps == UNION {[keys -> Kinds] : keys \in SUBSET Keys}
Leaf(kind) ==
  CASE kind \in {"INT", "INT64", "ULONGLONG"} -> "integer"
    [] kind = "WHOLEDOUBLE" -> "1.0"
    [] kind = "DOUBLE" -> "real"
    [] kind = "BOOLEAN" -> "boolean"
    [] OTHER -> "string"
Throws(map) == \E k, l \in DOMAIN map : k # l /\ IsPrefix(k, l)
(* setVal_(): a real number without a fraction is an integer to isInt().    *)
ReadBack(leaf) ==
  CASE leaf = "string" -> "STRING"
    [] leaf = "boolean" -> "BOOLEAN"
    [] leaf \in {"integer", "1.0"} -> "INT64"
    [] OTHER -> "DOUBLE"
SettingsFileInit ==
  /\ class = "settingsfile" /\ pc = <<>>
  /\ \E map \in Maps :
       obj = [saved |-> map, file |-> <<"before">>, result |-> "none",
              other |-> (<<"c">> :> "INT"), rest |-> {}, second |-> FALSE]
saveToFile ==
  /\ class = "settingsfile" /\ obj.result = "none"
  /\ obj' = IF Throws(obj.saved) THEN [obj EXCEPT !.result = "thrown"]
            ELSE [obj EXCEPT !.result = "saved", !.file = [k \in DOMAIN obj.saved |-> Leaf(obj.saved[k])]]
  /\ Stay
(* Another map is loaded, one key after the other.                          *)
loadFromFile ==
  /\ class = "settingsfile" /\ obj.result = "saved"
  /\ obj' = [obj EXCEPT !.result = "loading", !.rest = DOMAIN obj.file] /\ Stay
loadFlat(map, key) == With1(map, <<Last(key)>>, ReadBack(obj.file[key]))
loadKey(map, key) == With1(map, key, ReadBack(obj.file[key]))
setVal ==
  /\ class = "settingsfile" /\ obj.result = "loading" /\ obj.rest # {}
  /\ \E k \in obj.rest : obj' = [obj EXCEPT !.other = loadKey(@, k), !.rest = @ \ {k}]
  /\ Stay
(* What was loaded is saved and loaded once more.                           *)
saveAgain ==
  /\ class = "settingsfile" /\ obj.result = "loading" /\ obj.rest = {} /\ ~obj.second
  /\ LET map == Without(obj.other, {<<"c">>}) IN
     obj' = [obj EXCEPT !.second = TRUE, !.result = IF Throws(map) THEN "thrown" ELSE "saved",
                        !.file = IF Throws(map) THEN @ ELSE [k \in DOMAIN map |-> Leaf(map[k])]]
  /\ Stay
SettingsFileNext == saveToFile \/ loadFromFile \/ setVal \/ saveAgain

(* What is loaded is what was saved, as much of its type as JSON keeps, and *)
(* beside what was there; saving that again changes nothing but 1.0, which  *)
(* has become 1.  Settings that cannot be saved leave the file alone.       *)
FileExact ==
  class = "settingsfile" =>
    /\ obj.result = "thrown" => obj.file = <<"before">> /\ ~obj.second
    /\ obj.result = "loading" /\ obj.rest = {} =>
         /\ DOMAIN obj.other = DOMAIN obj.saved \union {<<"c">>} /\ obj.other[<<"c">>] = "INT"
         /\ \A k \in DOMAIN obj.saved :
              obj.other[k] = (IF obj.saved[k] \in {"INT", "ULONGLONG", "WHOLEDOUBLE"}
                              THEN "INT64" ELSE obj.saved[k])

-----------------------------------------------------------------------------
(* CmdLineParser: options with a long and a short name, or by position.     *)
(* An argument is its dashes, what is before "=", and what is behind it.    *)
Named == <<[long |-> "help", short |-> ""], [long |-> "count", short |-> "c"]>>
Positional == <<"path2", "path">>
NoValue == "none"
Arguments ==
  [dashes : {1, 2}, name : {"count", "c", "help", ""}, value : {NoValue, "10"}]
    \union [dashes : {0}, name : {"x", "y"}, value : {NoValue}]
CmdLineInit ==
  /\ class = "cmdline" /\ pc = <<>>
  /\ obj = [store |-> NoSettings, positional |-> Positional, given |-> <<>>]
(* The first named option the name is of.                                   *)
OptionOf(arg) ==
  LET fits == {i \in DOMAIN Named :
                 arg.name = (IF arg.dashes = 2 THEN Named[i].long ELSE Named[i].short)}
  IN IF fits = {} THEN <<>> ELSE <<Named[CHOOSE i \in fits : \A j \in fits : i <= j].long>>
doParse(arg) ==
  IF arg.dashes > 0
  THEN IF OptionOf(arg) = <<>> THEN obj
       ELSE [obj EXCEPT !.store = With1(@, OptionOf(arg)[1], IF arg.value = NoValue THEN "" ELSE arg.value)]
  ELSE IF obj.positional = <<>> THEN obj
  ELSE [obj EXCEPT !.store = With1(@, Head(obj.positional), arg.name), !.positional = Tail(@)]
parseArg ==
  /\ class = "cmdline" /\ Len(obj.given) < MaxArgs
  /\ \E arg \in Arguments :
       LET o == doParse(arg) IN obj' = [o EXCEPT !.given = Append(@, arg)]
  /\ Stay

(* An option has the last value it was given by one of its names, options   *)
(* by position the arguments without dashes, in order, and no other option  *)
(* has any.  A dash alone is the name of the first option without a short   *)
(* one.                                                                     *)
CmdLineExact ==
  class = "cmdline" =>
    LET plain == SelectSeq(obj.given, LAMBDA g : g.dashes = 0)
        Spelled(i) == {<<2, Named[i].long>>, <<1, Named[i].short>>}
        Gave(i) == {n \in DOMAIN obj.given : <<obj.given[n].dashes, obj.given[n].name>> \in Spelled(i)}
        Latest(S) == CHOOSE n \in S : \A m \in S : m <= n
    IN /\ DOMAIN obj.store = {Named[i].long : i \in {j \in DOMAIN Named : Gave(j) # {}}}
                               \union {Positional[i] : i \in DOMAIN plain \intersect DOMAIN Positional}
       /\ \A i \in DOMAIN Named : Gave(i) # {} =>
            obj.store[Named[i].long] = (LET v == obj.given[Latest(Gave(i))].value
                                        IN IF v = NoValue THEN "" ELSE v)
       /\ \A i \in DOMAIN plain \intersect DOMAIN Positional :
            obj.store[Positional[i]] = plain[i].name
=============================================================================
