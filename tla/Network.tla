------------------------------- MODULE Network -------------------------------
(***************************************************************************)
(* IP (src/network/IP.cpp), class "ip": the addresses an object gets from  *)
(* texts.  NetworkDevices (src/network/NetworkDevices.cpp), class "nics".  *)
(* Curl and HttpPost (src/network/Curl.cpp), class "curl".                 *)
(***************************************************************************)
EXTENDS Monitor, SequencesExt

CONSTANTS
  GroupCounts, \* bound: groups before and after "::"
  MaxTexts,    \* bound: texts that are parsed one after the other
  MaxAsked,    \* bound: calls on a Curl, and lists of devices
  MaxSockets   \* bound: sockets a process can have
ASSUME NetworkAssumption ==
  GroupCounts \subseteq Nat /\ MaxTexts \in Nat /\ MaxAsked \in Nat /\ MaxSockets \in Nat

-----------------------------------------------------------------------------
(* A text is a sequence of words: a colon, a dot, a percent sign, or a      *)
(* run of hexadecimal digits, where 16 is a letter that is none.            *)
Colon == <<-1>>
Dot == <<-2>>
Percent == <<-3>>
IsWord(w) == w \notin {Colon, Dot, Percent}
IsDecimal(w) == \A i \in DOMAIN w : w[i] \in 0..9
IsHex(w) == \A i \in DOMAIN w : w[i] \in 0..15
LengthOf(text) == FoldLeft(LAMBDA n, w : n + Len(w), 0, text)
DecimalOf(w) == FoldLeft(LAMBDA n, d : 10 * n + d, 0, w)

NoAddress == [version |-> "UNKNOWN", bytes |-> <<>>, scope |-> 0]

(* parseV4().                                                               *)
parseV4(text) ==
  LET numbers == SelectSeq(text, IsWord) IN
  IF /\ LengthOf(text) <= 15
     /\ Len(text) = 7
     /\ \A i \in DOMAIN text : IF i % 2 = 0 THEN text[i] = Dot ELSE IsWord(text[i]) /\ IsDecimal(text[i])
     /\ \A i \in DOMAIN numbers : Len(numbers[i]) <= 3 /\ DecimalOf(numbers[i]) <= 255
  THEN [NoAddress EXCEPT !.version = "V4", !.bytes = [i \in 1..4 |-> DecimalOf(numbers[i])]]
  ELSE NoAddress

(* The loop of parseV6(): the bytes written, how many of them stand before  *)
(* "::" (-1 without one), and the digits that are not written yet.          *)
V6Begin == [ok |-> TRUE, out |-> <<>>, first |-> -1, digits |-> <<>>, colons |-> 0,
          afterColon |-> FALSE, dots |-> 0, last |-> <<>>]
(* Four digits are two bytes; the mutant fills them up on the wrong side.   *)
PackedLeft(w) ==
  LET d == w \o [i \in 1..(4 - Len(w)) |-> 0] IN <<16 * d[1] + d[2], 16 * d[3] + d[4]>>
Packed(w) ==
  LET d == [i \in 1..(4 - Len(w)) |-> 0] \o w IN <<16 * d[1] + d[2], 16 * d[3] + d[4]>>
(* A number between dots: no zeros in front of 0.                           *)
WithNumber(p) ==
  IF /\ Len(p.digits) \in 1..3 /\ IsDecimal(p.digits)
     /\ DecimalOf(p.digits) \in 1..255 \/ p.digits = <<0>>
  THEN [p EXCEPT !.out = Append(@, DecimalOf(p.digits)), !.digits = <<>>]
  ELSE [p EXCEPT !.ok = FALSE]
WithGroup(p) ==
  IF p.digits = <<>> THEN p ELSE [p EXCEPT !.out = @ \o Packed(p.digits), !.digits = <<>>]
AfterDot(p) ==
  IF p.dots = 3 THEN [p EXCEPT !.ok = FALSE]
  ELSE WithNumber([p EXCEPT !.last = Dot, !.dots = @ + 1])
AfterColon(p) ==
  LET q == [WithGroup(p) EXCEPT !.last = Colon, !.colons = @ + 1] IN
  IF p.dots > 0 \/ (p.afterColon /\ p.first # -1) THEN [p EXCEPT !.ok = FALSE]
  ELSE IF p.afterColon THEN [q EXCEPT !.first = Len(q.out)]
  ELSE [q EXCEPT !.afterColon = TRUE]
AfterDigits(p, w) ==
  IF Len(w) > 4 \/ ~IsHex(w) THEN [p EXCEPT !.ok = FALSE]
  ELSE [p EXCEPT !.digits = w, !.afterColon = FALSE]
V6Step(p, w) ==
  IF ~p.ok THEN p
  ELSE IF w = Dot THEN AfterDot(p) ELSE IF w = Colon THEN AfterColon(p) ELSE AfterDigits(p, w)
V6End(p) ==
  IF ~p.ok \/ p.digits = <<>> THEN p
  ELSE IF p.last = Colon THEN WithGroup(p)
  ELSE IF p.last = Dot THEN WithNumber(p)
  ELSE [p EXCEPT !.ok = FALSE]
(* The zeros "::" stands for.  The count is unsigned in the code.           *)
Gap(p) == 16 - Len(p.out)
ZerosIn(p) ==
  IF p.first = -1 THEN p.out
  ELSE SubSeq(p.out, 1, p.first) \o [i \in 1..Gap(p) |-> 0] \o SubSeq(p.out, p.first + 1, Len(p.out))

(* What stands before a percent sign with digits behind it, and the scope.  *)
ScopeAt(text) ==
  {i \in DOMAIN text : text[i] = Percent /\ (i = Len(text) \/ (i + 1 = Len(text) /\ IsDecimal(text[i + 1])))}
AddressPart(text) == IF ScopeAt(text) = {} THEN text ELSE SubSeq(text, 1, (CHOOSE i \in ScopeAt(text) : TRUE) - 1)
ScopeOf(text) ==
  IF ScopeAt(text) = {} \/ text[Len(text)] = Percent THEN 0 ELSE DecimalOf(text[Len(text)])

SeparatorsRight(p) == p.ok /\ p.colons \in 2..7 /\ p.dots \in {0, 3}
parseV6(text) ==
  LET address == AddressPart(text)
      p == V6End(FoldLeft(V6Step, V6Begin, address))
  IN IF LengthOf(address) <= 39 /\ SeparatorsRight(p) /\ Len(ZerosIn(p)) = 16
     THEN [version |-> "V6", bytes |-> ZerosIn(p), scope |-> ScopeOf(text)]
     ELSE NoAddress

(* toString().                                                              *)
Figures[n \in Nat] == IF n < 10 THEN <<n>> ELSE Append(Figures[n \div 10], n % 10)
HexOf(b) == <<b \div 16, b % 16>>
ToText(ip) ==
  LET groups == [i \in 1..8 |-> HexOf(ip.bytes[2 * i - 1]) \o HexOf(ip.bytes[2 * i])]
      joined(words, delimiter) ==
        [i \in 1..(2 * Len(words) - 1) |-> IF i % 2 = 0 THEN delimiter ELSE words[(i + 1) \div 2]]
  IN IF ip.version = "V4" THEN joined([i \in 1..4 |-> Figures[ip.bytes[i]]], Dot)
     ELSE IF ip.version = "UNKNOWN" THEN <<>>
     ELSE joined(groups, Colon) \o (IF ip.scope = 0 THEN <<>> ELSE <<Percent, Figures[ip.scope]>>)
(* toBuffer(): four bytes, 16, or 20 with the scope.                        *)
BufferOf(ip) ==
  IF ip.version = "V6" /\ ip.scope # 0 THEN ip.bytes \o <<0, 0, 0, ip.scope>> ELSE ip.bytes

(* The texts: groups, "::", more groups, numbers with dots, a scope, and    *)
(* what spoils a text.                                                      *)
GroupRow(n, w) == FlattenSeq([i \in 1..n |-> IF i = 1 THEN <<w>> ELSE <<Colon, w>>])
Tails == {<<>>, <<<<1>>, Dot, <<2>>, Dot, <<3>>, Dot, <<2, 5, 5>>>>, <<<<1>>, Dot, <<2>>, Dot, <<3>>, Dot>>,
          <<<<1>>, Dot, <<2>>, Dot, <<3>>>>, <<<<1>>, Dot, <<2, 5, 6>>, Dot, <<3>>, Dot, <<4>>>>,
          <<<<1>>, Dot, <<0, 0>>, Dot, <<3>>, Dot, <<4>>>>, <<<<2, 5, 5>>, Dot, <<2, 5, 5>>, Dot, <<2, 5, 5>>, Dot, <<2, 5, 5>>>>,
          <<<<1>>, Dot, <<2>>, Dot, <<3>>, Dot, <<4>>, Dot, <<5>>>>}
Words == {<<1>>, <<10, 11, 12, 13>>, <<1, 2, 3, 4, 5>>, <<16>>}
Scopes == {<<>>, <<Percent>>, <<Percent, <<5>>>>, <<Percent, <<5, 16>>>>}
Texts6 ==
  [n : GroupCounts, m : GroupCounts, word : {<<1>>, <<10, 11, 12, 13>>}, other : Words, double : BOOLEAN, tail : Tails,
   ends : {"", "colon first", "colon last"}, scope : Scopes]
Sensible(t) ==
  /\ ~t.double => t.m = 0
  /\ t.n + t.m <= 8
  /\ t.other # t.word => t.n > 0 /\ t.tail = <<>> /\ t.ends = ""
  /\ t.scope # <<>> => t.other = t.word /\ t.ends = ""
(* The last group is the other word, for one that is too long or no number. *)
Body(t) ==
  LET before == IF t.other = t.word THEN GroupRow(t.n, t.word) ELSE Append(Front(GroupRow(t.n, t.word)), t.other)
      after == GroupRow(t.m, t.word)
      middle == IF t.double THEN <<Colon, Colon>> ELSE <<>>
      gap == IF t.tail # <<>> /\ (IF t.double THEN t.m ELSE t.n) > 0 THEN <<Colon>> ELSE <<>>
  IN before \o middle \o after \o gap \o t.tail
TextOfAddress(t) ==
  (IF t.ends = "colon first" THEN <<Colon>> ELSE <<>>) \o Body(t)
    \o (IF t.ends = "colon last" THEN <<Colon>> ELSE <<>>) \o t.scope

IpInit == class = "ip" /\ pc = <<>> /\ obj = [ip |-> NoAddress, of |-> {}, texts |-> 0, host |-> NoAddress]
(* The name service: nothing, an address of four bytes or of sixteen.       *)
Hosts == {NoAddress, [version |-> "V4", bytes |-> <<10, 0, 0, 1>>, scope |-> 0],
          [version |-> "V6", bytes |-> <<32, 1>> \o [i \in 1..13 |-> 0] \o <<1>>, scope |-> 0]}
(* parse(), the constructor and operator=: nothing stays of what was there. *)
Parsed(text, host) ==
  LET v4 == parseV4(text)
      v6 == parseV6(text)
  IN IF text = <<>> THEN NoAddress
     ELSE IF v4 # NoAddress THEN v4 ELSE IF v6 # NoAddress THEN v6
     ELSE IF parseV4(ToText(host)) # NoAddress THEN parseV4(ToText(host)) ELSE parseV6(ToText(host))
ipParse ==
  /\ class = "ip" /\ obj.texts < MaxTexts
  /\ \E t \in {u \in Texts6 : Sensible(u)}, host \in Hosts :
       /\ host # NoAddress => t.word = <<1>> /\ t.scope = <<>>
       /\ obj' = [ip |-> Parsed(TextOfAddress(t), host), of |-> {t}, texts |-> obj.texts + 1, host |-> host]
  /\ Stay
(* The address another object gets from the text of this one.               *)
ipAgain ==
  /\ class = "ip" /\ obj.texts = MaxTexts
  /\ obj' = [obj EXCEPT !.ip = Parsed(ToText(@), NoAddress), !.of = {}, !.texts = @ + 1, !.host = obj.ip]
  /\ Stay
ipClear ==
  /\ class = "ip" /\ obj.texts < MaxTexts
  /\ obj' = [ip |-> NoAddress, of |-> {}, texts |-> obj.texts + 1, host |-> NoAddress]
  /\ Stay
IpNext == ipParse \/ ipAgain \/ ipClear

(* What the notation says of a text: eight groups, numbers with dots for    *)
(* two of them, "::" for one group or more that are 0.                      *)
Numbers(t) == t.tail # <<>>
GroupsOf(t) == t.n + t.m + (IF Numbers(t) THEN 2 ELSE 0)
WellFormed(t) ==
  /\ t.ends = "" /\ t.other \in {<<1>>, <<10, 11, 12, 13>>} /\ t.scope # <<Percent, <<5, 16>>>>
  /\ Numbers(t) => parseV4(t.tail) # NoAddress /\ t.tail[3] # <<0, 0>>
  /\ IF t.double THEN GroupsOf(t) <= 7 ELSE GroupsOf(t) = 8
AddressBytes(t) ==
  LET bytes(n, w) == FlattenSeq([i \in 1..n |-> IF w = <<1>> THEN <<0, 1>> ELSE <<171, 205>>])
  IN (IF t.n = 0 THEN <<>> ELSE bytes(t.n - 1, t.word) \o bytes(1, t.other))
     \o [i \in 1..(16 - 2 * GroupsOf(t)) |-> 0] \o bytes(t.m, t.word)
     \o (IF Numbers(t) THEN [i \in 1..4 |-> DecimalOf(t.tail[2 * i - 1])] ELSE <<>>)
(* What the code refuses although it is well formed: an address longer than *)
(* 39 characters, and eight colons, where "::" is first or last.            *)
Refused(t) == LengthOf(Body(t)) > 39 \/ (t.double /\ GroupsOf(t) = 7 /\ (t.n = 0 \/ (t.m = 0 /\ ~Numbers(t))))

(* Every well-formed text of an address gives that address and its scope;   *)
(* but for one more colon at an end, a dot without its number, or "::" for  *)
(* no group, nothing else gives one, and what was there before is gone.     *)
(* The text of an address gives the same address again, with its scope.     *)
AddressExact ==
  class = "ip" =>
    /\ obj.ip.version # "UNKNOWN" => Len(BufferOf(obj.ip)) \in {4, 16, 20}
    /\ \A t \in obj.of :
         LET ip == obj.ip IN
         /\ WellFormed(t) /\ ~Refused(t) =>
              ip = [version |-> "V6", bytes |-> AddressBytes(t), scope |-> IF t.scope = <<Percent, <<5>>>> THEN 5 ELSE 0]
         /\ t.n + t.m = 0 /\ ~t.double /\ t.ends = "" /\ t.scope = <<>> /\ parseV4(t.tail) # NoAddress =>
              ip.version = "V4" /\ ip.bytes = [i \in 1..4 |-> DecimalOf(t.tail[2 * i - 1])]
         /\ ip.version = "V6" /\ ~WellFormed(t) =>
              ip = obj.host \/ t.ends # "" \/ (Numbers(t) /\ Last(t.tail) = Dot) \/ (t.double /\ GroupsOf(t) = 8)
         /\ ip.version # "UNKNOWN" => parseV4(TextOfAddress(t)) = ip \/ parseV6(TextOfAddress(t)) = ip \/ ip = obj.host
    /\ obj.texts > MaxTexts => obj.ip = obj.host

-----------------------------------------------------------------------------
(* ListDevices() of Linux.  An interface has its name, whether it runs, and *)
(* the addresses of it, each with the family: "link" for the hardware.  The *)
(* system gives one entry per address.  A mask may be absent.               *)
Entry(names, families, runs, masks) == [name : names, family : families, runs : runs, mask : masks]
FirstEntries == Entry({"lo"}, {"link", "v4"}, {TRUE}, {TRUE})
MiddleEntries == Entry({"eth"}, {"v4", "v6"}, BOOLEAN, BOOLEAN)
LastEntries ==
  Entry({"lo"}, {"v6"}, {TRUE}, BOOLEAN) \union Entry({"ppp"}, {"none"}, {TRUE}, {TRUE})
    \union Entry({"lo"}, {"link"}, {TRUE}, {TRUE})
EntryLists ==
  {<<x, y, z>> : x \in FirstEntries, y \in MiddleEntries, z \in LastEntries} \union {<<x>> : x \in MiddleEntries}
NicsObj == [devices |-> <<>>, entries |-> <<>>, at |-> 0, sockets |-> 0, asked |-> 0]
NicsInit == class = "nics" /\ pc = <<>> /\ obj = NicsObj

(* _getMAC(): the socket is closed only when the system does not answer.    *)
Mac(o, answers) == IF answers /\ o.sockets < MaxSockets THEN "mac" ELSE ""
Places(devices, name) == {i \in DOMAIN devices : devices[i].name = name}
WithDevice(o, e, answers) ==
  IF Places(o.devices, e.name) # {} THEN o
  ELSE [o EXCEPT !.devices = Append(@, [name |-> e.name, mac |-> Mac(o, answers), ips |-> <<>>]),
                 !.sockets = IF Mac(o, answers) = "mac" THEN @ + 1 ELSE @]
(* The mutant appends to the device that was made last.                     *)
WithEntryLast(o, e, answers) ==
  LET known == WithDevice(o, e, answers)
  IN IF e.family = "none" \/ ~e.runs THEN o
     ELSE IF e.family = "link" \/ ~e.mask THEN known
     ELSE [known EXCEPT !.devices[Len(known.devices)].ips = Append(@, e.family)]
(* An address goes to the device that has its name.                         *)
WithEntry(o, e, answers) ==
  LET known == WithDevice(o, e, answers)
      at == CHOOSE i \in Places(known.devices, e.name) : TRUE
  IN IF e.family = "none" \/ ~e.runs THEN o
     ELSE IF e.family = "link" \/ ~e.mask THEN known
     ELSE [known EXCEPT !.devices[at].ips = Append(@, e.family)]
(* A call begins with the list of the system; then the loop over it.        *)
ListDevices ==
  /\ class = "nics" /\ obj.at = Len(obj.entries) /\ obj.asked < MaxAsked
  /\ \E entries \in EntryLists :
       obj' = [obj EXCEPT !.devices = <<>>, !.entries = entries, !.at = 0, !.asked = @ + 1]
  /\ Stay
nextEntry ==
  /\ class = "nics" /\ obj.at < Len(obj.entries)
  /\ \E answers \in BOOLEAN :
       obj' = [WithEntry(obj, obj.entries[obj.at + 1], answers) EXCEPT !.at = obj.at + 1]
  /\ Stay
NicsNext == ListDevices \/ nextEntry

(* The addresses the system gave so far for an interface, but for those     *)
(* without a mask, and that the list of a device has them in their order.   *)
OwnEntries(o, name) ==
  {k \in 1..o.at : o.entries[k].name = name /\ o.entries[k].runs /\ o.entries[k].mask
                     /\ o.entries[k].family \in {"v4", "v6"}}
HasOwn(o, d) ==
  \E from \in [1..Len(d.ips) -> OwnEntries(o, d.name)] :
    /\ \A i \in 1..Len(d.ips) : d.ips[i] = o.entries[from[i]].family
    /\ \A i, j \in 1..Len(d.ips) : i < j => from[i] < from[j]
    /\ \A k \in OwnEntries(o, d.name) : \E i \in 1..Len(d.ips) : from[i] = k
(* Every interface that runs is listed once, with the addresses the system  *)
(* gave for it, in their order, but for those without a mask.  A socket     *)
(* stays open for every device whose hardware address was read, until there *)
(* are no more: then hardware addresses are missing.                        *)
DevicesExact ==
  class = "nics" =>
    /\ \A i \in DOMAIN obj.devices : HasOwn(obj, obj.devices[i])
    /\ \A i, j \in DOMAIN obj.devices : obj.devices[i].name = obj.devices[j].name => i = j
    /\ {obj.devices[i].name : i \in DOMAIN obj.devices}
         = {obj.entries[k].name : k \in {k \in 1..obj.at : obj.entries[k].runs /\ obj.entries[k].family # "none"}}
    /\ obj.sockets >= Cardinality({i \in DOMAIN obj.devices : obj.devices[i].mac = "mac"})

-----------------------------------------------------------------------------
(* A Curl, and HttpPost with the fields of its form.  The handle of libcurl *)
(* has the options; list is what the option for headers points to.  want is *)
(* what the caller asked for since the constructor or reset().              *)
Stream == {"own", "callers"}
Defaults == [url |-> "", method |-> "", body |-> FALSE, timeouts |-> FALSE, out |-> "stdout", form |-> 0]
CurlInit ==
  /\ class = "curl" /\ pc = <<>>
  /\ \E post \in BOOLEAN :
       obj = [post |-> post, options |-> [Defaults EXCEPT !.timeouts = TRUE, !.out = "own"],
              headers |-> IF post THEN <<"Expect">> ELSE <<>>, form |-> 0, out |-> "own", calls |-> 0,
              streams |-> [s \in Stream |-> <<>>], sent |-> {}, last |-> "own",
              want |-> [url |-> "", method |-> "", body |-> FALSE, headers |-> {}, fields |-> 0]]
CurlAt == class = "curl" /\ obj.calls < MaxAsked
CurlCalled(o) == obj' = [o EXCEPT !.calls = @ + 1, !.sent = {}] /\ Stay
setUrl == CurlAt /\ CurlCalled([obj EXCEPT !.options.url = "url", !.want.url = "url"])
(* setHeaders(), setContentType().                                          *)
setHeaders ==
  CurlAt /\ \E h \in {"type", "auth"} :
    CurlCalled([obj EXCEPT !.headers = Append(@, h), !.want.headers = @ \union {h}])
setBody == CurlAt /\ CurlCalled([obj EXCEPT !.options.body = TRUE, !.want.body = TRUE])
setMethod ==
  CurlAt /\ \E m \in {"GET", "PUT"} : CurlCalled([obj EXCEPT !.options.method = m, !.want.method = m])
setOutputStream ==
  CurlAt /\ \E s \in Stream : CurlCalled([obj EXCEPT !.out = s, !.options.out = s, !.last = s])
(* setFormDatas(), setFormFile().                                           *)
setFormDatas == CurlAt /\ obj.post /\ CurlCalled([obj EXCEPT !.form = @ + 1, !.want.fields = @ + 1])
(* The mutant does not set the stream again.                                *)
WithoutStream(o) ==
  [o EXCEPT !.options = Defaults, !.streams["own"] = <<>>, !.out = "own"]
(* curl_easy_reset() forgets the timeouts too; headers and fields stay.     *)
AfterReset(o) ==
  [o EXCEPT !.options = [Defaults EXCEPT !.out = "own"], !.streams["own"] = <<>>, !.out = "own"]
reset ==
  /\ CurlAt
  /\ CurlCalled([AfterReset(obj) EXCEPT !.last = "own",
               !.want = [@ EXCEPT !.url = "", !.method = "", !.body = FALSE]])
(* perform(): what is sent, and what a server answers, in two pieces.       *)
Request(o) == [url |-> o.options.url, method |-> o.options.method, body |-> o.options.body,
               headers |-> o.headers, fields |-> IF o.post THEN o.form ELSE 0]
perform ==
  /\ CurlAt
  /\ \E answer \in {<<>>, <<"r">>, <<"r", "s">>} :
       LET o == [obj EXCEPT !.options.form = IF obj.post THEN obj.form ELSE 0]
           to == obj.options.out
           streams == IF to \in Stream THEN [obj.streams EXCEPT ![to] = @ \o answer] ELSE obj.streams
       IN obj' = [o EXCEPT !.calls = @ + 1, !.sent = {Request(o)}, !.streams = streams]
  /\ Stay
CurlNext == setUrl \/ setHeaders \/ setBody \/ setMethod \/ setOutputStream \/ setFormDatas \/ reset \/ perform

(* A request has what was asked for since the constructor, and since the    *)
(* last reset() where that forgets it: headers and fields of a form stay    *)
(* for the requests after it.  The answer goes to the stream given last.    *)
RequestExact ==
  class = "curl" =>
    /\ obj.options.out = obj.last /\ obj.out = obj.last
    /\ \A r \in obj.sent :
         /\ r.url = obj.want.url /\ r.method = obj.want.method /\ r.body = obj.want.body
         /\ r.fields = obj.want.fields
         /\ ToSet(r.headers) = obj.want.headers \union (IF obj.post THEN {"Expect"} ELSE {})
=============================================================================
