------------------------------- MODULE Packets -------------------------------
(***************************************************************************)
(* What is sent in one piece and parsed at the other end: "cli", a command *)
(* as CliPacket writes and reads it and CliService hands it out;           *)
(* "cliresult", the answer (src/cli); "rtp", RtpPacket                     *)
(* (src/rtp/RtpPacket.cpp).  What is not compiled is left out.             *)
(***************************************************************************)
EXTENDS Texts

CONSTANTS
  MaxValue,  \* bound: characters of a member's value, where it is the only one
  MaxPayload \* bound: bytes behind the header of an RTP packet, and of its padding

-----------------------------------------------------------------------------
(* CliPacket.  A member is a number or a string.                            *)
ValidChars == {"a", "A", "b", "B", "1", "_"}
Numeral(value) == value.vt = "INT"
NoMembers == [k \in {} |-> <<>>]
Inserted(members, key, value) ==
  IF key \in DOMAIN members THEN members
  ELSE [k \in DOMAIN members \union {key} |-> IF k = key THEN value ELSE members[k]]
Packet(action, o, members) == [action |-> action, obj |-> o, members |-> members]
Reset == Packet(<<>>, <<>>, NoMembers)

(* Members are written by their keys: <<"a">> before <<"b">>.               *)
Quoted(value) ==
  LET text == ReplaceAllOf(value.text, <<"\"">>, <<"\\", "\"">>, FALSE)
  IN IF Numeral(value) THEN text ELSE <<"\"">> \o text \o <<"\"">>
toString(p) ==
  LET keys == SelectSeq(<<<<"a">>, <<"b">>>>, LAMBDA k : k \in DOMAIN p.members)
      Member(k) == k \o <<"=">> \o Quoted(p.members[k])
  IN IF p.action = <<>> THEN <<>>
     ELSE p.action \o (IF p.obj = <<>> THEN <<>> ELSE <<" ">> \o p.obj)
            \o (IF keys = <<>> THEN <<>> ELSE <<" ">>)
            \o join([i \in DOMAIN keys |-> Member(keys[i])], <<",">>) \o <<";">>

(* One character of the members, and whether it is the last.                *)
InName(s, c) ==
  IF c = "=" THEN [s EXCEPT !.key = s.str, !.naming = FALSE, !.str = <<>>]
  ELSE IF c \in Blanks THEN s ELSE [s EXCEPT !.str = Append(@, c)]
InQuotesUnescaped(s, c, last) ==
  IF c = "\"" \/ last THEN [s EXCEPT !.value = s.str, !.quoted = FALSE]
  ELSE [s EXCEPT !.str = Append(@, c)]
InQuotes(s, c, last) ==
  IF s.escaped THEN [s EXCEPT !.str = Append(@, c), !.escaped = FALSE]
  ELSE IF c = "\\" THEN [s EXCEPT !.escaped = TRUE]
  ELSE IF c = "\"" \/ last THEN [s EXCEPT !.value = s.str, !.quoted = FALSE]
  ELSE [s EXCEPT !.str = Append(@, c)]
InValue(s, c, last) ==
  IF c \in Blanks THEN s
  ELSE IF c = "\"" THEN [s EXCEPT !.quoted = TRUE]
  ELSE IF c = "," \/ last
  THEN LET value == IF c = "," THEN s.str ELSE Append(s.str, c)
       IN [naming |-> TRUE, quoted |-> FALSE, escaped |-> s.escaped, str |-> <<>>, key |-> <<>>,
           value |-> <<>>, members |-> Inserted(s.members, TrimCopy(s.key), value)]
  ELSE [s EXCEPT !.str = Append(@, c)]
ParsedMembers(cmd, from) ==
  LET start == [naming |-> TRUE, quoted |-> FALSE, escaped |-> FALSE, str |-> <<>>, key |-> <<>>,
                value |-> <<>>, members |-> NoMembers]
      Step(s, i) == IF s.naming THEN InName(s, cmd[i])
                    ELSE IF s.quoted THEN InQuotes(s, cmd[i], i = Len(cmd))
                    ELSE InValue(s, cmd[i], i = Len(cmd))
      end == FoldLeft(Step, start, [i \in 1..Len(cmd) - from + 1 |-> from + i - 1])
  IN IF end.key = <<>> THEN end.members ELSE Inserted(end.members, TrimCopy(end.key), end.value)
(* Without an object the members follow the action.                         *)
parse(cmdLine) ==
  LET trimmed == TrimCopy(cmdLine)
      cmd == IF trimmed # <<>> /\ Last(trimmed) = ";" THEN Front(trimmed) ELSE trimmed
      begin == FirstPlace(cmd, 1, LAMBDA c : c \notin Blanks)
      action == FirstPlace(cmd, begin, LAMBDA c : c \notin ValidChars)
      next == FirstPlace(cmd, action, LAMBDA c : c \notin Blanks)
      word == FirstPlace(cmd, next, LAMBDA c : c \notin ValidChars)
      isObj == word > Len(cmd) \/ cmd[word] \in Blanks
      members == IF isObj THEN FirstPlace(cmd, word, LAMBDA c : c \notin Blanks) ELSE next
  IN IF cmd = <<>> \/ (action <= Len(cmd) /\ cmd[action] \notin Blanks)
     THEN [ok |-> FALSE, pkg |-> Reset]
     ELSE [ok |-> TRUE, pkg |-> Packet(SubSeq(cmd, begin, action - 1),
                                       IF isObj THEN SubSeq(cmd, next, word - 1) ELSE <<>>,
                                       ParsedMembers(cmd, members))]

CliChars == {"a", " ", ",", "=", ";", "\"", "\\"}
Strings(n) == {[vt |-> "STRING", text |-> t] : t \in TextsOf(CliChars, n)}
Number1 == [vt |-> "INT", text |-> <<"1">>]
Commands ==
  {[members EXCEPT !.action = <<"a">>] : members \in
     {Packet(<<>>, <<>>, (<<"a">> :> v)) : v \in Strings(MaxValue)}
       \union {Packet(<<>>, <<"b">>, (<<"a">> :> v) @@ (<<"b">> :> w)) :
                 v \in Strings(1) \union {Number1}, w \in Strings(1) \union {Number1}}}
    \union {Packet(action, o, NoMembers) :
              action \in {<<>>, <<" ", "A", "b">>}, o \in {<<>>, <<"B", " ">>, <<"b", "b">>}}

(* The sender's packet; the handlers of the receiver, by (action, object);  *)
(* the receiver's packet, which it parses into again; who handled it.       *)
Handlers == {<<<<"a">>, <<>>>>, <<<<"a">>, <<"b">>>>, <<<<"a", "b">>, <<"b">>>>}
CliInit ==
  /\ class = "cli" /\ pc = <<>>
  /\ \E p \in Commands :
       obj = [sent |-> Packet(TrimCopy(p.action), TrimCopy(p.obj), p.members), line |-> <<>>,
              handlers |-> {}, state |-> "made", got |-> Packet(<<"b">>, <<"b">>, NoMembers),
              by |-> <<>>]
registerCliHandler ==
  /\ class = "cli" /\ obj.state = "made"
  /\ \E h \in Handlers : obj' = [obj EXCEPT !.handlers = @ \union {h}]
  /\ Stay
cliSend ==
  /\ class = "cli" /\ obj.state = "made"
  /\ obj' = [obj EXCEPT !.line = toString(obj.sent), !.state = "sent"] /\ Stay
cliReceive ==
  /\ class = "cli" /\ obj.state = "sent"
  /\ LET r == parse(obj.line) IN
     obj' = [obj EXCEPT !.got = r.pkg, !.state = IF r.ok THEN "parsed" ELSE "refused"]
  /\ Stay
handleCmd ==
  /\ class = "cli" /\ obj.state = "parsed"
  /\ LET exact == <<ToLower(obj.got.action), ToLower(obj.got.obj)>>
         general == <<exact[1], <<>>>>
     IN obj' = [obj EXCEPT !.state = "handled",
                           !.by = IF exact \in obj.handlers THEN exact
                                  ELSE IF general \in obj.handlers THEN general ELSE <<>>]
  /\ Stay
CliNext == registerCliHandler \/ cliSend \/ cliReceive \/ handleCmd

(* A command arrives as it was sent, its numbers as texts, and is handled   *)
(* by the handler of its object before that of its action.  Backslashes are *)
(* not escaped: a value with one arrives as another.                        *)
CliExact ==
  class = "cli" =>
    /\ obj.state \in {"parsed", "handled"}
         /\ (\A k \in DOMAIN obj.sent.members :
               \A i \in DOMAIN obj.sent.members[k].text : obj.sent.members[k].text[i] # "\\") =>
         obj.got = [obj.sent EXCEPT !.members = [k \in DOMAIN @ |-> @[k].text]]
    /\ obj.state = "refused" => obj.sent.action = <<>> /\ obj.got = Reset
    /\ obj.state = "handled" =>
         LET words == <<ToLower(obj.sent.action), ToLower(obj.sent.obj)>>
             fitting == {h \in obj.handlers : h[1] = words[1] /\ h[2] \in {words[2], <<>>}}
         IN \/ fitting = {} /\ obj.by = <<>>
            \/ obj.by \in fitting /\ \A h \in fitting : h[2] = <<>> \/ h = obj.by

-----------------------------------------------------------------------------
(* CliResult: a code and a text, on one line.  Reading it stops at a blank, *)
(* and keeps the text of the result before if there is none.                *)
NewLine == <<"\\", "n">>
resultToString(r) == r.code \o <<" ">> \o ReplaceAllOf(r.data, <<"\n">>, NewLine, FALSE)
WordAt(s, from) ==
  LET begin == FirstPlace(s, from, LAMBDA c : c \notin Blanks)
      end == FirstPlace(s, begin, LAMBDA c : c \in Blanks)
  IN SubSeq(s, begin, end - 1)
DataOf(line, old) ==
  LET word == WordAt(line, FirstPlace(line, 1, LAMBDA c : c \in Blanks))
  IN ReplaceAllOf(IF word = <<>> THEN old ELSE word, NewLine, <<"\n">>, FALSE)
ResultInit ==
  /\ class = "cliresult" /\ pc = <<>>
  /\ obj = [sent |-> [code |-> <<"0">>, data |-> <<>>], got |-> [code |-> <<"0">>, data |-> <<>>],
            old |-> <<>>]
resultSend ==
  /\ class = "cliresult"
  /\ \E code \in {<<"0">>, <<"1", "2">>}, data \in TextsOf({"n", " ", "\n", "\\"}, 2) :
       LET line == resultToString([code |-> code, data |-> data]) IN
       obj' = [sent |-> [code |-> code, data |-> data], old |-> obj.got.data,
               got |-> [code |-> WordAt(line, 1), data |-> DataOf(line, obj.got.data)]]
  /\ Stay

(* What comes out is what went in, line breaks included, if there is no     *)
(* other blank in it and no backslash, and it is not empty: then the data   *)
(* of the result before stay, which only an n behind a backslash changes.   *)
ResultExact ==
  class = "cliresult" =>
    LET data == obj.sent.data
    IN /\ obj.got.code = obj.sent.code
       /\ data # <<>> /\ {data[i] : i \in DOMAIN data} \intersect {" ", "\\"} = {} => obj.got.data = data
       /\ data = <<>> /\ Found(obj.old, NewLine, 1) = 0 => obj.got.data = obj.old

-----------------------------------------------------------------------------
(* RtpPacket.  A packet is its header's fields, the sizes of what follows,  *)
(* and how much of it arrives.                                              *)
HeaderSize == 12
ExtensionHeaderSize == 4
RTP_VERSION == 2
Senders == {200 % 128, 201 % 128} \* the types of RTCP in seven bits
NetworkOrder(n) == <<n \div 256, n % 256>>
HostOrder(bytes) == 256 * bytes[1] + bytes[2]
Whole(h) ==
  HeaderSize + 4 * h.csrcCount + (IF h.extension = 1 THEN ExtensionHeaderSize + 4 * h.extended ELSE 0)
    + h.body + h.pad
Headers ==
  {[version |-> v, marker |-> m, payloadType |-> t, csrcCount |-> c, extension |-> x, extended |-> e,
    padding |-> p, pad |-> IF p = 1 THEN n ELSE 0, body |-> b, sequenceNumber |-> NetworkOrder(s)] :
     v \in 1..2, m \in 0..1, t \in {0, 72}, c \in {0, 2}, x \in 0..1, e \in 0..1, p \in 0..1,
     n \in 1..MaxPayload, b \in 0..MaxPayload, s \in {258}}
(* The object holds a packet that arrived before.                           *)
RtpInit ==
  /\ class = "rtp" /\ pc = <<>>
  /\ obj = [sent |-> <<>>, len |-> 0, last |-> 0,
            data |-> CHOOSE h \in Headers : h.csrcCount = 2 /\ h.body > 0, length |-> 0, offset |-> 0]

(* The extension's length as it is read, which may be behind the end.       *)
Lengths(h, len) ==
  IF HeaderSize + 4 * h.csrcCount + ExtensionHeaderSize <= len THEN {h.extended} ELSE {0, 1, 9}
OffsetWithoutSources(h, read) ==
  HeaderSize + (IF h.extension = 1 THEN ExtensionHeaderSize + 4 * read ELSE 0)
getPayloadOffset(h, read) ==
  HeaderSize + 4 * h.csrcCount + (IF h.extension = 1 THEN ExtensionHeaderSize + 4 * read ELSE 0)
(* The length of the payload is compared with 0 as an unsigned number.      *)
Accepted(h, len, last) ==
  /\ len >= HeaderSize
  /\ h.version = RTP_VERSION
  /\ ~(h.marker = 1 /\ h.payloadType \in Senders)
  /\ h.padding = 1 => last > 0
(* A packet arrives, or the first bytes of it, and is parsed; then its      *)
(* lengths are asked for.  Negative stands for the number modulo 2^32.      *)
rtpReceive ==
  /\ class = "rtp" /\ obj.sent = <<>> /\ obj.len = 0
  /\ \E h \in Headers : \E len \in {8, HeaderSize, Whole(h) - 1, Whole(h)} :
       \E last \in IF len = Whole(h) THEN {IF h.padding = 1 THEN h.pad ELSE 0} ELSE {0, 3} :
         obj' = IF Accepted(h, len, last)
                THEN [obj EXCEPT !.sent = h, !.len = len, !.last = last, !.data = h]
                ELSE [obj EXCEPT !.sent = h, !.len = len, !.last = last, !.data = <<>>]
  /\ Stay
rtpAsk ==
  /\ class = "rtp" /\ obj.sent # <<>>
  /\ \E read \in Lengths(obj.sent, obj.len) :
       LET padding == IF obj.sent.padding = 1 THEN obj.last ELSE 0
           offset == getPayloadOffset(obj.sent, read)
       IN obj' = IF obj.data = <<>> THEN [obj EXCEPT !.sent = <<>>, !.length = 0, !.offset = 0]
                 ELSE [obj EXCEPT !.sent = <<>>, !.offset = offset, !.length = obj.len - padding - offset]
  /\ Stay
RtpNext == rtpReceive \/ rtpAsk

(* A packet that arrived whole has the payload that was sent, behind its    *)
(* sources and its extension, and is refused only by its header; nothing is *)
(* left of the packet before where one is refused.                          *)
RtpExact ==
  class = "rtp" /\ obj.sent = <<>> /\ obj.len > 0 =>
    IF obj.data = <<>> THEN obj.length = 0 /\ obj.offset = 0
    ELSE obj.len = Whole(obj.data) =>
           /\ obj.length = obj.data.body
           /\ obj.offset = Whole(obj.data) - obj.data.pad - obj.data.body
           /\ HostOrder(obj.data.sequenceNumber) = 258
=============================================================================
