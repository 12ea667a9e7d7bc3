----------------------------- MODULE DataProofs -----------------------------
(***************************************************************************)
(* The inductive invariants of the classes of MCObjects that hold data:    *)
(* Curl, the appenders, files, the settings, Variant, Buffer, the lists    *)
(* and what ADO says of a data base.  ObjectProofs has the theorem about   *)
(* all of them.                                                            *)
(***************************************************************************)
EXTENDS Network, Files, Settings, Values, Buffers, Stores, SequenceTheorems, FiniteSetTheorems, TLAPS

(* Curl.  The handle has what the caller asked for; the fields of a form    *)
(* are counted on both sides.                                               *)
Urls == {"", "url"}
Methods == {"", "GET", "PUT"}
HeaderNames == {"type", "auth", "Expect"}
CurlOptions ==
  [url : Urls, method : Methods, body : BOOLEAN, timeouts : BOOLEAN, out : Stream \union {"stdout"},
   form : Nat]
CurlWants == [url : Urls, method : Methods, body : BOOLEAN, headers : SUBSET HeaderNames, fields : Nat]
CurlTyped(o) ==
  /\ o = [post |-> o.post, options |-> o.options, headers |-> o.headers, form |-> o.form, out |-> o.out,
          calls |-> o.calls, streams |-> o.streams, sent |-> o.sent, last |-> o.last, want |-> o.want]
  /\ o.post \in BOOLEAN /\ o.options \in CurlOptions /\ o.headers \in Seq(HeaderNames)
  /\ o.form \in Nat /\ o.out \in Stream /\ o.last \in Stream /\ o.want \in CurlWants
Matching(post, options, want, hs, form, stream) ==
  /\ options.body = want.body /\ options.out = stream /\ options.url = want.url
  /\ options.method = want.method /\ form = want.fields /\ (~post => form = 0)
  /\ ToSet(hs) = want.headers \union (IF post THEN {"Expect"} ELSE {})
AsAsked(o) ==
  Matching(o.post, o.options, o.want, o.headers, o.form, o.out) /\ o.last = o.out
SentAsAsked(o) ==
  \A r \in o.sent :
    /\ r.url = o.want.url /\ r.method = o.want.method /\ r.body = o.want.body
    /\ r.fields = o.want.fields
    /\ ToSet(r.headers) = o.want.headers \union (IF o.post THEN {"Expect"} ELSE {})
CurlInv == CurlTyped(obj) /\ AsAsked(obj) /\ SentAsAsked(obj)

LEMMA CurlHeld == CurlInv => RequestExact
  BY DEF CurlInv, RequestExact, AsAsked, Matching, SentAsAsked

LEMMA CurlInvInit == CurlInit => CurlInv
<1> SUFFICES ASSUME CurlInit PROVE CurlInv
  OBVIOUS
<1>1. PICK post \in BOOLEAN :
        obj = [post |-> post, options |-> [Defaults EXCEPT !.timeouts = TRUE, !.out = "own"],
               headers |-> IF post THEN <<"Expect">> ELSE <<>>, form |-> 0, out |-> "own", calls |-> 0,
               streams |-> [s \in Stream |-> <<>>], sent |-> {}, last |-> "own",
               want |-> [url |-> "", method |-> "", body |-> FALSE, headers |-> {}, fields |-> 0]]
  BY DEF CurlInit
<1> DEFINE hs == IF post THEN <<"Expect">> ELSE <<>>
           options == [url |-> "", method |-> "", body |-> FALSE, timeouts |-> TRUE, out |-> "own", form |-> 0]
           want == [url |-> "", method |-> "", body |-> FALSE, headers |-> {}, fields |-> 0]
           streams == [s \in Stream |-> <<>>]
<1>2. hs \in Seq(HeaderNames) /\ ToSet(hs) = IF post THEN {"Expect"} ELSE {}
  <2>1. CASE post
    <3>1. DOMAIN <<"Expect">> = {1} /\ <<"Expect">>[1] = "Expect" /\ <<"Expect">> \in Seq(HeaderNames)
      BY DEF HeaderNames
    <3>2. QED
      BY <2>1, <3>1 DEF ToSet
  <2>2. CASE ~post
    <3>1. DOMAIN <<>> = {} /\ <<>> \in Seq(HeaderNames)
      OBVIOUS
    <3>2. QED
      BY <2>2, <3>1 DEF ToSet
  <2>3. QED
    BY <2>1, <2>2
<1>3. options \in CurlOptions /\ want \in CurlWants /\ "own" \in Stream
  BY DEF CurlOptions, CurlWants, Stream, Urls, Methods, HeaderNames
<1>4. obj = [post |-> post, options |-> options, headers |-> hs, form |-> 0, out |-> "own", calls |-> 0,
             streams |-> streams, sent |-> {}, last |-> "own", want |-> want]
  BY <1>1 DEF Defaults
<1> HIDE DEF streams
<1>5. Matching(post, options, want, hs, 0, "own")
  BY <1>2 DEF Matching
<1> HIDE DEF options, want, hs
<1>6. CurlTyped(obj)
  BY <1>2, <1>3, <1>4 DEF CurlTyped
<1>7. AsAsked(obj) /\ SentAsAsked(obj)
  BY <1>4, <1>5 DEF AsAsked, SentAsAsked
<1>8. QED
  BY <1>6, <1>7 DEF CurlInv

\* A call that has changed what it has to, and sends nothing.
LEMMA CurlCallKept ==
  ASSUME NEW o, CurlTyped(o), AsAsked(o), CurlCalled(o)
  PROVE  CurlInv'
<1>1. obj' = [o EXCEPT !.calls = o.calls + 1, !.sent = {}]
  BY DEF CurlCalled
<1>2. /\ CurlTyped(obj') /\ obj'.post = o.post /\ obj'.options = o.options /\ obj'.headers = o.headers
      /\ obj'.form = o.form /\ obj'.out = o.out /\ obj'.last = o.last /\ obj'.want = o.want
      /\ obj'.sent = {}
  BY <1>1 DEF CurlTyped
<1>3. AsAsked(obj') /\ SentAsAsked(obj')
  BY <1>2 DEF AsAsked, SentAsAsked
<1>4. QED
  BY <1>2, <1>3 DEF CurlInv

\* What may change between two requests: options and wants go together.
LEMMA CurlChanged ==
  ASSUME CurlInv, NEW options \in CurlOptions, NEW want \in CurlWants, NEW hs \in Seq(HeaderNames),
         NEW form \in Nat, NEW stream \in Stream, NEW streams,
         Matching(obj.post, options, want, hs, form, stream),
         CurlCalled([obj EXCEPT !.options = options, !.want = want, !.headers = hs, !.form = form,
                                !.out = stream, !.last = stream, !.streams = streams])
  PROVE  CurlInv'
<1> DEFINE o == [obj EXCEPT !.options = options, !.want = want, !.headers = hs, !.form = form,
                            !.out = stream, !.last = stream, !.streams = streams]
<1>1. CurlTyped(obj)
  BY DEF CurlInv
<1>2. o \in [post : {obj.post}, options : {options}, headers : {hs}, form : {form}, out : {stream},
            calls : {obj.calls}, streams : {streams}, sent : {obj.sent}, last : {stream}, want : {want}]
  BY <1>1 DEF CurlTyped
<1>a. /\ CurlTyped(o) /\ o.post = obj.post /\ o.options = options /\ o.headers = hs /\ o.form = form
      /\ o.out = stream /\ o.last = stream /\ o.want = want
  <2> HIDE DEF o
  <2>1. QED
    BY <1>1, <1>2 DEF CurlTyped
<1>3. CurlCalled(o)
  OBVIOUS
<1> HIDE DEF o
<1>4. AsAsked(o)
  BY <1>a DEF AsAsked
<1>5. QED
  BY <1>a, <1>3, <1>4, CurlCallKept

LEMMA CurlStep == CurlInv /\ CurlNext => CurlInv'
<1> SUFFICES ASSUME CurlInv, CurlNext PROVE CurlInv'
  OBVIOUS
<1>a. CurlTyped(obj) /\ AsAsked(obj)
  BY DEF CurlInv
<1>b. /\ obj.options \in CurlOptions /\ obj.want \in CurlWants /\ obj.headers \in Seq(HeaderNames)
      /\ obj.form \in Nat /\ obj.out \in Stream /\ obj.last = obj.out
      /\ Matching(obj.post, obj.options, obj.want, obj.headers, obj.form, obj.out)
  BY <1>a DEF CurlTyped, AsAsked
<1>s. obj \in [post : {obj.post}, options : {obj.options}, headers : {obj.headers}, form : {obj.form},
              out : {obj.out}, calls : {obj.calls}, streams : {obj.streams}, sent : {obj.sent},
              last : {obj.last}, want : {obj.want}]
  BY <1>a DEF CurlTyped
<1>c. \A s \in Stream : s \in Stream \union {"stdout"}
  OBVIOUS
<1>1. CASE setUrl
  <2> DEFINE options == [obj.options EXCEPT !.url = "url"]
             want == [obj.want EXCEPT !.url = "url"]
             hs == obj.headers
             streams == obj.streams
  <2>1. CurlCalled([obj EXCEPT !.options.url = "url", !.want.url = "url"])
    BY <1>1 DEF setUrl
  <2>2. options \in CurlOptions /\ want \in CurlWants /\ hs \in Seq(HeaderNames)
    <3>1. options \in CurlOptions
      BY <1>b, <1>c DEF CurlOptions, Stream, Urls, Methods
    <3>2. want \in CurlWants
      BY <1>b DEF CurlWants, Urls, Methods
    <3>3. hs \in Seq(HeaderNames)
      BY <1>b DEF HeaderNames
    <3>4. QED
      BY <3>1, <3>2, <3>3
  <2>3. ToSet(hs) = want.headers \union (IF obj.post THEN {"Expect"} ELSE {})
    BY <1>b DEF Matching, CurlWants
  <2>4. Matching(obj.post, options, want, hs, obj.form, obj.out)
    BY <1>b, <2>1, <2>3 DEF CurlOptions, CurlWants, Matching
  <2>5. [obj EXCEPT !.options.url = "url", !.want.url = "url"]
          = [obj EXCEPT !.options = options, !.want = want, !.headers = hs, !.form = obj.form,
                        !.out = obj.out, !.last = obj.out, !.streams = streams]
    BY <1>a, <1>b DEF CurlTyped
  <2>a. obj.form \in Nat /\ obj.out \in Stream
    BY <1>b DEF Stream
  <2> HIDE DEF options, want, hs, streams
  <2>6. QED
    BY <2>1, <2>2, <2>3, <2>4, <2>5, <2>a, CurlChanged
<1>2. CASE setBody
  <2> DEFINE options == [obj.options EXCEPT !.body = TRUE]
             want == [obj.want EXCEPT !.body = TRUE]
             hs == obj.headers
             streams == obj.streams
  <2>1. CurlCalled([obj EXCEPT !.options.body = TRUE, !.want.body = TRUE])
    BY <1>2 DEF setBody
  <2>2. options \in CurlOptions /\ want \in CurlWants /\ hs \in Seq(HeaderNames)
    <3>1. options \in CurlOptions
      BY <1>b, <1>c DEF CurlOptions, Stream, Urls, Methods
    <3>2. want \in CurlWants
      BY <1>b DEF CurlWants, Urls, Methods
    <3>3. hs \in Seq(HeaderNames)
      BY <1>b DEF HeaderNames
    <3>4. QED
      BY <3>1, <3>2, <3>3
  <2>3. ToSet(hs) = want.headers \union (IF obj.post THEN {"Expect"} ELSE {})
    BY <1>b DEF Matching, CurlWants
  <2>4. Matching(obj.post, options, want, hs, obj.form, obj.out)
    BY <1>b, <2>1, <2>3 DEF CurlOptions, CurlWants, Matching
  <2>5. [obj EXCEPT !.options.body = TRUE, !.want.body = TRUE]
          = [obj EXCEPT !.options = options, !.want = want, !.headers = hs, !.form = obj.form,
                        !.out = obj.out, !.last = obj.out, !.streams = streams]
    BY <1>a, <1>b DEF CurlTyped
  <2>a. obj.form \in Nat /\ obj.out \in Stream
    BY <1>b DEF Stream
  <2> HIDE DEF options, want, hs, streams
  <2>6. QED
    BY <2>1, <2>2, <2>3, <2>4, <2>5, <2>a, CurlChanged
<1>3. ASSUME NEW m \in {"GET", "PUT"},
             CurlCalled([obj EXCEPT !.options.method = m, !.want.method = m])
      PROVE  CurlInv'
  <2> DEFINE options == [obj.options EXCEPT !.method = m]
             want == [obj.want EXCEPT !.method = m]
             hs == obj.headers
             streams == obj.streams
  <2>1. CurlCalled([obj EXCEPT !.options.method = m, !.want.method = m])
    BY <1>3
  <2>2. options \in CurlOptions /\ want \in CurlWants /\ hs \in Seq(HeaderNames)
    <3>1. options \in CurlOptions
      BY <1>b, <1>c DEF CurlOptions, Stream, Urls, Methods
    <3>2. want \in CurlWants
      BY <1>b DEF CurlWants, Urls, Methods
    <3>3. hs \in Seq(HeaderNames)
      BY <1>b DEF HeaderNames
    <3>4. QED
      BY <3>1, <3>2, <3>3
  <2>3. ToSet(hs) = want.headers \union (IF obj.post THEN {"Expect"} ELSE {})
    BY <1>b DEF Matching, CurlWants
  <2>4. Matching(obj.post, options, want, hs, obj.form, obj.out)
    BY <1>b, <2>1, <2>3 DEF CurlOptions, CurlWants, Matching
  <2>5. [obj EXCEPT !.options.method = m, !.want.method = m]
          = [obj EXCEPT !.options = options, !.want = want, !.headers = hs, !.form = obj.form,
                        !.out = obj.out, !.last = obj.out, !.streams = streams]
    BY <1>a, <1>b DEF CurlTyped
  <2>a. obj.form \in Nat /\ obj.out \in Stream
    BY <1>b DEF Stream
  <2> HIDE DEF options, want, hs, streams
  <2>6. QED
    BY <2>1, <2>2, <2>3, <2>4, <2>5, <2>a, CurlChanged
<1>4. ASSUME NEW s \in Stream,
             CurlCalled([obj EXCEPT !.out = s, !.options.out = s, !.last = s])
      PROVE  CurlInv'
  <2> DEFINE options == [obj.options EXCEPT !.out = s]
             want == obj.want
             hs == obj.headers
             streams == obj.streams
  <2>1. CurlCalled([obj EXCEPT !.out = s, !.options.out = s, !.last = s])
    BY <1>4
  <2>2. options \in CurlOptions /\ want \in CurlWants /\ hs \in Seq(HeaderNames)
    <3>1. options \in CurlOptions
      BY <1>b, <1>c DEF CurlOptions, Stream, Urls, Methods
    <3>2. want \in CurlWants
      BY <1>b DEF CurlWants, Urls, Methods
    <3>3. hs \in Seq(HeaderNames)
      BY <1>b DEF HeaderNames
    <3>4. QED
      BY <3>1, <3>2, <3>3
  <2>3. ToSet(hs) = want.headers \union (IF obj.post THEN {"Expect"} ELSE {})
    BY <1>b DEF Matching, CurlWants
  <2>4. Matching(obj.post, options, want, hs, obj.form, s)
    BY <1>b, <2>1, <2>3 DEF CurlOptions, CurlWants, Matching
  <2>5. [obj EXCEPT !.out = s, !.options.out = s, !.last = s]
          = [obj EXCEPT !.options = options, !.want = want, !.headers = hs, !.form = obj.form,
                        !.out = s, !.last = s, !.streams = streams]
    BY <1>a, <1>b DEF CurlTyped
  <2>a. obj.form \in Nat /\ s \in Stream
    BY <1>b DEF Stream
  <2> HIDE DEF options, want, hs, streams
  <2>6. QED
    BY <2>1, <2>2, <2>3, <2>4, <2>5, <2>a, CurlChanged
<1>5. CASE setFormDatas
  <2> DEFINE options == obj.options
             want == [obj.want EXCEPT !.fields = obj.want.fields + 1]
             hs == obj.headers
             streams == obj.streams
  <2>1. CurlCalled([obj EXCEPT !.form = @ + 1, !.want.fields = @ + 1]) /\ obj.post
    BY <1>5 DEF setFormDatas
  <2>2. options \in CurlOptions /\ want \in CurlWants /\ hs \in Seq(HeaderNames)
    <3>1. options \in CurlOptions
      BY <1>b, <1>c DEF CurlOptions, Stream, Urls, Methods
    <3>2. want \in CurlWants
      BY <1>b DEF CurlWants
    <3>3. hs \in Seq(HeaderNames)
      BY <1>b DEF HeaderNames
    <3>4. QED
      BY <3>1, <3>2, <3>3
  <2>3. ToSet(hs) = want.headers \union (IF obj.post THEN {"Expect"} ELSE {})
    BY <1>b DEF Matching, CurlWants
  <2>4. Matching(obj.post, options, want, hs, (obj.form + 1), obj.out)
    BY <1>b, <2>1, <2>3 DEF CurlOptions, CurlWants, Matching
  <2>5. [obj EXCEPT !.form = @ + 1, !.want.fields = @ + 1]
          = [obj EXCEPT !.options = options, !.want = want, !.headers = hs, !.form = (obj.form + 1),
                        !.out = obj.out, !.last = obj.out, !.streams = streams]
    BY <1>a, <1>b DEF CurlTyped
  <2>a. (obj.form + 1) \in Nat /\ obj.out \in Stream
    BY <1>b DEF Stream
  <2> HIDE DEF options, want, hs, streams
  <2>6. QED
    BY <2>1, <2>2, <2>3, <2>4, <2>5, <2>a, CurlChanged
<1>6. CASE reset
  <2> DEFINE options == [Defaults EXCEPT !.out = "own"]
             want == [obj.want EXCEPT !.url = "", !.method = "", !.body = FALSE]
             hs == obj.headers
             streams == [obj.streams EXCEPT !["own"] = <<>>]
  <2>1. CurlCalled([AfterReset(obj) EXCEPT !.last = "own",
                    !.want = [@ EXCEPT !.url = "", !.method = "", !.body = FALSE]])
    BY <1>6 DEF reset
  <2>2. options \in CurlOptions /\ want \in CurlWants /\ hs \in Seq(HeaderNames)
    <3>1. options \in CurlOptions
      BY <1>b, <1>c DEF CurlOptions, Stream, Urls, Methods, AfterReset, Defaults
    <3>2. want \in CurlWants
      BY <1>b DEF CurlWants, Urls, Methods
    <3>3. hs \in Seq(HeaderNames)
      BY <1>b DEF HeaderNames
    <3>4. QED
      BY <3>1, <3>2, <3>3
  <2>3. ToSet(hs) = want.headers \union (IF obj.post THEN {"Expect"} ELSE {})
    BY <1>b DEF Matching, CurlWants
  <2>4. Matching(obj.post, options, want, hs, obj.form, "own")
    BY <1>b, <2>1, <2>3 DEF CurlOptions, CurlWants, Matching, AfterReset, Defaults
  <2>5. [AfterReset(obj) EXCEPT !.last = "own",
                    !.want = [@ EXCEPT !.url = "", !.method = "", !.body = FALSE]]
          = [obj EXCEPT !.options = options, !.want = want, !.headers = hs, !.form = obj.form,
                        !.out = "own", !.last = "own", !.streams = streams]
    BY <1>a, <1>b DEF CurlTyped, AfterReset, Defaults
  <2>a. obj.form \in Nat /\ "own" \in Stream
    BY <1>b DEF Stream
  <2> HIDE DEF options, want, hs, streams
  <2>6. QED
    BY <2>1, <2>2, <2>3, <2>4, <2>5, <2>a, CurlChanged
<1>7. ASSUME NEW h \in {"type", "auth"},
             CurlCalled([obj EXCEPT !.headers = Append(@, h), !.want.headers = @ \union {h}])
      PROVE  CurlInv'
  <2> DEFINE options == obj.options
             want == [obj.want EXCEPT !.headers = obj.want.headers \union {h}]
             hs == Append(obj.headers, h)
             streams == obj.streams
  <2>1. CurlCalled([obj EXCEPT !.headers = Append(@, h), !.want.headers = @ \union {h}])
    BY <1>7
  <2>2. options \in CurlOptions /\ want \in CurlWants /\ hs \in Seq(HeaderNames)
    <3>1. options \in CurlOptions
      BY <1>b, <1>c DEF CurlOptions, Stream, Urls, Methods
    <3>2. want \in CurlWants
      BY <1>b DEF CurlWants, HeaderNames
    <3>3. hs \in Seq(HeaderNames)
      BY <1>b DEF HeaderNames
    <3>4. QED
      BY <3>1, <3>2, <3>3
  <2>3. ToSet(hs) = want.headers \union (IF obj.post THEN {"Expect"} ELSE {})
    <3>1. ToSet(hs) = ToSet(obj.headers) \union {h}
      <4>1. /\ DOMAIN hs = 1..(Len(obj.headers) + 1) /\ DOMAIN obj.headers = 1..Len(obj.headers)
            /\ \A i \in 1..Len(obj.headers) : hs[i] = obj.headers[i]
            /\ hs[Len(obj.headers) + 1] = h /\ Len(obj.headers) \in Nat
        BY <1>b
      <4>2. QED
        BY <4>1 DEF ToSet
    <3>2. QED
      BY <1>b, <3>1 DEF Matching, CurlWants
  <2>4. Matching(obj.post, options, want, hs, obj.form, obj.out)
    BY <1>b, <2>1, <2>3 DEF CurlOptions, CurlWants, Matching
  <2>5. [obj EXCEPT !.headers = Append(@, h), !.want.headers = @ \union {h}]
          = [obj EXCEPT !.options = options, !.want = want, !.headers = hs, !.form = obj.form,
                        !.out = obj.out, !.last = obj.out, !.streams = streams]
    BY <1>a, <1>b DEF CurlTyped
  <2>a. obj.form \in Nat /\ obj.out \in Stream
    BY <1>b DEF Stream
  <2> HIDE DEF options, want, hs, streams
  <2>6. QED
    BY <2>1, <2>2, <2>3, <2>4, <2>5, <2>a, CurlChanged
<1>8. CASE perform
  <2>1. PICK answer \in {<<>>, <<"r">>, <<"r", "s">>} :
          obj' = [[obj EXCEPT !.options.form = IF obj.post THEN obj.form ELSE 0]
                   EXCEPT !.calls = @ + 1,
                          !.sent = {Request([obj EXCEPT !.options.form = IF obj.post THEN obj.form ELSE 0])},
                          !.streams = IF obj.options.out \in Stream
                                      THEN [obj.streams EXCEPT ![obj.options.out] = @ \o answer] ELSE obj.streams]
    BY <1>8 DEF perform
  <2> DEFINE f == IF obj.post THEN obj.form ELSE 0
             options == [obj.options EXCEPT !.form = f]
             streams == IF obj.options.out \in Stream
                        THEN [obj.streams EXCEPT ![obj.options.out] = @ \o answer]
                        ELSE obj.streams
             o == [obj EXCEPT !.options = options]
  <2>2. f = obj.want.fields /\ f \in Nat
    BY <1>b DEF Matching, CurlWants
  <2>3. /\ options \in CurlOptions /\ options.url = obj.options.url /\ options.method = obj.options.method
        /\ options.out = obj.options.out
    BY <1>b, <2>2 DEF CurlOptions
  <2>4. options.body = obj.options.body
    BY <1>b DEF CurlOptions
  <2>5. o = [obj EXCEPT !.options.form = f] 
    BY <1>a DEF CurlTyped
  <2>6. obj' = [o EXCEPT !.calls = @ + 1, !.sent = {Request(o)}, !.streams = streams]
    BY <2>1, <2>5
  <2> HIDE DEF f, options, streams
  <2>7. /\ CurlTyped(o) /\ o.options = options /\ o.post = obj.post /\ o.headers = obj.headers
        /\ o.form = obj.form /\ o.out = obj.out /\ o.last = obj.last /\ o.want = obj.want
    BY <1>a, <2>3 DEF CurlTyped
  <2> HIDE DEF o
  <2>8. /\ CurlTyped(obj') /\ obj'.options = options /\ obj'.post = obj.post
        /\ obj'.headers = obj.headers /\ obj'.form = obj.form /\ obj'.out = obj.out
        /\ obj'.last = obj.last /\ obj'.want = obj.want /\ obj'.sent = {Request(o)}
    BY <2>6, <2>7 DEF CurlTyped
  <2>9. AsAsked(obj')
    BY <1>b, <2>3, <2>4, <2>8 DEF AsAsked, Matching
  <2>10. /\ Request(o).url = obj.want.url /\ Request(o).method = obj.want.method
         /\ Request(o).headers = obj.headers /\ Request(o).fields = obj.want.fields
    BY <1>b, <2>2, <2>3, <2>7 DEF Request, Matching, f
  <2>11. Request(o).body = obj.want.body
    BY <1>b, <2>4, <2>7 DEF Request, Matching
  <2>12. SentAsAsked(obj')
    BY <1>b, <2>8, <2>10, <2>11 DEF SentAsAsked, Matching
  <2>13. QED
    BY <2>8, <2>9, <2>12 DEF CurlInv
<1>9. QED
  BY <1>1, <1>2, <1>3, <1>4, <1>5, <1>6, <1>7, <1>8
     DEF CurlNext, setMethod, setOutputStream, setHeaders

-----------------------------------------------------------------------------
(* FileAppender.  The files of an appender that is alone are one for each   *)
(* day it has logged on, and those that are left are newer than those that  *)
(* are gone.                                                                *)
LogFiles == Appenders \X Nat
AppenderState ==
  [files : SUBSET LogFiles, logged : SUBSET LogFiles, day : Nat, name : [Appenders -> Nat],
   alone : BOOLEAN, reserved : {-1, 0, 1}]
Daily(o) ==
  /\ \A f \in o.logged : f[1] = 1 /\ f[2] <= o.name[1]
  /\ o.files \subseteq o.logged /\ o.name[1] <= o.day /\ o.day # 0
  /\ o.name[1] # 0 => <<1, o.name[1]>> \in o.files
FewFiles(o) ==
  IF o.reserved < 0 THEN o.files = o.logged
  ELSE IsFiniteSet(o.files) /\ Cardinality(o.files) <= o.reserved + 1
NewerLeft(o) == \A f \in o.files, g \in o.logged \ o.files : g[2] < f[2]
AppenderInv ==
  /\ obj \in AppenderState
  /\ obj.alone => Daily(obj) /\ FewFiles(obj) /\ NewerLeft(obj)

LEMMA AppenderHeld == AppenderInv => NewestKept
  BY DEF AppenderInv, AppenderState, NewestKept, Daily, FewFiles, NewerLeft

LEMMA AppenderInvInit == AppenderInit => AppenderInv
<1> SUFFICES ASSUME AppenderInit PROVE AppenderInv
  OBVIOUS
<1>1. PICK alone \in BOOLEAN, reserved \in {-1, 0, 1} :
        obj = [files |-> {}, logged |-> {}, day |-> 1, name |-> [p \in Appenders |-> 0],
               alone |-> alone, reserved |-> reserved]
  BY DEF AppenderInit
<1>2. obj \in AppenderState
  BY <1>1 DEF AppenderState
<1>3. /\ obj.files = {} /\ obj.logged = {} /\ obj.day = 1 /\ obj.name[1] = 0
      /\ obj.reserved \in {-1, 0, 1}
  BY <1>1 DEF Appenders
<1>4. IsFiniteSet({}) /\ Cardinality({}) = 0
  BY FS_EmptySet
<1>5. Daily(obj) /\ FewFiles(obj) /\ NewerLeft(obj)
  BY <1>3, <1>4 DEF Daily, FewFiles, NewerLeft
<1>6. QED
  BY <1>2, <1>5 DEF AppenderInv

\* What clearOldFiles() leaves of files of one prefix: as many as it is to
\* leave, and none that is older than one that is gone.
OfPrefix(files) == \A f \in files : f[1] = 1
Newer(files, f) == {g \in files : Before(f, g)}
Newest(files, n) == {f \in files : Cardinality(Newer(files, f)) < n}

LEMMA NewestAre ==
  ASSUME NEW files \in SUBSET LogFiles, OfPrefix(files), IsFiniteSet(files), NEW n \in {0, 1}
  PROVE  /\ IsFiniteSet(Newest(files, n)) /\ Cardinality(Newest(files, n)) <= n
         /\ \A f \in Newest(files, n), g \in files \ Newest(files, n) : g[2] < f[2]
<1>1. /\ \A f \in files : f[1] = 1 /\ f[2] \in Nat /\ f = <<f[1], f[2]>>
      /\ \A f, g \in files : Before(f, g) <=> f[2] < g[2]
  BY DEF LogFiles, Appenders, OfPrefix, Before
<1>2. \A f \in files : /\ IsFiniteSet(Newer(files, f))
                       /\ Cardinality(Newer(files, f)) \in Nat
                       /\ Newer(files, f) \subseteq files
  BY FS_Subset, FS_CardinalityType DEF Newer
<1>3. IsFiniteSet(Newest(files, n))
  BY FS_Subset DEF Newest
<1>4. CASE n = 0
  <2>1. Newest(files, n) = {}
    BY <1>2, <1>4 DEF Newest
  <2>2. QED
    BY <1>3, <1>4, <2>1, FS_EmptySet
<1>5. CASE n = 1
  <2>1. \A f \in files : f \in Newest(files, n) <=> \A g \in files : ~(f[2] < g[2])
    <3>1. ASSUME NEW f \in files PROVE Cardinality(Newer(files, f)) < 1 <=> Newer(files, f) = {}
      BY <1>2, FS_EmptySet
    <3>2. QED
      BY <1>1, <1>5, <3>1 DEF Newest, Newer
  <2>2. \A f, g \in Newest(files, n) : f = g
    <3>1. ASSUME NEW f \in Newest(files, n), NEW g \in Newest(files, n) PROVE f = g
      <4>1. f \in files /\ g \in files
        BY DEF Newest
      <4>2. f[2] = g[2]
        BY <1>1, <2>1, <4>1
      <4>3. QED
        BY <1>1, <4>1, <4>2
    <3>2. QED
      BY <3>1
  <2>3. Cardinality(Newest(files, n)) <= 1
    <3>1. CASE Newest(files, n) = {}
      BY <3>1, FS_EmptySet
    <3>2. CASE Newest(files, n) # {}
      <4>1. PICK f : Newest(files, n) = {f}
        BY <2>2, <3>2
      <4>2. QED
        BY <4>1, FS_Singleton
    <3>3. QED
      BY <3>1, <3>2
  <2>4. ASSUME NEW f \in Newest(files, n), NEW g \in files \ Newest(files, n) PROVE g[2] < f[2]
    <3>1. f \in files
      BY DEF Newest
    <3>2. PICK h \in files : g[2] < h[2]
      BY <2>1
    <3>3. ~(f[2] < h[2])
      BY <2>1, <3>1
    <3>4. QED
      BY <1>1, <3>1, <3>2, <3>3
  <2>5. QED
    BY <1>3, <1>5, <2>3, <2>4
<1>6. QED
  BY <1>4, <1>5

LEMMA LogStep ==
  ASSUME AppenderInv, NEW p \in Appenders, appenderLog(p)
  PROVE  AppenderInv'
<1> DEFINE current == <<p, obj.day>>
           names == [obj.name EXCEPT ![p] = obj.day]
           logged == obj.logged \union {current}
           left == clearOldFiles(obj.files \union {current}, current)
<1>1. obj \in AppenderState /\ (obj.alone => p = 1)
  BY DEF AppenderInv, appenderLog
<1>2. CASE obj.name[p] = obj.day
  <2>1. obj' = obj
    BY <1>2 DEF appenderLog
  <2>2. QED
    BY <2>1 DEF AppenderInv
<1>3. CASE obj.name[p] # obj.day
  <2>1. obj' = [obj EXCEPT !.name = names, !.logged = logged, !.files = left]
    BY <1>3 DEF appenderLog
  <2>2. /\ names \in [Appenders -> Nat] /\ logged \in SUBSET LogFiles /\ left \in SUBSET LogFiles
        /\ names[p] = obj.day /\ current \in LogFiles
    BY <1>1 DEF AppenderState, LogFiles, clearOldFiles
  <2>3. /\ obj' \in AppenderState /\ obj'.files = left /\ obj'.logged = logged /\ obj'.day = obj.day
        /\ obj'.name = names /\ obj'.reserved = obj.reserved
    <3> HIDE DEF names, logged, left
    <3>1. QED
      BY <1>1, <2>1, <2>2 DEF AppenderState
  <2>4. obj'.alone = obj.alone
    BY <1>1, <2>1 DEF AppenderState
  <2>5. ASSUME obj.alone PROVE Daily(obj') /\ FewFiles(obj') /\ NewerLeft(obj')
    <3>1. p = 1 /\ current = <<1, obj.day>> /\ names[1] = obj.day
      BY <1>1, <2>2, <2>5
    <3>2. Daily(obj) /\ FewFiles(obj) /\ NewerLeft(obj)
      BY <2>5 DEF AppenderInv
    <3>3. /\ obj.files \in SUBSET LogFiles /\ obj.logged \in SUBSET LogFiles /\ obj.day \in Nat
          /\ obj.name[1] \in Nat /\ obj.reserved \in {-1, 0, 1}
      BY <1>1 DEF AppenderState, Appenders
    <3>4. \A f \in LogFiles : f[2] \in Nat
      BY DEF LogFiles
    <3>5. obj.name[1] < obj.day
      BY <1>3, <3>1, <3>2, <3>3 DEF Daily
    <3>6. \A f \in obj.logged : f[1] = 1 /\ f[2] < obj.day
      BY <3>2, <3>3, <3>4, <3>5 DEF Daily
    <3>7. current \notin obj.logged /\ current \notin obj.files /\ current[1] = 1 /\ current[2] = obj.day
      BY <3>1, <3>2, <3>3, <3>6 DEF Daily
    <3>8. (obj.files \union {current}) \ {current} = obj.files
      BY <3>7
    <3>a. /\ \A f \in logged : f[1] = 1 /\ f[2] <= obj.day
          /\ obj.files \subseteq obj.logged /\ obj.day # 0 /\ obj.day \in Nat
      <4>1. ASSUME NEW f \in logged PROVE f[1] = 1 /\ f[2] <= obj.day
        <5>1. CASE f = current
          BY <3>3, <3>7, <5>1
        <5>2. CASE f \in obj.logged
          BY <3>3, <3>4, <3>6, <5>2
        <5>3. QED
          BY <5>1, <5>2
      <4>2. QED
        BY <3>2, <3>3, <4>1 DEF Daily
    <3>9. CASE obj.reserved < 0
      <4>1. left = obj.files \union {current} /\ left = logged
        BY <3>2, <3>9 DEF clearOldFiles, FewFiles
      <4>2. FewFiles(obj') /\ NewerLeft(obj')
        BY <2>3, <3>9, <4>1 DEF FewFiles, NewerLeft
      <4>3. Daily(obj')
        <5>1. left \subseteq logged /\ <<1, obj.day>> \in left
          BY <3>1, <4>1
        <5>2. QED
          BY <2>3, <3>1, <3>a, <5>1 DEF Daily
      <4>4. QED
        BY <4>2, <4>3
    <3>10. CASE ~(obj.reserved < 0)
      <4> DEFINE kept == Newest(obj.files, obj.reserved)
      <4>1. obj.reserved \in {0, 1} /\ IsFiniteSet(obj.files)
        BY <3>2, <3>3, <3>10 DEF FewFiles
      <4>2. OfPrefix(obj.files)
        BY <3>2, <3>6 DEF OfPrefix, Daily
      <4>3. /\ IsFiniteSet(kept) /\ Cardinality(kept) <= obj.reserved
            /\ \A f \in kept, g \in obj.files \ kept : g[2] < f[2]
        BY <3>3, <4>1, <4>2, NewestAre
      <4>4. left = kept \union {current}
        BY <3>8, <3>10 DEF clearOldFiles, Newest, Newer
      <4>5. kept \subseteq obj.files
        BY DEF Newest
      <4> HIDE DEF kept, left, logged, current, names
      <4>6. IsFiniteSet(left) /\ Cardinality(left) = Cardinality(kept) + 1
        BY <3>7, <4>3, <4>4, <4>5, FS_AddElement
      <4>7. Cardinality(kept) \in Nat
        BY <4>3, FS_CardinalityType
      <4>8. FewFiles(obj')
        BY <2>3, <3>10, <4>1, <4>3, <4>6, <4>7 DEF FewFiles
      <4>9. Daily(obj')
        <5>1. left \subseteq logged /\ <<1, obj.day>> \in left
          BY <3>1, <3>a, <4>4, <4>5 DEF logged
        <5>2. QED
          BY <2>3, <3>1, <3>a, <5>1 DEF Daily
      <4>10. ASSUME NEW f \in left, NEW g \in logged \ left PROVE g[2] < f[2]
        <5>1. g \in obj.logged /\ g \notin kept /\ f \in kept \union {current}
          BY <4>4 DEF logged
        <5>2. CASE f = current
          BY <3>6, <3>7, <5>1, <5>2
        <5>3. CASE f \in kept /\ g \in obj.files
          BY <4>3, <5>1, <5>3
        <5>4. CASE f \in kept /\ g \notin obj.files
          BY <3>2, <4>5, <5>1, <5>4 DEF NewerLeft
        <5>5. QED
          BY <5>1, <5>2, <5>3, <5>4
      <4>11. NewerLeft(obj')
        BY <2>3, <4>10 DEF NewerLeft
      <4>12. QED
        BY <4>8, <4>9, <4>11
    <3>11. QED
      BY <3>9, <3>10
  <2>6. QED
    BY <2>3, <2>4, <2>5 DEF AppenderInv
<1>4. QED
  BY <1>2, <1>3

LEMMA AppenderStep == AppenderInv /\ AppenderNext => AppenderInv'
<1> SUFFICES ASSUME AppenderInv, AppenderNext PROVE AppenderInv'
  OBVIOUS
<1>1. CASE NextDay
  <2>1. obj \in AppenderState /\ obj' = [obj EXCEPT !.day = @ + 1]
    BY <1>1 DEF AppenderInv, NextDay
  <2>2. /\ obj' \in AppenderState /\ obj'.files = obj.files /\ obj'.logged = obj.logged
        /\ obj'.day = obj.day + 1 /\ obj'.name = obj.name /\ obj'.reserved = obj.reserved
        /\ obj.day \in Nat /\ obj.name[1] \in Nat
    BY <2>1 DEF AppenderState, Appenders
  <2>3. obj'.alone = obj.alone
    BY <2>1 DEF AppenderState
  <2>4. Daily(obj) => Daily(obj')
    BY <2>2 DEF Daily
  <2>5. (FewFiles(obj) => FewFiles(obj')) /\ (NewerLeft(obj) => NewerLeft(obj'))
    BY <2>2 DEF FewFiles, NewerLeft
  <2>6. QED
    BY <2>2, <2>3, <2>4, <2>5 DEF AppenderInv
<1>2. CASE \E p \in Appenders : appenderLog(p)
  BY <1>2, LogStep
<1>3. QED
  BY <1>1, <1>2 DEF AppenderNext

-----------------------------------------------------------------------------
\* A path by its names, and what is above what.
LEMMA PathIs ==
  ASSUME NEW p
  PROVE  p \in Paths <=> p \in Seq(Names) /\ Len(p) \in 1..MaxDepth
<1>1. ASSUME p \in Paths PROVE p \in Seq(Names) /\ Len(p) \in 1..MaxDepth
  <2>1. PICK n \in 1..MaxDepth : p \in [1..n -> Names]
    BY <1>1 DEF Paths
  <2>2. n \in Nat
    BY FilesAssumption
  <2>3. QED
    BY <2>1, <2>2
<1>2. ASSUME p \in Seq(Names), Len(p) \in 1..MaxDepth PROVE p \in Paths
  <2>1. p \in [1..Len(p) -> Names]
    BY <1>2
  <2>2. QED
    BY <1>2, <2>1 DEF Paths
<1>3. QED
  BY <1>1, <1>2

LEMMA UnderIs ==
  ASSUME NEW p \in Seq(Names), NEW q \in Seq(Names)
  PROVE  Under(p, q) <=> Len(p) <= Len(q) /\ \A i \in 1..Len(p) : p[i] = q[i]
<1> DEFINE n == Len(p)
           upper == SubSeq(p, 1, n)
           lower == SubSeq(q, 1, n)
<1>1. n \in Nat /\ upper \in Seq(Names) /\ Len(upper) = n /\ \A i \in 1..n : upper[i] = p[i]
  OBVIOUS
<1>2. ASSUME n <= Len(q) PROVE lower \in Seq(Names) /\ Len(lower) = n /\ \A i \in 1..n : lower[i] = q[i]
  BY <1>1, <1>2
<1>3. Under(p, q) <=> n <= Len(q) /\ upper = lower
  BY DEF Under, IsPrefix
<1> HIDE DEF upper, lower
<1>4. ASSUME n <= Len(q), \A i \in 1..n : p[i] = q[i] PROVE upper = lower
  <2>1. upper \in [1..n -> Names] /\ lower \in [1..n -> Names]
    BY <1>1, <1>2, <1>4
  <2>2. \A i \in 1..n : upper[i] = lower[i]
    BY <1>1, <1>2, <1>4
  <2>3. QED
    BY <2>1, <2>2
<1>5. ASSUME n <= Len(q), upper = lower PROVE \A i \in 1..n : p[i] = q[i]
  BY <1>1, <1>2, <1>5
<1>6. QED
  BY <1>3, <1>4, <1>5

LEMMA SamePath ==
  ASSUME NEW p \in Seq(Names), NEW q \in Seq(Names), Len(p) = Len(q), \A i \in 1..Len(p) : p[i] = q[i]
  PROVE  p = q
<1>1. p \in [1..Len(p) -> Names] /\ q \in [1..Len(p) -> Names]
  OBVIOUS
<1>2. QED
  BY <1>1

LEMMA UnderSelf == ASSUME NEW p \in Paths PROVE Under(p, p)
  BY PathIs, UnderIs

LEMMA UnderEmpty == ASSUME NEW p \in Paths PROVE ~Under(p, <<>>)
<1>1. p \in Seq(Names) /\ Len(p) >= 1
  BY PathIs
<1>2. Len(<<>>) = 0 /\ Len(p) \in Nat
  BY <1>1
<1>3. QED
  BY <1>1, <1>2 DEF Under, IsPrefix

LEMMA UnderTwice ==
  ASSUME NEW p \in Paths, NEW q \in Paths, NEW r \in Paths, Under(p, q), Under(q, r)
  PROVE  Under(p, r)
<1>1. p \in Seq(Names) /\ q \in Seq(Names) /\ r \in Seq(Names)
  BY PathIs
<1>2. Len(p) <= Len(q) /\ Len(q) <= Len(r) /\ (\A i \in 1..Len(p) : p[i] = q[i]) /\ \A i \in 1..Len(q) : q[i] = r[i]
  BY <1>1, UnderIs
<1>3. Len(p) <= Len(r) /\ \A i \in 1..Len(p) : p[i] = r[i]
  BY <1>1, <1>2
<1>4. QED
  BY <1>1, <1>3, UnderIs

LEMMA UnderBoth ==
  ASSUME NEW p \in Paths, NEW q \in Paths, Under(p, q), Under(q, p)
  PROVE  p = q
<1>1. p \in Seq(Names) /\ q \in Seq(Names)
  BY PathIs
<1>2. Len(p) <= Len(q) /\ Len(q) <= Len(p) /\ (\A i \in 1..Len(p) : p[i] = q[i])
  BY <1>1, UnderIs
<1>3. Len(p) = Len(q)
  BY <1>1, <1>2
<1>4. QED
  BY <1>1, <1>2, <1>3, SamePath

\* Of two paths above a third one is above the other: the shorter.
LEMMA UnderInLine ==
  ASSUME NEW p \in Paths, NEW q \in Paths, NEW r \in Paths, Under(p, r), Under(q, r), Len(p) <= Len(q)
  PROVE  Under(p, q)
<1>1. p \in Seq(Names) /\ q \in Seq(Names) /\ r \in Seq(Names)
  BY PathIs
<1>2. (\A i \in 1..Len(p) : p[i] = r[i]) /\ \A i \in 1..Len(q) : q[i] = r[i]
  BY <1>1, UnderIs
<1>3. \A i \in 1..Len(p) : p[i] = q[i]
  BY <1>1, <1>2
<1>4. QED
  BY <1>1, <1>3, UnderIs

LEMMA UnderLonger ==
  ASSUME NEW p \in Paths, NEW q \in Paths, Under(p, q), p # q
  PROVE  Len(p) < Len(q)
<1>1. p \in Seq(Names) /\ q \in Seq(Names)
  BY PathIs
<1>2. Len(p) <= Len(q) /\ \A i \in 1..Len(p) : p[i] = q[i]
  BY <1>1, UnderIs
<1>3. Len(p) # Len(q)
  BY <1>1, <1>2, SamePath
<1>4. QED
  BY <1>1, <1>2, <1>3

LEMMA FrontIs ==
  ASSUME NEW p \in Paths, Len(p) > 1
  PROVE  /\ Front(p) \in Paths /\ Under(Front(p), p) /\ Front(p) # p
         /\ \A r \in Paths : Under(r, p) /\ r # p => Under(r, Front(p))
<1>1. p \in Seq(Names) /\ Len(p) \in 1..MaxDepth
  BY PathIs
<1> DEFINE f == SubSeq(p, 1, Len(p) - 1)
<1>2. f \in Seq(Names) /\ Len(f) = Len(p) - 1 /\ \A i \in 1..Len(p) - 1 : f[i] = p[i]
  BY <1>1
<1>3. Front(p) = f
  BY DEF Front
<1> HIDE DEF f
<1>4. f \in Paths
  <2>1. Len(f) \in 1..MaxDepth
    BY <1>1, <1>2, FilesAssumption
  <2>2. QED
    BY <1>2, <2>1, PathIs
<1>5. Under(f, p)
  BY <1>1, <1>2, UnderIs
<1>6. f # p
  BY <1>1, <1>2
<1>7. ASSUME NEW r \in Paths, Under(r, p), r # p PROVE Under(r, f)
  <2>1. Len(r) < Len(p) /\ r \in Seq(Names)
    BY <1>7, UnderLonger, PathIs
  <2>2. Len(r) <= Len(f)
    BY <1>1, <1>2, <2>1
  <2>3. QED
    BY <1>4, <1>5, <1>7, <2>2, UnderInLine
<1>8. QED
  BY <1>3, <1>4, <1>5, <1>6, <1>7

-----------------------------------------------------------------------------
\* A path with another beginning.
Shift(s, d, x) == d \o SubSeq(x, Len(s) + 1, Len(x))

LEMMA ShiftIs ==
  ASSUME NEW s \in Paths, NEW d \in Paths, NEW x \in Paths, Under(s, x)
  PROVE  /\ Shift(s, d, x) \in Seq(Names) /\ Len(Shift(s, d, x)) = Len(d) + (Len(x) - Len(s))
         /\ \A i \in 1..Len(d) : Shift(s, d, x)[i] = d[i]
         /\ \A i \in 1..Len(x) - Len(s) : Shift(s, d, x)[Len(d) + i] = x[Len(s) + i]
<1>1. s \in Seq(Names) /\ d \in Seq(Names) /\ x \in Seq(Names)
  BY PathIs
<1>2. Len(s) <= Len(x) /\ Len(s) \in Nat /\ Len(x) \in Nat /\ Len(d) \in Nat
  BY <1>1, UnderIs
<1> DEFINE t == SubSeq(x, Len(s) + 1, Len(x))
<1>3. /\ t \in Seq(Names) /\ Len(t) = Len(x) - Len(s)
      /\ \A i \in 1..Len(x) - Len(s) : t[i] = x[Len(s) + i]
  BY <1>1, <1>2
<1>4. Shift(s, d, x) = d \o t
  BY DEF Shift
<1> HIDE DEF t
<1>5. /\ d \o t \in Seq(Names) /\ Len(d \o t) = Len(d) + Len(t)
      /\ \A i \in 1..Len(d) + Len(t) : (d \o t)[i] = IF i <= Len(d) THEN d[i] ELSE t[i - Len(d)]
  BY <1>1, <1>3, ConcatProperties
<1>6. \A i \in 1..Len(d) : (d \o t)[i] = d[i]
  BY <1>2, <1>3, <1>5
<1>7. ASSUME NEW i \in 1..Len(x) - Len(s) PROVE (d \o t)[Len(d) + i] = x[Len(s) + i]
  <2>1. Len(d) + i \in 1..Len(d) + Len(t) /\ ~(Len(d) + i <= Len(d)) /\ (Len(d) + i) - Len(d) = i
    BY <1>2, <1>3
  <2>2. QED
    BY <1>3, <1>5, <2>1
<1>8. QED
  BY <1>3, <1>4, <1>5, <1>6, <1>7

LEMMA ShiftUnder ==
  ASSUME NEW s \in Paths, NEW d \in Paths, NEW x \in Paths, Under(s, x), Shift(s, d, x) \in Paths
  PROVE  Under(d, Shift(s, d, x))
<1> DEFINE t == Shift(s, d, x)
<1>1. s \in Seq(Names) /\ d \in Seq(Names) /\ x \in Seq(Names)
  BY PathIs
<1>2. Len(s) <= Len(x) /\ Len(s) \in Nat /\ Len(x) \in Nat /\ Len(d) \in Nat
  BY <1>1, UnderIs
<1>3. t \in Seq(Names) /\ Len(t) = Len(d) + (Len(x) - Len(s)) /\ \A i \in 1..Len(d) : t[i] = d[i]
  BY ShiftIs
<1> HIDE DEF t
<1>4. Len(d) <= Len(t)
  BY <1>2, <1>3
<1>5. Under(d, t)
  BY <1>1, <1>3, <1>4, UnderIs
<1>6. QED
  BY <1>5 DEF t

LEMMA ShiftBack ==
  ASSUME NEW s \in Paths, NEW d \in Paths, NEW x \in Paths, Under(s, x), Shift(s, d, x) \in Paths
  PROVE  Shift(d, s, Shift(s, d, x)) = x
<1> DEFINE t == Shift(s, d, x)
           u == Shift(d, s, t)
<1>1. s \in Seq(Names) /\ d \in Seq(Names) /\ x \in Seq(Names)
  BY PathIs
<1>2. Len(s) <= Len(x) /\ Len(s) \in Nat /\ Len(x) \in Nat /\ Len(d) \in Nat /\ \A i \in 1..Len(s) : s[i] = x[i]
  BY <1>1, UnderIs
<1>3. /\ t \in Seq(Names) /\ Len(t) = Len(d) + (Len(x) - Len(s))
      /\ \A i \in 1..Len(x) - Len(s) : t[Len(d) + i] = x[Len(s) + i]
  BY ShiftIs
<1>4. t \in Paths /\ Under(d, t)
  BY ShiftUnder
<1> HIDE DEF t
<1>5. /\ u \in Seq(Names) /\ Len(u) = Len(s) + (Len(t) - Len(d))
      /\ \A i \in 1..Len(s) : u[i] = s[i]
      /\ \A i \in 1..Len(t) - Len(d) : u[Len(s) + i] = t[Len(d) + i]
  BY <1>4, ShiftIs
<1>6. Len(u) = Len(x)
  BY <1>2, <1>3, <1>5
<1> HIDE DEF u
<1>7. ASSUME NEW i \in 1..Len(u) PROVE u[i] = x[i]
  <2>1. CASE i <= Len(s)
    BY <1>2, <1>5, <2>1
  <2>2. CASE ~(i <= Len(s))
    <3>1. i - Len(s) \in 1..Len(x) - Len(s) /\ i - Len(s) \in 1..Len(t) - Len(d) /\ Len(s) + (i - Len(s)) = i
      BY <1>2, <1>3, <1>6, <2>2
    <3>2. u[Len(s) + (i - Len(s))] = t[Len(d) + (i - Len(s))] /\ t[Len(d) + (i - Len(s))] = x[Len(s) + (i - Len(s))]
      BY <1>3, <1>5, <3>1
    <3>3. QED
      BY <3>1, <3>2
  <2>3. QED
    BY <2>1, <2>2
<1>8. u = x
  BY <1>1, <1>5, <1>6, <1>7, SamePath
<1>9. QED
  BY <1>8 DEF t, u

LEMMA ShiftSelf == ASSUME NEW s \in Paths, NEW d \in Paths PROVE Shift(s, d, s) = d
<1> DEFINE t == Shift(s, d, s)
<1>1. s \in Seq(Names) /\ d \in Seq(Names) /\ Under(s, s)
  BY PathIs, UnderSelf
<1>2. t \in Seq(Names) /\ Len(t) = Len(d) + (Len(s) - Len(s)) /\ \A i \in 1..Len(d) : t[i] = d[i]
  BY <1>1, ShiftIs
<1> HIDE DEF t
<1>3. Len(t) = Len(d)
  BY <1>1, <1>2
<1>4. t = d
  BY <1>1, <1>2, <1>3, SamePath
<1>5. QED
  BY <1>4 DEF t

LEMMA ShiftAbove ==
  ASSUME NEW s \in Paths, NEW d \in Paths, NEW x \in Paths, NEW r \in Paths,
         Under(s, r), Under(r, x), Shift(s, d, x) \in Paths
  PROVE  /\ Shift(s, d, r) \in Paths /\ Under(Shift(s, d, r), Shift(s, d, x))
         /\ r # x => Shift(s, d, r) # Shift(s, d, x)
<1> DEFINE t == Shift(s, d, x)
           u == Shift(s, d, r)
<1>1. s \in Seq(Names) /\ d \in Seq(Names) /\ x \in Seq(Names) /\ r \in Seq(Names)
  BY PathIs
<1>upper. s \in Paths /\ d \in Paths /\ x \in Paths /\ r \in Paths /\ Under(s, r)
  OBVIOUS
<1>2. Under(s, x)
  BY UnderTwice
<1>3. /\ Len(s) \in Nat /\ Len(x) \in Nat /\ Len(d) \in Nat /\ Len(r) \in Nat /\ Len(d) >= 1
      /\ Len(s) <= Len(r) /\ Len(r) <= Len(x) /\ \A i \in 1..Len(r) : r[i] = x[i]
  BY <1>1, UnderIs, PathIs
<1>4. /\ t \in Seq(Names) /\ Len(t) = Len(d) + (Len(x) - Len(s)) /\ \A i \in 1..Len(d) : t[i] = d[i]
      /\ \A i \in 1..Len(x) - Len(s) : t[Len(d) + i] = x[Len(s) + i]
  BY ONLY <1>upper, <1>2, ShiftIs
<1>5. /\ u \in Seq(Names) /\ Len(u) = Len(d) + (Len(r) - Len(s)) /\ \A i \in 1..Len(d) : u[i] = d[i]
      /\ \A i \in 1..Len(r) - Len(s) : u[Len(d) + i] = r[Len(s) + i]
  BY ONLY <1>upper, ShiftIs
<1>6. Len(t) \in 1..MaxDepth
  BY PathIs
<1> HIDE DEF t, u
<1>7. u \in Paths
  <2>1. Len(u) \in 1..MaxDepth
    BY <1>3, <1>4, <1>5, <1>6, FilesAssumption
  <2>2. QED
    BY <1>5, <2>1, PathIs
<1>8. Under(u, t)
  <2>1. Len(u) <= Len(t)
    BY <1>3, <1>4, <1>5
  <2>2. ASSUME NEW i \in 1..Len(u) PROVE u[i] = t[i]
    <3>1. CASE i <= Len(d)
      BY <1>3, <1>4, <1>5, <3>1
    <3>2. CASE ~(i <= Len(d))
      <4> DEFINE j == i - Len(d)
      <4>1. j \in 1..Len(r) - Len(s) /\ j \in 1..Len(x) - Len(s) /\ Len(d) + j = i /\ Len(s) + j \in 1..Len(r)
        BY <1>3, <1>5, <3>2
      <4> HIDE DEF j
      <4>2. u[Len(d) + j] = r[Len(s) + j] /\ t[Len(d) + j] = x[Len(s) + j] /\ r[Len(s) + j] = x[Len(s) + j]
        BY <1>3, <1>4, <1>5, <4>1
      <4>3. QED
        BY <4>1, <4>2
    <3>3. QED
      BY <3>1, <3>2
  <2>3. QED
    BY <1>4, <1>5, <2>1, <2>2, UnderIs
<1>9. ASSUME r # x PROVE u # t
  <2>1. Len(r) < Len(x)
    BY <1>9, UnderLonger
  <2>2. QED
    BY <1>3, <1>4, <1>5, <2>1
<1>10. QED
  BY <1>7, <1>8, <1>9 DEF t, u

-----------------------------------------------------------------------------
(* Trees.  Above what there is, there are directories.                      *)
FileValues == {None, Dir} \union FileContents
Trees == [Paths -> FileValues]
Tree(f) == \A x, r \in Paths : f[x] # None /\ Under(r, x) /\ r # x => f[r] = Dir
FileKinds == None # Dir /\ \A v \in FileContents : v # None /\ v # Dir

LEMMA FileKindsAre == FileKinds
  BY FilesAssumption DEF FileKinds, None, Dir

LEMMA TreeParent == ASSUME NEW f \in Trees, Tree(f), NEW x \in Paths, f[x] # None PROVE HasParent(f, x)
  BY FrontIs DEF Tree, HasParent

LEMMA ParentTree ==
  ASSUME NEW f \in Trees, Tree(f), NEW d \in Paths, HasParent(f, d), NEW r \in Paths, Under(r, d), r # d
  PROVE  f[r] = Dir
<1>1. Len(r) < Len(d) /\ Len(r) >= 1 /\ Len(r) \in Nat /\ Len(d) \in Nat
  BY UnderLonger, PathIs
<1>2. Len(d) > 1
  BY <1>1
<1>3. f[Front(d)] = Dir /\ Front(d) \in Paths /\ Under(r, Front(d))
  BY <1>2, FrontIs DEF HasParent
<1>4. f[Front(d)] # None
  BY <1>3, FileKindsAre DEF FileKinds
<1>5. QED
  BY <1>3, <1>4 DEF Tree

\* A file or a directory is made where there is none below.
LEMMA OneTree ==
  ASSUME NEW f \in Trees, Tree(f), NEW p \in Paths, HasParent(f, p), f[p] # Dir, NEW v \in FileValues
  PROVE  [f EXCEPT ![p] = v] \in Trees /\ Tree([f EXCEPT ![p] = v])
<1> DEFINE g == [f EXCEPT ![p] = v]
<1>1. g \in Trees /\ g[p] = v /\ \A x \in Paths : x # p => g[x] = f[x]
  BY DEF Trees
<1> HIDE DEF g
<1>2. ASSUME NEW x \in Paths, NEW r \in Paths, g[x] # None, Under(r, x), r # x PROVE g[r] = Dir
  <2>1. CASE x = p
    BY <1>1, <1>2, <2>1, ParentTree
  <2>2. CASE x # p
    <3>1. f[r] = Dir
      BY <1>1, <1>2, <2>2 DEF Tree
    <3>2. QED
      BY <1>1, <3>1
  <2>3. QED
    BY <2>1, <2>2
<1>3. Tree(g)
  BY <1>2 DEF Tree
<1>4. QED
  BY <1>1, <1>3 DEF g

\* What goes, goes with all that is below it.
LEMMA ClearTree ==
  ASSUME NEW f \in Trees, Tree(f), NEW P, \A r \in P, x \in Paths : Under(r, x) => x \in P
  PROVE  Clear(f, P) \in Trees /\ Tree(Clear(f, P))
<1> DEFINE g == Clear(f, P)
<1>1. g \in Trees /\ \A q \in Paths : g[q] = IF q \in P THEN None ELSE f[q]
  BY DEF Clear, Trees, FileValues
<1> HIDE DEF g
<1>2. ASSUME NEW x \in Paths, NEW r \in Paths, g[x] # None, Under(r, x), r # x PROVE g[r] = Dir
  BY <1>1, <1>2 DEF Tree
<1>3. Tree(g)
  BY <1>2 DEF Tree
<1>4. QED
  BY <1>1, <1>3 DEF g

\* There is a file above.
FileAbove(f, q) == \E r \in Paths : Under(r, q) /\ IsFile(f, r)
LEMMA MadeDirsIs ==
  ASSUME NEW f \in Trees, NEW p \in Paths, NEW q \in Paths
  PROVE  /\ MadeDirs(f, p)[q] = IF Under(q, p) /\ f[q] = None /\ ~FileAbove(f, q) THEN Dir ELSE f[q]
         /\ f[q] # None => MadeDirs(f, p)[q] = f[q]
         /\ IsFile(MadeDirs(f, p), q) <=> IsFile(f, q)
<1>1. MadeDirs(f, p)[q] = IF Under(q, p) /\ f[q] = None /\ ~FileAbove(f, q) THEN Dir ELSE f[q]
  BY DEF MadeDirs, FileAbove
<1>2. IsFile(MadeDirs(f, p), q) <=> IsFile(f, q)
  BY <1>1, FileKindsAre DEF IsFile, FileKinds
<1>3. QED
  BY <1>1, <1>2

LEMMA MadeDirsTree ==
  ASSUME NEW f \in Trees, Tree(f), NEW p \in Paths
  PROVE  MadeDirs(f, p) \in Trees /\ Tree(MadeDirs(f, p))
<1> DEFINE g == MadeDirs(f, p)
<1>1. g \in Trees
  BY DEF MadeDirs, Trees, FileValues
<1>2. \A q \in Paths : g[q] = IF Under(q, p) /\ f[q] = None /\ ~FileAbove(f, q) THEN Dir ELSE f[q]
  BY MadeDirsIs
<1> HIDE DEF g
<1>3. ASSUME NEW x \in Paths, NEW r \in Paths, g[x] # None, Under(r, x), r # x PROVE g[r] = Dir
  <2>1. CASE f[x] # None
    <3>1. f[r] = Dir
      BY <1>3, <2>1 DEF Tree
    <3>2. QED
      BY <1>2, <3>1
  <2>2. CASE f[x] = None
    <3>1. Under(x, p) /\ ~FileAbove(f, x)
      BY <1>2, <1>3, <2>2
    <3>2. Under(r, p)
      BY <1>3, <3>1, UnderTwice
    <3>3. ~FileAbove(f, r)
      BY <1>3, <3>1, UnderTwice DEF FileAbove
    <3>4. ~IsFile(f, r)
      BY <3>3, UnderSelf DEF FileAbove
    <3>5. f[r] = None \/ f[r] = Dir
      BY <3>4 DEF Trees, FileValues, IsFile
    <3>6. QED
      BY <1>2, <3>2, <3>3, <3>5
  <2>3. QED
    BY <2>1, <2>2
<1>4. Tree(g)
  BY <1>3 DEF Tree
<1>5. QED
  BY <1>1, <1>4 DEF g

\* A copy is made of what can be made.
FirstOf(f, s, d) == IF f[s] = Dir THEN MadeDirs(f, d) ELSE f
Comes(f, g, s, d, q) ==
  /\ Under(d, q) /\ Shift(d, s, q) \in Paths /\ f[Shift(d, s, q)] # None
  /\ HasParent(g, d) /\ ~(\E r \in Paths : Under(d, r) /\ Under(r, q) /\ r # q /\ IsFile(g, r))
LEMMA CopiedIs ==
  ASSUME NEW f \in Trees, Tree(f), NEW s \in Paths, NEW d \in Paths
  PROVE  /\ FirstOf(f, s, d) \in Trees /\ Tree(FirstOf(f, s, d)) /\ Copied(f, s, d) \in Trees
         /\ \A q \in Paths :
              Copied(f, s, d)[q] =
                LET g == FirstOf(f, s, d) IN
                IF ~Comes(f, g, s, d, q) THEN g[q]
                ELSE IF f[Shift(d, s, q)] = Dir THEN (IF g[q] = None THEN Dir ELSE g[q])
                ELSE IF g[q] = Dir THEN Dir ELSE f[Shift(d, s, q)]
<1> DEFINE g == FirstOf(f, s, d)
           c == Copied(f, s, d)
<1>1. g \in Trees /\ Tree(g)
  BY MadeDirsTree DEF FirstOf
<1>2. c = [q \in Paths |-> IF ~Comes(f, g, s, d, q) THEN g[q]
                           ELSE IF f[Shift(d, s, q)] = Dir THEN (IF g[q] = None THEN Dir ELSE g[q])
                           ELSE IF g[q] = Dir THEN Dir ELSE f[Shift(d, s, q)]]
  BY DEF Copied, Comes, FirstOf, Shift
<1> HIDE DEF g, c
<1>3. c \in Trees
  <2>1. \A q \in Paths : (IF ~Comes(f, g, s, d, q) THEN g[q]
                           ELSE IF f[Shift(d, s, q)] = Dir THEN (IF g[q] = None THEN Dir ELSE g[q])
                           ELSE IF g[q] = Dir THEN Dir ELSE f[Shift(d, s, q)]) \in FileValues
    BY <1>1 DEF Trees, FileValues, Comes
  <2>2. QED
    BY <1>2, <2>1 DEF Trees
<1>4. QED
  BY <1>1, <1>2, <1>3 DEF g, c

LEMMA CopiedTree ==
  ASSUME NEW f \in Trees, Tree(f), NEW s \in Paths, NEW d \in Paths
  PROVE  Tree(Copied(f, s, d))
<1> DEFINE g == FirstOf(f, s, d)
           c == Copied(f, s, d)
           at(q) == Shift(d, s, q)
<1>1. g \in Trees /\ Tree(g)
  BY CopiedIs
<1>2. \A q \in Paths : c[q] = IF ~Comes(f, g, s, d, q) THEN g[q]
                              ELSE IF f[at(q)] = Dir THEN (IF g[q] = None THEN Dir ELSE g[q])
                              ELSE IF g[q] = Dir THEN Dir ELSE f[at(q)]
  BY CopiedIs
<1> HIDE DEF g, c
<1>3. \A q \in Paths : g[q] = Dir => c[q] = Dir
  BY <1>2, FileKindsAre DEF FileKinds
<1>4. ASSUME NEW x \in Paths, NEW r \in Paths, c[x] # None, Under(r, x), r # x PROVE c[r] = Dir
  <2>1. CASE g[x] # None
    BY <1>1, <1>3, <1>4, <2>1 DEF Tree
  <2>2. CASE g[x] = None
    <3>1. Comes(f, g, s, d, x)
      BY <1>2, <1>4, <2>2
    <3>2. Under(d, x) /\ at(x) \in Paths /\ f[at(x)] # None /\ HasParent(g, d)
      BY <3>1 DEF Comes
    <3>3. CASE Under(d, r)
      <4>1. at(r) \in Paths /\ Under(at(r), at(x)) /\ at(r) # at(x)
        BY <1>4, <3>2, <3>3, ShiftAbove
      <4>2. f[at(r)] = Dir
        BY <3>2, <4>1 DEF Tree
      <4>3. ~IsFile(g, r)
        BY <1>4, <3>1, <3>3 DEF Comes
      <4>4. g[r] = None \/ g[r] = Dir
        BY <1>1, <4>3 DEF Trees, FileValues, IsFile
      <4>5. ~(\E t \in Paths : Under(d, t) /\ Under(t, r) /\ t # r /\ IsFile(g, t))
        <5>1. ASSUME NEW t \in Paths, Under(d, t), Under(t, r), t # r, IsFile(g, t) PROVE FALSE
          <6>1. Under(t, x) /\ t # x
            BY <1>4, <5>1, UnderTwice, UnderBoth
          <6>2. QED
            BY <3>1, <5>1, <6>1 DEF Comes
        <5>2. QED
          BY <5>1
      <4>6. Comes(f, g, s, d, r)
        BY <3>2, <3>3, <4>1, <4>2, <4>5, FileKindsAre DEF Comes, FileKinds
      <4>7. QED
        BY <1>2, <4>2, <4>4, <4>6, FileKindsAre DEF FileKinds
    <3>4. CASE ~Under(d, r)
      <4>1. Len(r) \in Nat /\ Len(d) \in Nat
        BY PathIs
      <4>2. Under(r, d)
        BY <1>4, <3>2, <3>4, <4>1, UnderInLine
      <4>3. r # d
        BY <3>4, UnderSelf
      <4>4. g[r] = Dir
        BY <1>1, <3>2, <4>2, <4>3, ParentTree
      <4>5. QED
        BY <1>3, <4>4
    <3>5. QED
      BY <3>3, <3>4
  <2>3. QED
    BY <2>1, <2>2
<1>5. Tree(c)
  BY <1>4 DEF Tree
<1>6. QED
  BY <1>5 DEF c

LEMMA RemovedTree ==
  ASSUME NEW f \in Trees, Tree(f), NEW s \in Paths, NEW recursive \in BOOLEAN
  PROVE  /\ Removed(f, s, recursive).fs \in Trees /\ Tree(Removed(f, s, recursive).fs)
         /\ Removed(f, s, recursive).ok \in BOOLEAN
         /\ \A x \in Paths : ~Under(s, x) => Removed(f, s, recursive).fs[x] = f[x]
<1> DEFINE kept == IF recursive THEN {} ELSE {q \in Paths : Under(s, q) /\ s # q /\ f[q] = Dir /\ Len(q) = Len(s) + 1}
           below == UNION {{q \in Paths : Under(k, q)} : k \in kept}
           P == {q \in Paths : Under(s, q)} \ (below \union IF kept = {} THEN {} ELSE {s})
<1>1. Removed(f, s, recursive) = [ok |-> f[s] # None /\ kept = {}, fs |-> Clear(f, P)]
  BY DEF Removed
<1>2. \A k \in kept : k \in Paths /\ Under(s, k) /\ s # k /\ Len(k) = Len(s) + 1
  OBVIOUS
<1>3. \A x : x \in below <=> x \in Paths /\ \E k \in kept : Under(k, x)
  OBVIOUS
<1> HIDE DEF kept, below
<1>4. \A x : x \in P <=> x \in Paths /\ Under(s, x) /\ x \notin below /\ (kept = {} \/ x # s)
  OBVIOUS
<1> HIDE DEF P
<1>5. ASSUME NEW r \in P, NEW x \in Paths, Under(r, x) PROVE x \in P
  <2>1. r \in Paths /\ Under(s, r) /\ r \notin below /\ (kept = {} \/ r # s)
    BY <1>4
  <2>2. Under(s, x)
    BY <1>5, <2>1, UnderTwice
  <2>3. x \notin below
    <3>1. ASSUME NEW k \in kept, Under(k, x) PROVE FALSE
      <4>1. r # s /\ k \in Paths /\ Len(k) = Len(s) + 1
        BY <1>2, <2>1, <3>1
      <4>2. Len(s) < Len(r) /\ Len(s) \in Nat /\ Len(r) \in Nat
        BY <2>1, <4>1, UnderLonger, PathIs
      <4>3. Len(k) <= Len(r)
        BY <4>1, <4>2
      <4>4. Under(k, r)
        BY <1>5, <2>1, <3>1, <4>1, <4>3, UnderInLine
      <4>5. QED
        BY <1>3, <2>1, <4>4
    <3>2. QED
      BY <1>3, <3>1
  <2>4. ASSUME kept # {}, x = s PROVE FALSE
    <3>1. Under(r, s) /\ Under(s, r)
      BY <1>5, <2>1, <2>4
    <3>2. r = s
      BY <2>1, <3>1, UnderBoth
    <3>3. QED
      BY <2>1, <2>4, <3>2
  <2>5. QED
    BY <1>4, <2>2, <2>3, <2>4
<1>6. Clear(f, P) \in Trees /\ Tree(Clear(f, P))
  BY <1>5, ClearTree
<1>7. \A x \in Paths : ~Under(s, x) => Clear(f, P)[x] = f[x]
  BY <1>4 DEF Clear
<1>8. QED
  BY <1>1, <1>6, <1>7

LEMMA BelowTree ==
  ASSUME NEW f \in Trees, Tree(f), NEW s \in Paths
  PROVE  /\ Clear(f, {q \in Paths : Under(s, q)}) \in Trees /\ Tree(Clear(f, {q \in Paths : Under(s, q)}))
         /\ Clear(f, {q \in Paths : Under(s, q) /\ q # s}) \in Trees
         /\ Tree(Clear(f, {q \in Paths : Under(s, q) /\ q # s}))
<1> DEFINE P == {q \in Paths : Under(s, q)}
           Q == {q \in Paths : Under(s, q) /\ q # s}
<1>1. \A r \in P, x \in Paths : Under(r, x) => x \in P
  BY UnderTwice
<1>2. ASSUME NEW r \in Q, NEW x \in Paths, Under(r, x) PROVE x \in Q
  <2>1. Under(s, x)
    BY <1>2, UnderTwice
  <2>2. x # s
    BY <1>2, UnderBoth
  <2>3. QED
    BY <2>1, <2>2
<1> HIDE DEF P, Q
<1>3. Clear(f, P) \in Trees /\ Tree(Clear(f, P))
  BY <1>1, ClearTree
<1>4. Clear(f, Q) \in Trees /\ Tree(Clear(f, Q))
  BY <1>2, ClearTree
<1>5. QED
  BY <1>3, <1>4 DEF P, Q

\* The operating system's rename() of what is not renamed to itself.
CanRename(f, s, d) ==
  /\ f[s] # None /\ HasParent(f, d) /\ ~Under(s, d)
  /\ IF f[s] = Dir
     THEN f[d] \in {None, Dir} /\ \A q \in Paths : Under(d, q) /\ q # d => f[q] = None
     ELSE f[d] # Dir
  /\ \A x \in Paths : Under(s, x) /\ f[x] # None => Shift(s, d, x) \in Paths
BelowPath(f, s) == {x \in Paths : Under(s, x) /\ f[x] # None}
Renamed(f, s, d) ==
  [q \in Paths |-> IF \E x \in BelowPath(f, s) : Shift(s, d, x) = q
                   THEN f[CHOOSE x \in BelowPath(f, s) : Shift(s, d, x) = q]
                   ELSE IF Under(s, q) THEN None ELSE f[q]]
LEMMA RenamedIs ==
  ASSUME NEW f \in Trees, NEW s \in Paths, NEW d \in Paths,
         \A x \in BelowPath(f, s) : Shift(s, d, x) \in Paths
  PROVE  /\ Renamed(f, s, d) \in Trees
         /\ \A x \in BelowPath(f, s) : Renamed(f, s, d)[Shift(s, d, x)] = f[x]
         /\ \A q \in Paths : (\A x \in BelowPath(f, s) : Shift(s, d, x) # q) =>
              Renamed(f, s, d)[q] = IF Under(s, q) THEN None ELSE f[q]
<1> DEFINE B == BelowPath(f, s)
           g == Renamed(f, s, d)
           back(q) == CHOOSE x \in B : Shift(s, d, x) = q
<1>1. \A x \in B : x \in Paths /\ Under(s, x) /\ Shift(s, d, x) \in Paths
  BY DEF BelowPath
<1>2. g = [q \in Paths |-> IF \E x \in B : Shift(s, d, x) = q THEN f[back(q)]
                           ELSE IF Under(s, q) THEN None ELSE f[q]]
  BY DEF Renamed
<1> HIDE DEF B, g
<1>3. ASSUME NEW x \in B PROVE back(Shift(s, d, x)) = x
  <2> DEFINE y == back(Shift(s, d, x))
  <2>1. y \in B /\ Shift(s, d, y) = Shift(s, d, x)
    OBVIOUS
  <2> HIDE DEF y
  <2>2. Shift(d, s, Shift(s, d, x)) = x /\ Shift(d, s, Shift(s, d, y)) = y
    BY <1>1, <2>1, ShiftBack
  <2>3. x = y
    BY <2>1, <2>2
  <2>4. QED
    BY <2>3 DEF y
<1>4. ASSUME NEW q \in Paths, NEW x \in B, Shift(s, d, x) = q PROVE back(q) = x
  BY <1>3, <1>4
<1> HIDE DEF back
<1>5. g \in Trees
  <2>1. ASSUME NEW q \in Paths
        PROVE  (IF \E x \in B : Shift(s, d, x) = q THEN f[back(q)] ELSE IF Under(s, q) THEN None ELSE f[q]) \in FileValues
    <3>1. CASE \E x \in B : Shift(s, d, x) = q
      BY <1>1, <1>4, <3>1 DEF Trees
    <3>2. QED
      BY <3>1 DEF Trees, FileValues
  <2>2. QED
    BY <1>2, <2>1 DEF Trees
<1>6. ASSUME NEW x \in B PROVE g[Shift(s, d, x)] = f[x]
  BY <1>1, <1>2, <1>3
<1>7. \A q \in Paths : (\A x \in B : Shift(s, d, x) # q) => g[q] = IF Under(s, q) THEN None ELSE f[q]
  BY <1>2
<1>8. QED
  BY <1>5, <1>6, <1>7 DEF B, g

LEMMA RenamedSame ==
  ASSUME NEW f \in Trees, NEW s \in Paths
  PROVE  Renamed(f, s, s) = f
<1> DEFINE g == Renamed(f, s, s)
<1>1. ASSUME NEW x \in Paths, Under(s, x) PROVE Shift(s, s, x) = x
  <2> DEFINE t == Shift(s, s, x)
  <2>1. s \in Seq(Names) /\ x \in Seq(Names) /\ Len(s) \in Nat /\ Len(x) \in Nat
    BY PathIs
  <2>2. Len(s) <= Len(x) /\ \A i \in 1..Len(s) : s[i] = x[i]
    BY <1>1, <2>1, UnderIs
  <2>3. /\ t \in Seq(Names) /\ Len(t) = Len(s) + (Len(x) - Len(s))
        /\ \A i \in 1..Len(s) : t[i] = s[i]
        /\ \A i \in 1..Len(x) - Len(s) : t[Len(s) + i] = x[Len(s) + i]
    BY <1>1, ShiftIs
  <2> HIDE DEF t
  <2>4. Len(t) = Len(x)
    BY <2>1, <2>3
  <2>5. ASSUME NEW i \in 1..Len(t) PROVE t[i] = x[i]
    <3>1. CASE i <= Len(s)
      BY <2>1, <2>2, <2>3, <3>1
    <3>2. CASE ~(i <= Len(s))
      <4>1. i - Len(s) \in 1..Len(x) - Len(s) /\ Len(s) + (i - Len(s)) = i
        BY <2>1, <2>4, <3>2
      <4>2. t[Len(s) + (i - Len(s))] = x[Len(s) + (i - Len(s))]
        BY <2>3, <4>1
      <4>3. QED
        BY <4>1, <4>2
    <3>3. QED
      BY <3>1, <3>2
  <2>6. t = x
    BY <2>1, <2>3, <2>4, <2>5, SamePath
  <2>7. QED
    BY <2>6 DEF t
<1>2. \A x \in BelowPath(f, s) : Shift(s, s, x) = x /\ x \in Paths
  BY <1>1 DEF BelowPath
<1>3. /\ g \in Trees
      /\ \A x \in BelowPath(f, s) : g[Shift(s, s, x)] = f[x]
      /\ \A q \in Paths : (\A x \in BelowPath(f, s) : Shift(s, s, x) # q) => g[q] = IF Under(s, q) THEN None ELSE f[q]
  BY <1>2, RenamedIs
<1> HIDE DEF g
<1>4. ASSUME NEW q \in Paths PROVE g[q] = f[q]
  <2>1. CASE q \in BelowPath(f, s)
    BY <1>2, <1>3, <2>1
  <2>2. CASE q \notin BelowPath(f, s)
    <3>1. \A x \in BelowPath(f, s) : Shift(s, s, x) # q
      BY <1>2, <2>2
    <3>2. g[q] = IF Under(s, q) THEN None ELSE f[q]
      BY <1>3, <3>1
    <3>3. Under(s, q) => f[q] = None
      BY <2>2 DEF BelowPath
    <3>4. QED
      BY <3>2, <3>3
  <2>3. QED
    BY <2>1, <2>2
<1>5. g = f
  BY <1>3, <1>4 DEF Trees
<1>6. QED
  BY <1>5 DEF g

LEMMA RenamedTree ==
  ASSUME NEW f \in Trees, Tree(f), NEW s \in Paths, NEW d \in Paths, CanRename(f, s, d)
  PROVE  Tree(Renamed(f, s, d))
<1> DEFINE B == BelowPath(f, s)
           g == Renamed(f, s, d)
           at(x) == Shift(s, d, x)
<1>1. \A x \in B : x \in Paths /\ Under(s, x) /\ f[x] # None /\ at(x) \in Paths /\ Under(d, at(x))
  BY ShiftUnder DEF BelowPath, CanRename
<1>2. /\ \A x \in B : g[at(x)] = f[x]
      /\ \A q \in Paths : (\A x \in B : at(x) # q) => g[q] = IF Under(s, q) THEN None ELSE f[q]
  BY <1>1, RenamedIs
<1>3. \A x \in Paths : Under(s, x) /\ f[x] # None => x \in B
  BY DEF BelowPath
<1> HIDE DEF B, g
<1>4. ASSUME NEW r \in Paths, Under(r, d), r # d PROVE g[r] = Dir
  <2>1. f[r] = Dir
    BY <1>4, ParentTree DEF CanRename
  <2>2. \A x \in B : at(x) # r
    BY <1>1, <1>4, UnderBoth
  <2>3. ~Under(s, r)
    BY <1>4, UnderTwice DEF CanRename
  <2>4. QED
    BY <1>2, <2>1, <2>2, <2>3
<1>5. ASSUME NEW x \in B, NEW r \in Paths, Under(r, at(x)), r # at(x) PROVE g[r] = Dir
  <2>1. CASE Under(d, r)
    <3> DEFINE y == Shift(d, s, r)
    <3>1. Shift(d, s, at(x)) = x
      BY <1>1, ShiftBack
    <3>2. y \in Paths /\ Under(y, x) /\ y # x
      BY <1>1, <1>5, <2>1, <3>1, ShiftAbove
    <3>3. Under(s, y)
      BY <2>1, <3>2, ShiftUnder
    <3>4. at(y) = r
      BY <2>1, <3>2, ShiftBack
    <3> HIDE DEF y
    <3>5. f[y] = Dir
      BY <1>1, <3>2 DEF Tree
    <3>6. y \in B
      BY <1>3, <3>2, <3>3, <3>5, FileKindsAre DEF FileKinds
    <3>7. QED
      BY <1>2, <3>4, <3>5, <3>6
  <2>2. CASE ~Under(d, r)
    <3>1. Len(r) \in Nat /\ Len(d) \in Nat
      BY PathIs
    <3>2. Under(r, d)
      BY <1>1, <1>5, <2>2, <3>1, UnderInLine
    <3>3. r # d
      BY <2>2, UnderSelf
    <3>4. QED
      BY <1>4, <3>2, <3>3
  <2>3. QED
    BY <2>1, <2>2
<1>6. ASSUME NEW q \in Paths, \A x \in B : at(x) # q, g[q] # None, NEW r \in Paths, Under(r, q), r # q
      PROVE  g[r] = Dir
  <2>1. ~Under(s, q) /\ f[q] # None
    BY <1>2, <1>6
  <2>2. f[r] = Dir
    BY <1>6, <2>1 DEF Tree
  <2>3. ~Under(s, r)
    BY <1>6, <2>1, UnderTwice
  <2>4. ASSUME NEW x \in B, at(x) = r PROVE FALSE
    <3>1. Under(d, q) /\ q # d
      BY <1>1, <1>6, <2>4, UnderTwice, UnderBoth
    <3>2. f[d] = Dir
      BY <2>1, <3>1 DEF Tree
    <3>3. f[s] = Dir
      BY <3>2 DEF CanRename
    <3>4. f[q] = None
      BY <3>1, <3>3 DEF CanRename
    <3>5. QED
      BY <2>1, <3>4
  <2>5. QED
    BY <1>2, <2>2, <2>3, <2>4
<1>7. ASSUME NEW q \in Paths, NEW r \in Paths, g[q] # None, Under(r, q), r # q PROVE g[r] = Dir
  <2>1. CASE \E x \in B : at(x) = q
    BY <1>5, <1>7, <2>1
  <2>2. CASE \A x \in B : at(x) # q
    BY <1>6, <1>7, <2>2
  <2>3. QED
    BY <2>1, <2>2
<1>8. Tree(g)
  BY <1>7 DEF Tree
<1>9. QED
  BY <1>8 DEF g

-----------------------------------------------------------------------------
(* What an operation keeps of the files there were, f, in those there are,  *)
(* g.                                                                       *)
FileOps == {"none", "write", "mkdir", "mkdirs", "remove", "rename", "copyTo", "moveTo"}
Lost(f, s, d, x) ==
  LET t == Shift(s, d, x) IN
  \/ Under(s, t) \/ t \notin Paths \/ f[t] = Dir
  \/ \E r \in Paths : Under(r, t) /\ r # t /\ IsFile(f, r)
  \/ x = s /\ ~HasParent(f, d)
Arrived(f, g, s, d) ==
  \A x \in Paths : Under(s, x) /\ IsFile(f, x) /\ ~Lost(f, s, d, x) => g[Shift(s, d, x)] = f[x]
OthersStay(f, g, s, d) ==
  \A x \in Paths : IsFile(f, x) /\ ~Under(s, x) /\ ~Under(d, x) => g[x] = f[x]
Kept(did, f, g) ==
  /\ did.op = "moveTo" /\ did.ok => Arrived(f, g, did.from, did.to)
  /\ ~did.ok /\ did.op # "remove" => g = f
  /\ OthersStay(f, g, did.from, did.to)
DoneState == [op : FileOps, from : Seq(Names), to : Seq(Names), ok : BOOLEAN]
FilesState == [fs : Trees, done : DoneState, was : Trees]
FilesInv(o) == o \in FilesState /\ Tree(o.fs) /\ Kept(o.done, o.was, o.fs)

LEMMA FilesHeld == class = "files" /\ FilesInv(obj) => FilesKept
<1> SUFFICES ASSUME FilesInv(obj) PROVE FilesKept
  OBVIOUS
<1>1. obj.fs \in Trees /\ Tree(obj.fs)
  BY DEF FilesInv, FilesState
<1>2. \A x \in Paths : obj.fs[x] # None => HasParent(obj.fs, x)
  BY <1>1, TreeParent
<1>3. Kept(obj.done, obj.was, obj.fs)
  BY DEF FilesInv
<1>4. \A x : Target(x) = Shift(obj.done.from, obj.done.to, x)
  BY DEF Target, Shift
<1>5. \A x : LostOnMove(x) <=> Lost(obj.was, obj.done.from, obj.done.to, x)
  BY <1>4 DEF LostOnMove, Lost
<1>6. obj.done.op = "moveTo" /\ obj.done.ok =>
         \A x \in Paths : Under(obj.done.from, x) /\ IsFile(obj.was, x) /\ ~LostOnMove(x) =>
                            obj.fs[Target(x)] = obj.was[x]
  BY <1>3, <1>4, <1>5 DEF Kept, Arrived
<1>7. ~obj.done.ok /\ obj.done.op # "remove" => obj.fs = obj.was
  BY <1>3 DEF Kept
<1>8. \A x \in Paths : IsFile(obj.was, x) /\ ~Under(obj.done.from, x) /\ ~Under(obj.done.to, x) =>
                          obj.fs[x] = obj.was[x]
  BY <1>3 DEF Kept, OthersStay
<1>9. QED
  BY <1>2, <1>6, <1>7, <1>8 DEF FilesKept

LEMMA NothingKept == ASSUME NEW f PROVE Kept(Nothing, f, f) /\ Nothing \in DoneState
<1>1. <<>> \in Seq(Names)
  OBVIOUS
<1>2. Nothing \in DoneState
  BY <1>1 DEF Nothing, DoneState, FileOps
<1>3. OthersStay(f, f, <<>>, <<>>)
  BY DEF OthersStay
<1>4. Nothing.op = "none" /\ Nothing.from = <<>> /\ Nothing.to = <<>>
  BY DEF Nothing
<1>5. QED
  BY <1>2, <1>3, <1>4 DEF Kept

LEMMA FilesInvInit == FilesInit => FilesInv(obj)
<1> SUFFICES ASSUME FilesInit PROVE FilesInv(obj)
  OBVIOUS
<1> DEFINE f == [p \in Paths |-> None]
<1>1. obj = [fs |-> f, done |-> Nothing, was |-> f]
  BY DEF FilesInit
<1>2. f \in Trees /\ Tree(f)
  BY DEF Trees, FileValues, Tree
<1> HIDE DEF f
<1>3. Kept(Nothing, f, f) /\ Nothing \in DoneState
  BY NothingKept
<1>4. QED
  BY <1>1, <1>2, <1>3 DEF FilesInv, FilesState

LEMMA DidKeeps ==
  ASSUME FilesInv(obj), NEW op \in FileOps, NEW s \in Paths, NEW d \in Paths, NEW ok \in BOOLEAN, NEW g \in Trees, Tree(g),
         Did(op, s, d, ok, g),
         op = "moveTo" /\ ok => Arrived(obj.fs, g, s, d),
         ~ok /\ op # "remove" => g = obj.fs,
         OthersStay(obj.fs, g, s, d)
  PROVE  FilesInv(obj')
<1> DEFINE did == [op |-> op, from |-> s, to |-> d, ok |-> ok]
<1>1. obj' = [fs |-> g, done |-> did, was |-> obj.fs]
  BY DEF Did
<1>2. did \in DoneState
  BY PathIs DEF DoneState
<1>3. did.op = op /\ did.from = s /\ did.to = d
  OBVIOUS
<1>4. did.ok <=> ok
  OBVIOUS
<1> HIDE DEF did
<1>5. Kept(did, obj.fs, g)
  BY <1>3, <1>4 DEF Kept
<1>6. obj.fs \in Trees
  BY DEF FilesInv, FilesState
<1>7. QED
  BY <1>1, <1>2, <1>5, <1>6 DEF FilesInv, FilesState

\* A file that is not lost arrives.
LEMMA CopiedArrives ==
  ASSUME NEW f \in Trees, Tree(f), NEW s \in Paths, NEW d \in Paths, NEW x \in Paths,
         Under(s, x), IsFile(f, x), ~Lost(f, s, d, x)
  PROVE  /\ Shift(s, d, x) \in Paths /\ ~Under(s, Shift(s, d, x))
         /\ Copied(f, s, d)[Shift(s, d, x)] = f[x]
<1> DEFINE t == Shift(s, d, x)
           g == FirstOf(f, s, d)
<1>1. /\ t \in Paths /\ ~Under(s, t) /\ f[t] # Dir /\ ~(\E r \in Paths : Under(r, t) /\ r # t /\ IsFile(f, r))
      /\ x = s => HasParent(f, d)
  BY DEF Lost
<1>2. Under(d, t) /\ Shift(d, s, t) = x
  BY <1>1, ShiftUnder, ShiftBack
<1>3. g \in Trees /\ Tree(g)
  BY CopiedIs
<1>4. Copied(f, s, d)[t] = IF ~Comes(f, g, s, d, t) THEN g[t]
                           ELSE IF f[Shift(d, s, t)] = Dir THEN (IF g[t] = None THEN Dir ELSE g[t])
                           ELSE IF g[t] = Dir THEN Dir ELSE f[Shift(d, s, t)]
  BY <1>1, CopiedIs
<1>5. \A r \in Paths : IsFile(g, r) <=> IsFile(f, r)
  BY MadeDirsIs DEF FirstOf
<1>6. x = s => t = d
  BY ShiftSelf
<1>7. f[x] # None /\ f[x] # Dir
  BY FileKindsAre DEF FileKinds, IsFile
<1> HIDE DEF t, g
<1>8. x = s => g = f
  BY <1>7 DEF FirstOf, g
<1>9. x # s => f[s] = Dir /\ g = MadeDirs(f, d) /\ d # t
  <2>1. ASSUME x # s PROVE f[s] = Dir
    BY <1>7, <2>1 DEF Tree
  <2>2. ASSUME x # s, d = t PROVE FALSE
    <3>1. Shift(d, s, d) = s
      BY ShiftSelf
    <3>2. QED
      BY <1>2, <2>2, <3>1
  <2>3. QED
    BY <2>1, <2>2 DEF FirstOf, g
<1>10. HasParent(g, d)
  <2>1. CASE x = s
    BY <1>1, <1>8, <2>1
  <2>2. ASSUME x # s, Len(d) > 1 PROVE g[Front(d)] = Dir
    <3> DEFINE p == Front(d)
    <3>1. p \in Paths /\ Under(p, d) /\ p # d
      BY <2>2, FrontIs
    <3> HIDE DEF p
    <3>2. ASSUME NEW r \in Paths, Under(r, p), IsFile(f, r) PROVE FALSE
      <4>1. Under(r, d) /\ r # d
        BY <3>1, <3>2, UnderTwice, UnderBoth
      <4>2. Under(r, t) /\ r # t
        BY <1>1, <1>2, <4>1, UnderTwice, UnderBoth
      <4>3. QED
        BY <1>1, <3>2, <4>2
    <3>3. ~FileAbove(f, p)
      BY <3>2 DEF FileAbove
    <3>4. ~IsFile(f, p)
      BY <3>1, <3>2, UnderSelf
    <3>5. f[p] = None \/ f[p] = Dir
      BY <3>1, <3>4 DEF Trees, FileValues, IsFile
    <3>6. g[p] = IF Under(p, d) /\ f[p] = None /\ ~FileAbove(f, p) THEN Dir ELSE f[p]
      BY <1>9, <2>2, <3>1, MadeDirsIs
    <3>7. g[p] = Dir
      BY <3>1, <3>3, <3>5, <3>6
    <3>8. QED
      BY <3>7 DEF p
  <2>3. QED
    BY <2>1, <2>2 DEF HasParent
<1>11. Comes(f, g, s, d, t)
  BY <1>1, <1>2, <1>5, <1>7, <1>10 DEF Comes
<1>12. g[t] # Dir
  <2>1. CASE x = s
    BY <1>1, <1>8, <2>1
  <2>2. CASE x # s
    <3>1. ~Under(t, d)
      BY <1>1, <1>2, <1>9, <2>2, UnderBoth
    <3>2. g[t] = f[t]
      BY <1>1, <1>9, <2>2, <3>1, MadeDirsIs
    <3>3. QED
      BY <1>1, <3>2
  <2>3. QED
    BY <2>1, <2>2
<1>13. QED
  BY <1>1, <1>2, <1>4, <1>7, <1>11, <1>12 DEF t

LEMMA CopiedStays ==
  ASSUME NEW f \in Trees, Tree(f), NEW s \in Paths, NEW d \in Paths
  PROVE  OthersStay(f, Copied(f, s, d), s, d)
<1>1. ASSUME NEW x \in Paths, IsFile(f, x), ~Under(d, x) PROVE Copied(f, s, d)[x] = f[x]
  <2>1. f[x] # None
    BY <1>1, FileKindsAre DEF IsFile, FileKinds
  <2>2. FirstOf(f, s, d)[x] = f[x]
    BY <2>1, MadeDirsIs DEF FirstOf
  <2>3. ~Comes(f, FirstOf(f, s, d), s, d, x)
    BY <1>1 DEF Comes
  <2>4. QED
    BY <2>2, <2>3, CopiedIs
<1>2. QED
  BY <1>1 DEF OthersStay

LEMMA MovedKeeps ==
  ASSUME NEW f \in Trees, Tree(f), NEW s \in Paths, NEW d \in Paths, NEW force \in BOOLEAN
  PROVE  /\ Moved(f, s, d, force).fs \in Trees /\ Tree(Moved(f, s, d, force).fs)
         /\ Moved(f, s, d, force).ok \in BOOLEAN
         /\ Moved(f, s, d, force).ok => Arrived(f, Moved(f, s, d, force).fs, s, d)
         /\ ~Moved(f, s, d, force).ok => Moved(f, s, d, force).fs = f
         /\ OthersStay(f, Moved(f, s, d, force).fs, s, d)
<1> DEFINE ok == CopyToOk(f, s, d, force)
           c == IF Under(s, d) THEN f ELSE Copied(f, s, d)
           P == {q \in Paths : Under(s, q)}
           m == Moved(f, s, d, force)
<1>1. m = [ok |-> ok, fs |-> IF ok THEN Clear(c, P) ELSE f]
  BY DEF Moved
<1>2. ok \in BOOLEAN
  BY DEF CopyToOk
<1>3. c \in Trees /\ Tree(c)
  BY CopiedIs, CopiedTree
<1>4. Clear(c, P) \in Trees /\ Tree(Clear(c, P))
  <2> HIDE DEF c
  <2>1. QED
    BY <1>3, BelowTree
<1>5. \A q \in Paths : Clear(c, P)[q] = IF Under(s, q) THEN None ELSE c[q]
  BY DEF Clear
<1>6. Arrived(f, Clear(c, P), s, d)
  <2>1. ASSUME NEW x \in Paths, Under(s, x), IsFile(f, x), ~Lost(f, s, d, x)
        PROVE  Clear(c, P)[Shift(s, d, x)] = f[x]
    <3> DEFINE t == Shift(s, d, x)
    <3>1. t \in Paths /\ ~Under(s, t) /\ Copied(f, s, d)[t] = f[x]
      BY <2>1, CopiedArrives
    <3>2. Under(d, t)
      BY <2>1, <3>1, ShiftUnder
    <3> HIDE DEF t
    <3>3. ~Under(s, d)
      BY <3>1, <3>2, UnderTwice
    <3>4. Clear(c, P)[t] = Copied(f, s, d)[t]
      BY <1>5, <3>1, <3>3
    <3>5. QED
      BY <3>1, <3>4 DEF t
  <2>2. QED
    BY <2>1 DEF Arrived
<1>7. OthersStay(f, Clear(c, P), s, d)
  <2>1. OthersStay(f, c, s, d)
    BY CopiedStays DEF OthersStay
  <2> HIDE DEF c, P
  <2>2. QED
    BY <1>5, <2>1 DEF OthersStay
<1>8. OthersStay(f, f, s, d)
  BY DEF OthersStay
<1> HIDE DEF ok, c, P, m
<1>9. (m.ok <=> ok) /\ m.ok \in BOOLEAN /\ m.fs = IF ok THEN Clear(c, P) ELSE f
  BY <1>1, <1>2
<1>10. QED
  BY <1>4, <1>6, <1>7, <1>8, <1>9 DEF m

LEMMA FilesStep == FilesInv(obj) /\ FilesNext => FilesInv(obj')
<1> SUFFICES ASSUME FilesInv(obj), FilesNext PROVE FilesInv(obj')
  OBVIOUS
<1> DEFINE f == obj.fs
<1>1. f \in Trees /\ Tree(f) /\ obj \in FilesState
  BY DEF FilesInv, FilesState
<1>2. \A s, d \in Paths : OthersStay(f, f, s, d)
  BY DEF OthersStay
<1>3. /\ "write" \in FileOps /\ "mkdir" \in FileOps /\ "mkdirs" \in FileOps /\ "remove" \in FileOps
      /\ "rename" \in FileOps /\ "copyTo" \in FileOps /\ "moveTo" \in FileOps
  BY DEF FileOps
<1>4. /\ "write" # "moveTo" /\ "mkdir" # "moveTo" /\ "mkdirs" # "moveTo" /\ "remove" # "moveTo"
      /\ "rename" # "moveTo" /\ "copyTo" # "moveTo"
  OBVIOUS
<1>5. \A s \in Paths : Under(s, s)
  BY UnderSelf
<1>6. CASE UserGoesOn
  <2>1. obj' = [obj EXCEPT !.done = Nothing, !.was = obj.fs]
    BY <1>6 DEF UserGoesOn
  <2>2. Kept(Nothing, f, f) /\ Nothing \in DoneState
    BY NothingKept
  <2>3. obj' \in FilesState /\ obj'.fs = f /\ obj'.was = f /\ obj'.done = Nothing
    BY <1>1, <2>1, <2>2 DEF FilesState
  <2>4. QED
    BY <1>1, <2>2, <2>3 DEF FilesInv
<1>7. ASSUME NEW s \in Paths, NEW v \in FileContents, UserWrites(s, v) PROVE FilesInv(obj')
  <2> DEFINE g == [f EXCEPT ![s] = v]
  <2>1. HasParent(f, s) /\ f[s] # Dir /\ Did("write", s, s, TRUE, g)
    BY <1>7 DEF UserWrites
  <2>2. g \in Trees /\ Tree(g)
    BY <1>1, <2>1, OneTree DEF FileValues
  <2>3. OthersStay(f, g, s, s)
    BY <1>5 DEF OthersStay
  <2> HIDE DEF g
  <2>4. QED
    BY <1>3, <1>4, <2>1, <2>2, <2>3, DidKeeps
<1>8. ASSUME NEW s \in Paths, mkdir(s) PROVE FilesInv(obj')
  <2> DEFINE ok == f[s] = None /\ HasParent(f, s)
             g == IF ok THEN [f EXCEPT ![s] = Dir] ELSE f
  <2>1. Did("mkdir", s, s, ok, g)
    BY <1>8 DEF mkdir
  <2>2. g \in Trees /\ Tree(g)
    <3>1. CASE ok
      <4>1. f[s] # Dir /\ Dir \in FileValues
        BY <3>1, FileKindsAre DEF FileKinds, FileValues
      <4>2. QED
        BY <1>1, <3>1, <4>1, OneTree
    <3>2. CASE ~ok
      BY <1>1, <3>2
    <3>3. QED
      BY <3>1, <3>2
  <2>3. OthersStay(f, g, s, s)
    BY <1>5 DEF OthersStay
  <2>4. ok \in BOOLEAN /\ (~ok => g = f)
    BY DEF HasParent
  <2> HIDE DEF g, ok
  <2>5. QED
    BY <1>3, <1>4, <2>1, <2>2, <2>3, <2>4, DidKeeps
<1>9. ASSUME NEW s \in Paths, mkdirs(s) PROVE FilesInv(obj')
  <2> DEFINE ok == f[s] = None
             g == IF ok THEN MadeDirs(f, s) ELSE f
  <2>1. Did("mkdirs", s, s, ok, g)
    BY <1>9 DEF mkdirs
  <2>2. g \in Trees /\ Tree(g)
    BY <1>1, MadeDirsTree
  <2>3. OthersStay(f, g, s, s)
    <3>1. ASSUME NEW x \in Paths, IsFile(f, x) PROVE g[x] = f[x]
      <4>1. f[x] # None
        BY <3>1, FileKindsAre DEF FileKinds, IsFile
      <4> HIDE DEF f
      <4>2. QED
        BY <1>1, <4>1, MadeDirsIs
    <3>2. QED
      BY <3>1 DEF OthersStay
  <2>4. ok \in BOOLEAN /\ (~ok => g = f)
    OBVIOUS
  <2> HIDE DEF g, ok
  <2>5. QED
    BY <1>3, <1>4, <2>1, <2>2, <2>3, <2>4, DidKeeps
<1>10. ASSUME NEW s \in Paths, NEW lower \in BOOLEAN, remove(s, lower) PROVE FilesInv(obj')
  <2> DEFINE ok == Removed(f, s, lower).ok
             g == Removed(f, s, lower).fs
  <2>1. Did("remove", s, s, ok, g)
    BY <1>10 DEF remove
  <2>2. g \in Trees /\ Tree(g) /\ ok \in BOOLEAN /\ \A x \in Paths : ~Under(s, x) => g[x] = f[x]
    <3> HIDE DEF f
    <3>1. QED
      BY <1>1, RemovedTree
  <2>3. OthersStay(f, g, s, s)
    BY <2>2 DEF OthersStay
  <2> HIDE DEF g, ok
  <2>4. QED
    BY <1>3, <1>4, <2>1, <2>2, <2>3, DidKeeps
<1>11. ASSUME NEW s \in Paths, empty(s) PROVE FilesInv(obj')
  <2> DEFINE P == {q \in Paths : Under(s, q) /\ q # s}
             g == IF f[s] = Dir THEN Clear(f, P) ELSE f
  <2>1. Did("remove", s, s, TRUE, g)
    BY <1>11 DEF empty
  <2>2. g \in Trees /\ Tree(g)
    <3> HIDE DEF f
    <3>1. QED
      BY <1>1, BelowTree
  <2>3. OthersStay(f, g, s, s)
    BY DEF OthersStay, Clear
  <2> HIDE DEF g
  <2>4. QED
    BY <1>3, <1>4, <2>1, <2>2, <2>3, DidKeeps
<1>12. ASSUME NEW s \in Paths, NEW d \in Paths, NEW lower \in BOOLEAN, copyTo(s, d, lower) PROVE FilesInv(obj')
  <2> DEFINE ok == CopyToOk(f, s, d, lower)
             g == IF ok THEN Copied(f, s, d) ELSE f
  <2>1. Did("copyTo", s, d, ok, g)
    BY <1>12 DEF copyTo
  <2>2. g \in Trees /\ Tree(g) /\ OthersStay(f, g, s, d)
    <3> HIDE DEF f
    <3>1. QED
      BY <1>1, <1>2, CopiedIs, CopiedTree, CopiedStays
  <2>3. ok \in BOOLEAN /\ (~ok => g = f)
    BY DEF CopyToOk
  <2> HIDE DEF g, ok
  <2>4. QED
    BY <1>3, <1>4, <2>1, <2>2, <2>3, DidKeeps
<1>13. ASSUME NEW s \in Paths, NEW d \in Paths, NEW lower \in BOOLEAN, moveTo(s, d, lower) PROVE FilesInv(obj')
  <2> DEFINE ok == Moved(f, s, d, lower).ok
             g == Moved(f, s, d, lower).fs
  <2>1. Did("moveTo", s, d, ok, g)
    BY <1>13 DEF moveTo
  <2>2. /\ g \in Trees /\ Tree(g) /\ ok \in BOOLEAN /\ (ok => Arrived(f, g, s, d)) /\ (~ok => g = f)
        /\ OthersStay(f, g, s, d)
    <3> HIDE DEF f
    <3>1. QED
      BY <1>1, MovedKeeps
  <2> HIDE DEF g, ok
  <2>3. QED
    BY <1>3, <1>4, <2>1, <2>2, DidKeeps
<1>14. ASSUME NEW s \in Paths, NEW d \in Paths, rename(s, d) PROVE FilesInv(obj')
  <2> DEFINE below == {x \in Paths : Under(s, x) /\ f[x] # None}
             can == /\ f[s] # None /\ HasParent(f, d)
                    /\ s = d \/ ~Under(s, d)
                    /\ IF f[s] = Dir
                       THEN s = d \/ (f[d] \in {None, Dir} /\ \A q \in Paths : Under(d, q) /\ q # d => f[q] = None)
                       ELSE f[d] # Dir
                    /\ \A x \in below : Shift(s, d, x) \in Paths
             g == IF can THEN Renamed(f, s, d) ELSE f
  <2>1. Did("rename", s, d, can, g)
    BY <1>14 DEF rename, Renamed, BelowPath, Shift
  <2>2. can \in BOOLEAN /\ (~can => g = f)
    BY DEF HasParent
  <2>3. CASE ~can
    <3>1. g = f
      BY <2>3
    <3> HIDE DEF g, can
    <3>2. QED
      BY <1>1, <1>2, <1>3, <1>4, <2>1, <2>2, <3>1, DidKeeps
  <2>4. CASE can /\ s = d
    <3>1. g = f
      <4> HIDE DEF f
      <4>1. QED
        BY <1>1, <2>4, RenamedSame
    <3> HIDE DEF g, can
    <3>2. QED
      BY <1>1, <1>2, <1>3, <1>4, <2>1, <2>2, <3>1, DidKeeps
  <2>5. CASE can /\ s # d
    <3>1. CanRename(f, s, d)
      BY <2>5 DEF CanRename
    <3>2. g = Renamed(f, s, d)
      BY <2>5
    <3>3. BelowPath(f, s) = below /\ \A x \in below : Shift(s, d, x) \in Paths
      BY <2>5 DEF BelowPath
    <3> HIDE DEF g, can, below, f
    <3>4. /\ g \in Trees
          /\ \A q \in Paths : (\A x \in BelowPath(f, s) : Shift(s, d, x) # q) => g[q] = IF Under(s, q) THEN None ELSE f[q]
      BY <1>1, <3>2, <3>3, RenamedIs
    <3>5. Tree(g)
      BY <1>1, <3>1, <3>2, RenamedTree
    <3>6. OthersStay(f, g, s, d)
      <4>1. ASSUME NEW x \in Paths, ~Under(s, x), ~Under(d, x) PROVE g[x] = f[x]
        <5>1. \A y \in BelowPath(f, s) : Shift(s, d, y) # x
          BY <3>3, <4>1, ShiftUnder DEF BelowPath
        <5>2. QED
          BY <3>4, <4>1, <5>1
      <4>2. QED
        BY <4>1 DEF OthersStay
    <3>7. QED
      BY <1>3, <1>4, <2>1, <2>2, <3>4, <3>5, <3>6, DidKeeps DEF f
  <2>6. QED
    BY <2>3, <2>4, <2>5
<1>15. QED
  BY <1>6, <1>7, <1>8, <1>9, <1>10, <1>11, <1>12, <1>13, <1>14 DEF FilesNext

-----------------------------------------------------------------------------
(* Settings.  Of a key that no two calls are about there is one event to be *)
(* told at most; it says what the listener has, and what it is to have.     *)
SettingsMaps == UNION {[keys -> {"1", "2"}] : keys \in SUBSET Keys}
KeyValues == {"1", "2", "none"}
SettingsCalls == [op : {"set", "remove", "clear"}, key : Keys, value : {"1", "2"}]
NoCall == [op |-> "none", key |-> <<>>, value |-> ""]
SettingsEvents ==
  [kind : {"Add", "Changed", "Del"}, key : Keys, value : KeyValues, old : KeyValues]
SettingsState ==
  [values : SettingsMaps, listens : BOOLEAN, copy : SettingsMaps, wrong : {FALSE},
   calls : [SettingsThreads -> SettingsCalls \union {NoCall}],
   toTell : [SettingsThreads -> Seq(SettingsEvents)], disturbed : SUBSET Keys, changes : Nat]

\* p for pc and o for obj: a thread is in a call about the key.
AboutKey(p, o, t, k) == p[t] # "idle" /\ k \in KeysOf(o.calls[t].op, o.calls[t].key)
\* The events of one call are about its keys, each about another one.
EventsFit(p, o, t) ==
  /\ p[t] # "idle" => o.calls[t] \in SettingsCalls
  /\ p[t] # "tell" => o.toTell[t] = <<>>
  /\ \A i \in 1..Len(o.toTell[t]) : LET e == o.toTell[t][i] IN
       /\ e.key \in KeysOf(o.calls[t].op, o.calls[t].key) /\ (e.kind = "Del" <=> e.value = "none")
       /\ \A j \in 1..Len(o.toTell[t]) : o.toTell[t][j].key = e.key => j = i
\* Two calls about a key disturb it, and so does one that has seen no listener.
Disturbing(p, o) ==
  /\ \A t, u \in SettingsThreads : t # u =>
       \A k \in Keys : AboutKey(p, o, t, k) /\ AboutKey(p, o, u, k) => k \in o.disturbed
  /\ o.listens => \A t \in SettingsThreads : p[t] = "quietly" =>
                    \A k \in Keys : AboutKey(p, o, t, k) => k \in o.disturbed
  /\ \A t \in SettingsThreads : p[t] \in {"change", "tell"} => o.listens
\* What the listener has of a key is what there is, but for what it has to be told.
ToldOf(o, k) ==
  \A t \in SettingsThreads : \A i \in 1..Len(o.toTell[t]) : LET e == o.toTell[t][i] IN
    e.key = k => ValueOf(o.copy, k) = e.old /\ ValueOf(o.values, k) = e.value
Untold(o, k) == \E t \in SettingsThreads : \E i \in 1..Len(o.toTell[t]) : o.toTell[t][i].key = k
Following(o, k) ==
  ToldOf(o, k) /\ (~Untold(o, k) => ValueOf(o.copy, k) = ValueOf(o.values, k))
Threaded(p) == p \in [SettingsThreads -> {"idle", "change", "quietly", "tell"}]
ListensInv(p, o) ==
  /\ Threaded(p) /\ o \in SettingsState
  /\ \A t \in SettingsThreads : EventsFit(p, o, t)
  /\ Disturbing(p, o)
  /\ o.listens => \A k \in Keys \ o.disturbed : Following(o, k)
SettingsInv == ListensInv(pc, obj)

LEMMA SettingsHeld == SettingsInv => ListenersExact
<1> SUFFICES ASSUME SettingsInv, obj.listens,
                    NEW k \in Keys \ obj.disturbed,
                    \A t \in SettingsThreads : pc[t] # "idle" => k \notin KeysOf(obj.calls[t].op, obj.calls[t].key)
             PROVE  ~obj.wrong /\ ValueOf(obj.copy, k) = ValueOf(obj.values, k)
  <2>1. SettingsInv => ~obj.wrong
    BY DEF SettingsInv, ListensInv, SettingsState
  <2>2. QED
    BY <2>1 DEF ListenersExact
<1>1. ~obj.wrong
  BY DEF SettingsInv, ListensInv, SettingsState
<1>2. ~Untold(obj, k)
  BY DEF SettingsInv, ListensInv, Untold, EventsFit
<1>3. QED
  BY <1>1, <1>2 DEF SettingsInv, ListensInv, Following

\* What maps hold after a change.
LEMMA With1Are ==
  ASSUME NEW m \in SettingsMaps, NEW key \in Keys, NEW value \in {"1", "2"}
  PROVE  /\ With1(m, key, value) \in SettingsMaps
         /\ \A k \in Keys : ValueOf(With1(m, key, value), k) = IF k = key THEN value ELSE ValueOf(m, k)
<1>1. PICK keys \in SUBSET Keys : m \in [keys -> {"1", "2"}]
  BY DEF SettingsMaps
<1>2. With1(m, key, value) \in [keys \union {key} -> {"1", "2"}]
  BY <1>1 DEF With1
<1>3. ASSUME NEW k \in Keys
      PROVE  ValueOf(With1(m, key, value), k) = IF k = key THEN value ELSE ValueOf(m, k)
  BY <1>1 DEF With1, ValueOf
<1>4. keys \union {key} \in SUBSET Keys
  OBVIOUS
<1>5. QED
  BY <1>2, <1>3, <1>4 DEF SettingsMaps

\* Maps, and what they hold after a change.
LEMMA MapsAre ==
  /\ NoSettings \in SettingsMaps /\ \A k \in Keys : ValueOf(NoSettings, k) = "none"
  /\ \A m \in SettingsMaps, key \in Keys :
       /\ ValueOf(m, key) \in KeyValues
       /\ Without(m, {key}) \in SettingsMaps
       /\ \A k \in Keys : ValueOf(Without(m, {key}), k) = IF k = key THEN "none" ELSE ValueOf(m, k)
<1>1. NoSettings \in SettingsMaps /\ \A k \in Keys : ValueOf(NoSettings, k) = "none"
  <2>1. NoSettings \in [{} -> {"1", "2"}] /\ {} \in SUBSET Keys /\ DOMAIN NoSettings = {}
    BY DEF NoSettings
  <2>2. QED
    BY <2>1 DEF SettingsMaps, ValueOf
<1>2. ASSUME NEW m \in SettingsMaps, NEW key \in Keys
      PROVE  /\ ValueOf(m, key) \in KeyValues
             /\ Without(m, {key}) \in SettingsMaps
             /\ \A k \in Keys : ValueOf(Without(m, {key}), k) = IF k = key THEN "none" ELSE ValueOf(m, k)
  <2>1. PICK keys \in SUBSET Keys : m \in [keys -> {"1", "2"}]
    BY DEF SettingsMaps
  <2>2. Without(m, {key}) \in [keys \ {key} -> {"1", "2"}]
    BY <2>1 DEF Without
  <2>3. ASSUME NEW k \in Keys
        PROVE  ValueOf(Without(m, {key}), k) = IF k = key THEN "none" ELSE ValueOf(m, k)
    BY <2>1 DEF Without, ValueOf
  <2>4. keys \ {key} \in SUBSET Keys
    OBVIOUS
  <2>5. Without(m, {key}) \in SettingsMaps
    BY <2>2, <2>4 DEF SettingsMaps
  <2>6. QED
    BY <2>1, <2>3, <2>5 DEF ValueOf, KeyValues
<1>3. QED
  BY <1>1, <1>2

LEMMA SettingsInvInit == SettingsInit => SettingsInv
<1> SUFFICES ASSUME SettingsInit PROVE SettingsInv
  OBVIOUS
<1> DEFINE calls == [t \in SettingsThreads |-> NoCall]
           toTell == [t \in SettingsThreads |-> <<>>]
<1>1. /\ pc = [t \in SettingsThreads |-> "idle"]
      /\ obj = [values |-> NoSettings, listens |-> FALSE, copy |-> NoSettings, wrong |-> FALSE,
               calls |-> calls, toTell |-> toTell, disturbed |-> {}, changes |-> 0]
  BY DEF SettingsInit, SettingsThreads, NoCall
<1>2. <<>> \in Seq(SettingsEvents) /\ Len(<<>>) = 0
  OBVIOUS
<1>3. calls \in [SettingsThreads -> SettingsCalls \union {NoCall}] /\ toTell \in [SettingsThreads -> Seq(SettingsEvents)]
  BY <1>2
<1>4. obj.calls = calls /\ obj.toTell = toTell /\ ~obj.listens
  BY <1>1
<1>5. \A t \in SettingsThreads : pc[t] = "idle" /\ toTell[t] = <<>>
  BY <1>1
<1>6. Threaded(pc)
  BY <1>1 DEF Threaded
<1> HIDE DEF calls, toTell
<1>7. obj \in SettingsState
  BY <1>1, <1>3, MapsAre DEF SettingsState
<1>8. \A t \in SettingsThreads : EventsFit(pc, obj, t)
  BY <1>2, <1>4, <1>5 DEF EventsFit
<1>9. Disturbing(pc, obj)
  BY <1>4, <1>5 DEF Disturbing, AboutKey
<1>10. QED
  BY <1>4, <1>6, <1>7, <1>8, <1>9 DEF SettingsInv, ListensInv

\* Threads of which the step says nothing, and the keys of calls.
LEMMA KeysAre ==
  ASSUME NEW c \in SettingsCalls
  PROVE  /\ KeysOf(c.op, c.key) \in SUBSET Keys
         /\ c.op # "clear" => KeysOf(c.op, c.key) = {c.key}
         /\ c.op = "clear" => KeysOf(c.op, c.key) = Keys
  BY DEF KeysOf, SettingsCalls

LEMMA OnChangedStep ==
  ASSUME SettingsInv, onChanged
  PROVE  SettingsInv'
<1> DEFINE disturbed == UNION {KeysOf(obj.calls[t].op, obj.calls[t].key) :
                                 t \in {u \in SettingsThreads : pc[u] # "idle"}}
<1>1. /\ obj \in SettingsState /\ Threaded(pc) /\ ~obj.listens /\ pc' = pc
      /\ obj' = [obj EXCEPT !.listens = TRUE, !.copy = obj.values, !.disturbed = disturbed]
      /\ \A t \in SettingsThreads : pc[t] # "tell" /\ EventsFit(pc, obj, t)
      /\ Disturbing(pc, obj)
  BY DEF SettingsInv, ListensInv, onChanged, Stay
<1>2. disturbed \in SUBSET Keys /\ \A t \in SettingsThreads : pc[t] # "idle" =>
        KeysOf(obj.calls[t].op, obj.calls[t].key) \subseteq disturbed
  BY <1>1, KeysAre DEF EventsFit
<1> HIDE DEF disturbed
<1>3. /\ obj' \in SettingsState /\ obj'.calls = obj.calls /\ obj'.toTell = obj.toTell
      /\ obj'.disturbed = disturbed /\ obj'.values = obj.values /\ obj'.copy = obj.values
  BY <1>1, <1>2 DEF SettingsState
<1>4. obj'.listens
  BY <1>1 DEF SettingsState
<1>5. \A t \in SettingsThreads : EventsFit(pc', obj', t)
  BY <1>1, <1>3 DEF EventsFit
<1>6. Disturbing(pc', obj')
  BY <1>1, <1>2, <1>3, <1>4 DEF Disturbing, AboutKey
<1>7. \A t \in SettingsThreads : obj.toTell[t] = <<>> /\ Len(<<>>) = 0
  BY <1>1 DEF EventsFit
<1>8. \A k \in Keys : Following(obj', k)
  BY <1>3, <1>7 DEF Following, ToldOf
<1>9. QED
  BY <1>1, <1>3, <1>5, <1>6, <1>8 DEF SettingsInv, ListensInv

LEMMA SettingsCallStep ==
  ASSUME SettingsInv, NEW t \in SettingsThreads, settingsCall(t)
  PROVE  SettingsInv'
<1>1. /\ obj \in SettingsState /\ Threaded(pc) /\ pc[t] = "idle"
      /\ \A u \in SettingsThreads : EventsFit(pc, obj, u)
      /\ Disturbing(pc, obj)
      /\ obj.listens => \A k \in Keys \ obj.disturbed : Following(obj, k)
  BY DEF SettingsInv, ListensInv, settingsCall
<1>2. PICK op \in {"set", "remove", "clear"}, key \in Keys, value \in {"1", "2"} :
        /\ obj' = [obj EXCEPT
                    !.calls[t] = [op |-> op, key |-> key, value |-> value], !.changes = @ + 1,
                    !.disturbed = @ \union
                      {k \in KeysOf(op, key) :
                         \E u \in SettingsThreads \ {t} :
                           pc[u] # "idle" /\ k \in KeysOf(obj.calls[u].op, obj.calls[u].key)}
                        \union (IF obj.listens THEN {} ELSE KeysOf(op, key))]
        /\ Go(t, IF obj.listens THEN "change" ELSE "quietly")
  BY DEF settingsCall
<1> DEFINE call == [op |-> op, key |-> key, value |-> value]
           calls == [obj.calls EXCEPT ![t] = call]
           more == {k \in KeysOf(op, key) :
                     \E u \in SettingsThreads \ {t} :
                       pc[u] # "idle" /\ k \in KeysOf(obj.calls[u].op, obj.calls[u].key)}
           unseen == IF obj.listens THEN {} ELSE KeysOf(op, key)
           disturbed == obj.disturbed \union more \union unseen
           next == IF obj.listens THEN "change" ELSE "quietly"
<1>3. call \in SettingsCalls /\ KeysOf(op, key) \in SUBSET Keys /\ call.op = op /\ call.key = key
  BY DEF SettingsCalls, KeysOf
<1>4. /\ calls \in [SettingsThreads -> SettingsCalls \union {NoCall}] /\ calls[t] = call
      /\ \A u \in SettingsThreads : u # t => calls[u] = obj.calls[u]
  BY <1>1, <1>3 DEF SettingsState
<1>5. /\ pc' = [pc EXCEPT ![t] = next] /\ Threaded(pc') /\ pc'[t] = next
      /\ \A u \in SettingsThreads : u # t => pc'[u] = pc[u]
  BY <1>1, <1>2 DEF Threaded, Go
<1>6. obj' = [obj EXCEPT !.calls = calls, !.changes = obj.changes + 1, !.disturbed = disturbed]
  BY <1>1, <1>2 DEF SettingsState
<1>7. disturbed \in SUBSET Keys /\ obj.disturbed \subseteq disturbed
  BY <1>1, <1>3 DEF SettingsState
<1>8. \A k \in Keys : k \in KeysOf(op, key) =>
        /\ \A u \in SettingsThreads : u # t /\ AboutKey(pc, obj, u, k) => k \in disturbed
        /\ ~obj.listens => k \in disturbed
  BY DEF AboutKey
<1>9. next = IF obj.listens THEN "change" ELSE "quietly"
  OBVIOUS
<1> HIDE DEF calls, disturbed, call, next
<1>10. /\ obj' \in SettingsState /\ obj'.calls = calls /\ obj'.toTell = obj.toTell
       /\ obj'.disturbed = disturbed /\ obj'.values = obj.values /\ obj'.copy = obj.copy
  <2>1. obj.changes + 1 \in Nat
    BY <1>1 DEF SettingsState
  <2>2. obj' \in SettingsState
    BY <1>1, <1>4, <1>6, <1>7, <2>1 DEF SettingsState
  <2>3. QED
    BY <1>1, <1>6, <2>2 DEF SettingsState
<1>11. obj'.listens = obj.listens
  BY <1>1, <1>6 DEF SettingsState
<1>12. ASSUME NEW u \in SettingsThreads PROVE EventsFit(pc', obj', u)
  <2>1. EventsFit(pc, obj, u) /\ Len(<<>>) = 0
    BY <1>1
  <2>2. CASE u = t
    BY <1>1, <1>3, <1>4, <1>5, <1>10, <2>1, <2>2 DEF EventsFit
  <2>3. CASE u # t
    BY <1>4, <1>5, <1>10, <2>1, <2>3 DEF EventsFit
  <2>4. QED
    BY <2>2, <2>3
<1>13. \A k \in Keys, u \in SettingsThreads :
         AboutKey(pc', obj', u, k) <=> IF u = t THEN k \in KeysOf(op, key) ELSE AboutKey(pc, obj, u, k)
  BY <1>3, <1>4, <1>5, <1>9, <1>10 DEF AboutKey
<1>14. Disturbing(pc', obj')
  <2>1. \A u, v \in SettingsThreads : u # v =>
          \A k \in Keys : AboutKey(pc', obj', u, k) /\ AboutKey(pc', obj', v, k) => k \in obj'.disturbed
    BY <1>1, <1>7, <1>8, <1>10, <1>13 DEF Disturbing
  <2>2. obj'.listens => \A u \in SettingsThreads : pc'[u] = "quietly" =>
                    \A k \in Keys : AboutKey(pc', obj', u, k) => k \in obj'.disturbed
    <3> SUFFICES ASSUME obj.listens, NEW u \in SettingsThreads, pc'[u] = "quietly", NEW k \in Keys,
                        AboutKey(pc', obj', u, k)
                 PROVE  k \in disturbed
      BY <1>10, <1>11
    <3>1. u # t
      BY <1>5, <1>9
    <3>2. pc[u] = "quietly" /\ AboutKey(pc, obj, u, k)
      BY <1>5, <1>13, <3>1
    <3>3. QED
      BY <1>1, <1>7, <3>2 DEF Disturbing
  <2>3. \A u \in SettingsThreads : pc'[u] \in {"change", "tell"} => obj'.listens
    BY <1>1, <1>5, <1>9, <1>11 DEF Disturbing
  <2>4. QED
    BY <2>1, <2>2, <2>3 DEF Disturbing
<1>15. obj'.listens => \A k \in Keys \ obj'.disturbed : Following(obj', k)
  BY <1>1, <1>7, <1>10, <1>11 DEF Following, ToldOf, Untold
<1>16. QED
  BY <1>5, <1>10, <1>12, <1>14, <1>15 DEF SettingsInv, ListensInv

\* A set in a sequence, each of its elements once.
LEMMA InSequence ==
  ASSUME NEW S, IsFiniteSet(S)
  PROVE  /\ SetToSeq(S) \in Seq(S)
         /\ \A x \in S : \E i \in 1..Len(SetToSeq(S)) : SetToSeq(S)[i] = x
         /\ \A i, j \in 1..Len(SetToSeq(S)) : SetToSeq(S)[i] = SetToSeq(S)[j] => i = j
<1>1. PICK f \in Bijection(1..Cardinality(S), S) : TRUE
  BY FS_CardinalityType DEF ExistsBijection
<1>2. f \in [1..Cardinality(S) -> S] /\ IsInjective(f)
  BY <1>1 DEF Bijection, Injection, IsInjective
<1>3. SetToSeq(S) \in [1..Cardinality(S) -> S] /\ IsInjective(SetToSeq(S))
  BY <1>2 DEF SetToSeq
<1>4. SetToSeq(S) \in Injection(1..Cardinality(S), S)
  BY <1>3 DEF Injection, IsInjective
<1>5. Cardinality(S) \in Nat
  BY FS_CardinalityType
<1>6. Cardinality(1..Cardinality(S)) = Cardinality(S)
  BY <1>5, FS_Interval
<1>7. SetToSeq(S) \in Surjection(1..Cardinality(S), S)
  BY <1>4, <1>6, FS_Injection
<1>8. \A x \in S : \E i \in 1..Cardinality(S) : SetToSeq(S)[i] = x
  BY <1>7 DEF Surjection
<1>9. Len(SetToSeq(S)) = Cardinality(S) /\ SetToSeq(S) \in Seq(S)
  BY <1>3, <1>5
<1>10. QED
  BY <1>3, <1>8, <1>9 DEF IsInjective

\* What a call tells is what it changes, each key once.
EventsFor(values, c, events, after) ==
  /\ events \in Seq(SettingsEvents) /\ after \in SettingsMaps
  /\ \A i \in 1..Len(events) : LET e == events[i] IN
       /\ e.key \in KeysOf(c.op, c.key) /\ (e.kind = "Del" <=> e.value = "none")
       /\ e.old = ValueOf(values, e.key) /\ e.value = ValueOf(after, e.key)
       /\ \A j \in 1..Len(events) : events[j].key = e.key => j = i
  /\ \A k \in Keys : (\A i \in 1..Len(events) : events[i].key # k) =>
       ValueOf(after, k) = ValueOf(values, k)
LEMMA EventsAre ==
  ASSUME obj \in SettingsState, NEW c \in SettingsCalls
  PROVE  EventsFor(obj.values, c, Events(c.op, c.key, c.value), Changed(c.op, c.key, c.value))
<1> DEFINE events == Events(c.op, c.key, c.value)
           after == Changed(c.op, c.key, c.value)
           old == ValueOf(obj.values, c.key)
<1>1. obj.values \in SettingsMaps /\ c.key \in Keys /\ c.value \in {"1", "2"}
      /\ c.op \in {"set", "remove", "clear"} /\ old \in KeyValues
  BY MapsAre DEF SettingsState, SettingsCalls
<1> DEFINE done == EventsFor(obj.values, c, events, after)
<1>2. ASSUME c.op = "set" PROVE done
  <2> DEFINE e == Event(IF old = "none" THEN "Add" ELSE "Changed", c.key, c.value, old)
  <2>1. events = <<e>> /\ after = With1(obj.values, c.key, c.value)
    BY <1>2 DEF Events, Changed
  <2>2. /\ e \in SettingsEvents /\ e.key = c.key /\ e.old = old /\ e.value = c.value /\ e.kind # "Del"
        /\ e.value # "none"
    BY <1>1 DEF SettingsEvents, Event, KeyValues
  <2>3. KeysOf(c.op, c.key) = {c.key}
    BY <1>2 DEF KeysOf
  <2> HIDE DEF e
  <2>4. /\ after \in SettingsMaps
        /\ \A k \in Keys : ValueOf(after, k) = IF k = c.key THEN c.value ELSE ValueOf(obj.values, k)
    <3>1. /\ With1(obj.values, c.key, c.value) \in SettingsMaps
          /\ \A k \in Keys : ValueOf(With1(obj.values, c.key, c.value), k)
                              = IF k = c.key THEN c.value ELSE ValueOf(obj.values, k)
      <4>1. obj.values \in SettingsMaps /\ c.key \in Keys /\ c.value \in {"1", "2"}
        BY <1>1
      <4>2. QED
        BY <4>1, With1Are
    <3>2. after = With1(obj.values, c.key, c.value)
      BY <2>1
    <3> HIDE DEF after
    <3>3. QED
      BY <3>1, <3>2
  <2>5. events \in Seq(SettingsEvents) /\ Len(events) = 1 /\ events[1] = e
    BY <2>1, <2>2
  <2> HIDE DEF events, after
  <2>6. QED
    BY <1>1, <2>2, <2>3, <2>4, <2>5 DEF EventsFor
<1>3. ASSUME c.op = "remove" PROVE done
  <2> DEFINE e == Event("Del", c.key, "none", old)
  <2>1. events = (IF old = "none" THEN <<>> ELSE <<e>>) /\ after = Without(obj.values, {c.key})
    BY <1>3 DEF Events, Changed
  <2>2. /\ e \in SettingsEvents /\ e.key = c.key /\ e.old = old /\ e.value = "none" /\ e.kind = "Del"
    BY <1>1 DEF SettingsEvents, Event, KeyValues
  <2>3. KeysOf(c.op, c.key) = {c.key}
    BY <1>3 DEF KeysOf
  <2> HIDE DEF e
  <2>4. /\ after \in SettingsMaps
        /\ \A k \in Keys : ValueOf(after, k) = IF k = c.key THEN "none" ELSE ValueOf(obj.values, k)
    BY <1>1, <2>1, MapsAre
  <2>5. CASE old = "none"
    <3>1. events \in Seq(SettingsEvents) /\ Len(events) = 0
      BY <2>1, <2>5
    <3> HIDE DEF events, after
    <3>2. QED
      BY <1>1, <2>4, <2>5, <3>1 DEF EventsFor
  <2>6. CASE old # "none"
    <3>1. events \in Seq(SettingsEvents) /\ Len(events) = 1 /\ events[1] = e
      BY <2>1, <2>2, <2>6
    <3> HIDE DEF events, after
    <3>2. QED
      BY <1>1, <2>2, <2>3, <2>4, <3>1 DEF EventsFor
  <2>7. QED
    BY <2>5, <2>6
<1>4. ASSUME c.op = "clear" PROVE done
  <2> DEFINE gone == SetToSeq(DOMAIN obj.values)
  <2>1. events = [i \in DOMAIN gone |-> Event("Del", gone[i], "none", obj.values[gone[i]])]
        /\ after = NoSettings
    BY <1>4 DEF Events, Changed
  <2>2. PICK keys \in SUBSET Keys : obj.values \in [keys -> {"1", "2"}]
    BY <1>1 DEF SettingsMaps
  <2>3. IsFiniteSet(keys) /\ DOMAIN obj.values = keys
    <3>1. IsFiniteSet(Keys)
      <4>1. IsFiniteSet({<<"a">>}) /\ IsFiniteSet({<<"a">>} \union {<<"a", "b">>})
        BY FS_Singleton, FS_AddElement
      <4>2. IsFiniteSet(({<<"a">>} \union {<<"a", "b">>}) \union {<<"b">>})
        BY <4>1, FS_AddElement
      <4>3. Keys = ({<<"a">>} \union {<<"a", "b">>}) \union {<<"b">>}
        BY DEF Keys
      <4>4. QED
        BY <4>2, <4>3
    <3>2. QED
      BY <2>2, <3>1, FS_Subset
  <2>4. /\ gone \in Seq(keys) /\ \A x \in keys : \E i \in 1..Len(gone) : gone[i] = x
        /\ \A i, j \in 1..Len(gone) : gone[i] = gone[j] => i = j
    BY <2>3, InSequence
  <2> HIDE DEF gone
  <2>5. /\ Len(events) = Len(gone) /\ Len(gone) \in Nat
        /\ \A i \in 1..Len(gone) : events[i] = Event("Del", gone[i], "none", obj.values[gone[i]])
    BY <2>1, <2>4
  <2>6. \A i \in 1..Len(gone) : gone[i] \in keys /\ obj.values[gone[i]] \in {"1", "2"}
    BY <2>2, <2>4
  <2>7. \A i \in 1..Len(gone) :
          /\ events[i] \in SettingsEvents /\ events[i].key = gone[i] /\ events[i].kind = "Del"
          /\ events[i].value = "none" /\ events[i].old = ValueOf(obj.values, gone[i])
    <3>1. ASSUME NEW i \in 1..Len(gone)
          PROVE  /\ events[i] \in SettingsEvents /\ events[i].key = gone[i] /\ events[i].kind = "Del"
                 /\ events[i].value = "none" /\ events[i].old = ValueOf(obj.values, gone[i])
      <4> DEFINE e == Event("Del", gone[i], "none", obj.values[gone[i]])
      <4>1. gone[i] \in Keys /\ obj.values[gone[i]] \in KeyValues /\ "none" \in KeyValues
            /\ ValueOf(obj.values, gone[i]) = obj.values[gone[i]]
        BY <2>3, <2>6 DEF KeyValues, ValueOf
      <4>2. /\ e \in SettingsEvents /\ e.key = gone[i] /\ e.kind = "Del" /\ e.value = "none"
            /\ e.old = obj.values[gone[i]]
        BY <4>1 DEF SettingsEvents, Event
      <4>3. events[i] = e
        BY <2>5
      <4> HIDE DEF e, events
      <4>4. QED
        BY <4>1, <4>2, <4>3
    <3>2. QED
      BY <3>1
  <2>8. events \in Seq(SettingsEvents)
    <3>1. DOMAIN events = 1..Len(gone)
      BY <2>1, <2>4
    <3>2. events = [i \in 1..Len(gone) |-> events[i]]
      BY <2>1, <3>1
    <3> HIDE DEF events
    <3>3. events \in [1..Len(gone) -> SettingsEvents]
      BY <2>7, <3>1, <3>2
    <3>4. QED
      BY <2>5, <3>3
  <2>9. /\ after \in SettingsMaps /\ \A k \in Keys : ValueOf(after, k) = "none"
    BY <2>1, MapsAre
  <2>10. \A k \in Keys : k \notin keys => ValueOf(obj.values, k) = "none"
    BY <2>3 DEF ValueOf
  <2>11. KeysOf(c.op, c.key) = Keys
    BY <1>4 DEF KeysOf
  <2> HIDE DEF events, after
  <2>12. QED
    BY <2>4, <2>5, <2>6, <2>7, <2>8, <2>9, <2>10, <2>11 DEF EventsFor
<1>5. QED
  BY <1>1, <1>2, <1>3, <1>4

LEMMA SettingsChangeStep ==
  ASSUME SettingsInv, NEW t \in SettingsThreads, settingsChange(t)
  PROVE  SettingsInv'
<1> DEFINE c == obj.calls[t]
           events == Events(c.op, c.key, c.value)
           after == Changed(c.op, c.key, c.value)
           toTell == [obj.toTell EXCEPT ![t] = events]
<1>1. /\ obj \in SettingsState /\ Threaded(pc) /\ pc[t] = "change"
      /\ \A u \in SettingsThreads : EventsFit(pc, obj, u)
      /\ Disturbing(pc, obj)
      /\ obj.listens => \A k \in Keys \ obj.disturbed : Following(obj, k)
      /\ obj' = [obj EXCEPT !.values = after, !.toTell = toTell]
      /\ pc' = [pc EXCEPT ![t] = "tell"]
  BY DEF SettingsInv, ListensInv, settingsChange, At, Go
<1>2. c \in SettingsCalls
  BY <1>1 DEF EventsFit
<1>a. EventsFor(obj.values, c, events, after)
  BY <1>1, <1>2, EventsAre
<1> HIDE DEF events, after
<1>3. /\ events \in Seq(SettingsEvents) /\ after \in SettingsMaps
      /\ \A i \in 1..Len(events) : LET e == events[i] IN
           /\ e.key \in KeysOf(c.op, c.key) /\ (e.kind = "Del" <=> e.value = "none")
           /\ e.old = ValueOf(obj.values, e.key) /\ e.value = ValueOf(after, e.key)
           /\ \A j \in 1..Len(events) : events[j].key = e.key => j = i
      /\ \A k \in Keys : (\A i \in 1..Len(events) : events[i].key # k) =>
           ValueOf(after, k) = ValueOf(obj.values, k)
  BY <1>a DEF EventsFor
<1> HIDE DEF events, after
<1>4. /\ toTell \in [SettingsThreads -> Seq(SettingsEvents)] /\ toTell[t] = events
      /\ \A u \in SettingsThreads : u # t => toTell[u] = obj.toTell[u]
  BY <1>1, <1>3 DEF SettingsState
<1>5. /\ Threaded(pc') /\ pc'[t] = "tell" /\ \A u \in SettingsThreads : u # t => pc'[u] = pc[u]
  BY <1>1 DEF Threaded
<1> HIDE DEF toTell
<1>6. /\ obj' \in SettingsState /\ obj'.calls = obj.calls /\ obj'.toTell = toTell
      /\ obj'.disturbed = obj.disturbed /\ obj'.values = after /\ obj'.copy = obj.copy
  <2>1. obj' \in SettingsState
    BY <1>1, <1>3, <1>4 DEF SettingsState
  <2>2. QED
    BY <1>1, <2>1 DEF SettingsState
<1>7. obj'.listens = obj.listens
  BY <1>1 DEF SettingsState
<1>8. ASSUME NEW u \in SettingsThreads PROVE EventsFit(pc', obj', u)
  <2>1. EventsFit(pc, obj, u)
    BY <1>1
  <2>2. CASE u = t
    BY <1>2, <1>3, <1>4, <1>5, <1>6, <2>2 DEF EventsFit
  <2>3. CASE u # t
    BY <1>4, <1>5, <1>6, <2>1, <2>3 DEF EventsFit
  <2>4. QED
    BY <2>2, <2>3
<1>9. \A k \in Keys, u \in SettingsThreads : AboutKey(pc', obj', u, k) <=> AboutKey(pc, obj, u, k)
  BY <1>1, <1>5, <1>6 DEF AboutKey
<1>10. Disturbing(pc', obj') /\ obj.listens
  BY <1>1, <1>5, <1>6, <1>7, <1>9 DEF Disturbing
<1>11. ASSUME NEW k \in Keys \ obj.disturbed PROVE Following(obj', k)
  <2>1. Following(obj, k)
    BY <1>1, <1>10
  <2>2. obj.toTell[t] = <<>> /\ Len(<<>>) = 0
    BY <1>1 DEF EventsFit
  <2>3. CASE \A i \in 1..Len(events) : events[i].key # k
    <3>1. ValueOf(after, k) = ValueOf(obj.values, k)
      BY <1>3, <2>3
    <3>2. ToldOf(obj', k)
      BY <1>4, <1>6, <2>1, <2>3, <3>1 DEF Following, ToldOf
    <3>3. Untold(obj, k) => Untold(obj', k)
      BY <1>4, <1>6, <2>2 DEF Untold
    <3>4. QED
      BY <1>6, <2>1, <3>1, <3>2, <3>3 DEF Following
  <2>4. ASSUME NEW i \in 1..Len(events), events[i].key = k PROVE Following(obj', k)
    <3>1. AboutKey(pc, obj, t, k)
      BY <1>1, <1>3, <2>4 DEF AboutKey
    <3>2. \A u \in SettingsThreads : u # t => ~AboutKey(pc, obj, u, k)
      BY <1>1, <3>1 DEF Disturbing
    <3>3. \A u \in SettingsThreads : \A j \in 1..Len(obj.toTell[u]) : obj.toTell[u][j].key # k
      <4>1. ASSUME NEW u \in SettingsThreads, NEW j \in 1..Len(obj.toTell[u]), obj.toTell[u][j].key = k
            PROVE  FALSE
        <5>1. EventsFit(pc, obj, u)
          BY <1>1
        <5>2. pc[u] = "tell"
          BY <4>1, <5>1 DEF EventsFit
        <5>3. AboutKey(pc, obj, u, k)
          BY <4>1, <5>1, <5>2 DEF EventsFit, AboutKey
        <5>4. QED
          BY <1>1, <3>2, <5>2, <5>3
      <4>2. QED
        BY <4>1
    <3>4. ValueOf(obj.copy, k) = ValueOf(obj.values, k)
      BY <2>1, <3>3 DEF Following, Untold
    <3>5. ToldOf(obj', k)
      <4>1. ASSUME NEW u \in SettingsThreads, NEW j \in 1..Len(toTell[u]), toTell[u][j].key = k
            PROVE  ValueOf(obj.copy, k) = toTell[u][j].old /\ ValueOf(after, k) = toTell[u][j].value
        BY <1>3, <1>4, <3>3, <3>4, <4>1
      <4>2. QED
        BY <1>6, <4>1 DEF ToldOf
    <3>6. Untold(obj', k)
      BY <1>4, <1>6, <2>4 DEF Untold
    <3>7. QED
      BY <3>5, <3>6 DEF Following
  <2>5. QED
    BY <2>3, <2>4
<1>12. QED
  BY <1>5, <1>6, <1>8, <1>10, <1>11 DEF SettingsInv, ListensInv

LEMMA SettingsQuietStep ==
  ASSUME SettingsInv, NEW t \in SettingsThreads, settingsQuietly(t)
  PROVE  SettingsInv'
<1> DEFINE c == obj.calls[t]
           events == Events(c.op, c.key, c.value)
           after == Changed(c.op, c.key, c.value)
<1>1. /\ obj \in SettingsState /\ Threaded(pc) /\ pc[t] = "quietly"
      /\ \A u \in SettingsThreads : EventsFit(pc, obj, u)
      /\ Disturbing(pc, obj)
      /\ obj.listens => \A k \in Keys \ obj.disturbed : Following(obj, k)
      /\ obj' = [obj EXCEPT !.values = after]
      /\ pc' = [pc EXCEPT ![t] = "idle"]
  BY DEF SettingsInv, ListensInv, settingsQuietly, At, Go
<1>2. c \in SettingsCalls
  BY <1>1 DEF EventsFit
<1>a. EventsFor(obj.values, c, events, after)
  BY <1>1, <1>2, EventsAre
<1> HIDE DEF events, after
<1>3. /\ after \in SettingsMaps
      /\ \A k \in Keys : k \notin KeysOf(c.op, c.key) => ValueOf(after, k) = ValueOf(obj.values, k)
  <2>1. \A k \in Keys : k \notin KeysOf(c.op, c.key) => \A i \in 1..Len(events) : events[i].key # k
    BY <1>a DEF EventsFor
  <2>2. QED
    BY <1>a, <2>1 DEF EventsFor
<1>4. /\ Threaded(pc') /\ pc'[t] = "idle" /\ \A u \in SettingsThreads : u # t => pc'[u] = pc[u]
  BY <1>1 DEF Threaded
<1>5. /\ obj' \in SettingsState /\ obj'.calls = obj.calls /\ obj'.toTell = obj.toTell
      /\ obj'.disturbed = obj.disturbed /\ obj'.values = after /\ obj'.copy = obj.copy
  <2>1. obj' \in SettingsState
    BY <1>1, <1>3 DEF SettingsState
  <2>2. QED
    BY <1>1, <2>1 DEF SettingsState
<1>6. obj'.listens = obj.listens
  BY <1>1 DEF SettingsState
<1>7. ASSUME NEW u \in SettingsThreads PROVE EventsFit(pc', obj', u)
  <2>1. EventsFit(pc, obj, u)
    BY <1>1
  <2>2. pc'[u] # "tell" => pc[u] # "tell"
    BY <1>1, <1>4
  <2>3. pc'[u] # "idle" => pc[u] # "idle"
    BY <1>1, <1>4
  <2>4. QED
    BY <1>5, <2>1, <2>2, <2>3 DEF EventsFit
<1>8. \A k \in Keys, u \in SettingsThreads : AboutKey(pc', obj', u, k) => AboutKey(pc, obj, u, k)
  BY <1>1, <1>4, <1>5 DEF AboutKey
<1>9. Disturbing(pc', obj')
  <2>1. \A u \in SettingsThreads : pc'[u] = "quietly" => pc[u] = "quietly"
    BY <1>1, <1>4
  <2>2. \A u \in SettingsThreads : pc'[u] \in {"change", "tell"} => pc[u] \in {"change", "tell"}
    BY <1>1, <1>4
  <2>3. QED
    BY <1>1, <1>5, <1>6, <1>8, <2>1, <2>2 DEF Disturbing
<1>10. ASSUME obj.listens, NEW k \in Keys \ obj.disturbed PROVE Following(obj', k)
  <2>1. ~AboutKey(pc, obj, t, k)
    BY <1>1, <1>10 DEF Disturbing
  <2>2. ValueOf(after, k) = ValueOf(obj.values, k)
    BY <1>1, <1>3, <2>1 DEF AboutKey
  <2>3. QED
    BY <1>1, <1>5, <1>10, <2>2 DEF Following, ToldOf, Untold
<1>11. QED
  BY <1>4, <1>5, <1>6, <1>7, <1>9, <1>10 DEF SettingsInv, ListensInv

LEMMA SettingsTellStep ==
  ASSUME SettingsInv, NEW t \in SettingsThreads, settingsTell(t)
  PROVE  SettingsInv'
<1> DEFINE e == Head(obj.toTell[t])
           rest == Tail(obj.toTell[t])
           toTell == [obj.toTell EXCEPT ![t] = rest]
           copy == IF e.kind = "Del" THEN Without(obj.copy, {e.key}) ELSE With1(obj.copy, e.key, e.value)
           wrong == obj.wrong \/ (e.key \notin obj.disturbed /\ ValueOf(obj.copy, e.key) # e.old)
<1>1. /\ obj \in SettingsState /\ Threaded(pc) /\ pc[t] = "tell" /\ obj.toTell[t] # <<>>
      /\ \A u \in SettingsThreads : EventsFit(pc, obj, u)
      /\ Disturbing(pc, obj)
      /\ obj.listens /\ \A k \in Keys \ obj.disturbed : Following(obj, k)
      /\ pc' = pc
  BY DEF SettingsInv, ListensInv, settingsTell, At, Disturbing
<1>2. obj' = [obj EXCEPT !.toTell = toTell, !.copy = copy, !.wrong = wrong]
  BY <1>1 DEF settingsTell, SettingsState
<1>3. /\ obj.toTell[t] \in Seq(SettingsEvents) /\ Len(obj.toTell[t]) \in Nat /\ Len(obj.toTell[t]) > 0
      /\ e = obj.toTell[t][1] /\ e \in SettingsEvents /\ rest \in Seq(SettingsEvents)
      /\ Len(rest) = Len(obj.toTell[t]) - 1
      /\ \A i \in 1..Len(rest) : rest[i] = obj.toTell[t][i + 1] /\ i + 1 \in 1..Len(obj.toTell[t]) /\ i + 1 # 1
  BY <1>1 DEF SettingsState
<1>4. /\ toTell \in [SettingsThreads -> Seq(SettingsEvents)] /\ toTell[t] = rest
      /\ \A u \in SettingsThreads : u # t => toTell[u] = obj.toTell[u]
  BY <1>1, <1>3 DEF SettingsState
<1>5. /\ e.key \in Keys /\ e.value \in KeyValues /\ (e.kind = "Del" <=> e.value = "none")
      /\ e.key \in KeysOf(obj.calls[t].op, obj.calls[t].key)
      /\ \A i \in 1..Len(rest) : rest[i].key # e.key
  <2>1. EventsFit(pc, obj, t) /\ 1 \in 1..Len(obj.toTell[t])
    BY <1>1, <1>3
  <2>2. e.key \in Keys /\ e.value \in KeyValues
    BY <1>3 DEF SettingsEvents
  <2>3. \A i \in 1..Len(rest) : rest[i].key # e.key
    BY <1>3, <2>1 DEF EventsFit
  <2>4. QED
    BY <1>3, <2>1, <2>2, <2>3 DEF EventsFit
<1>6. \A u \in SettingsThreads : u # t => \A i \in 1..Len(obj.toTell[u]) :
        obj.toTell[u][i].key = e.key => e.key \in obj.disturbed
  <2>1. ASSUME NEW u \in SettingsThreads, u # t, NEW i \in 1..Len(obj.toTell[u]), obj.toTell[u][i].key = e.key
        PROVE  e.key \in obj.disturbed
    <3>1. EventsFit(pc, obj, u)
      BY <1>1
    <3>2. pc[u] = "tell"
      BY <2>1, <3>1 DEF EventsFit
    <3>3. AboutKey(pc, obj, u, e.key) /\ AboutKey(pc, obj, t, e.key)
      BY <1>1, <1>5, <2>1, <3>1, <3>2 DEF EventsFit, AboutKey
    <3>4. QED
      BY <1>1, <1>5, <2>1, <3>3 DEF Disturbing
  <2>2. QED
    BY <2>1
<1>7. e.key \notin obj.disturbed => ValueOf(obj.copy, e.key) = e.old /\ ValueOf(obj.values, e.key) = e.value
  BY <1>1, <1>3, <1>5 DEF Following, ToldOf
<1>8. wrong = FALSE
  <2>1. obj.wrong = FALSE
    BY <1>1 DEF SettingsState
  <2>2. QED
    BY <1>7, <2>1
<1>9. /\ copy \in SettingsMaps
      /\ \A k \in Keys : ValueOf(copy, k) = IF k = e.key THEN e.value ELSE ValueOf(obj.copy, k)
  <2>1. obj.copy \in SettingsMaps
    BY <1>1 DEF SettingsState
  <2> DEFINE key == e.key
             value == e.value
  <2>2. key \in Keys /\ value \in KeyValues
    BY <1>5
  <2>3. copy = IF value = "none" THEN Without(obj.copy, {key}) ELSE With1(obj.copy, key, value)
    BY <1>5
  <2>4. QED
    <3> HIDE DEF key, value, copy
    <3>1. CASE value = "none"
      <4>1. /\ Without(obj.copy, {key}) \in SettingsMaps
            /\ \A k \in Keys : ValueOf(Without(obj.copy, {key}), k) = IF k = key THEN "none" ELSE ValueOf(obj.copy, k)
        BY <2>1, <2>2, MapsAre
      <4>2. copy = Without(obj.copy, {key})
        BY <2>3, <3>1
      <4>3. copy \in SettingsMaps /\ \A k \in Keys : ValueOf(copy, k) = IF k = key THEN value ELSE ValueOf(obj.copy, k)
        BY <3>1, <4>1, <4>2
      <4>4. QED
        BY <4>3 DEF key, value
    <3>2. CASE value # "none"
      <4>1. value \in {"1", "2"}
        BY <2>2, <3>2 DEF KeyValues
      <4>2. /\ With1(obj.copy, key, value) \in SettingsMaps
            /\ \A k \in Keys : ValueOf(With1(obj.copy, key, value), k) = IF k = key THEN value ELSE ValueOf(obj.copy, k)
        BY <2>1, <2>2, <4>1, With1Are
      <4>3. copy = With1(obj.copy, key, value)
        BY <2>3, <3>2
      <4>4. copy \in SettingsMaps /\ \A k \in Keys : ValueOf(copy, k) = IF k = key THEN value ELSE ValueOf(obj.copy, k)
        BY <4>2, <4>3
      <4>5. QED
        BY <4>4 DEF key, value
    <3>3. QED
      BY <3>1, <3>2
<1> HIDE DEF toTell, copy, wrong, rest, e
<1>10. /\ obj' \in SettingsState /\ obj'.calls = obj.calls /\ obj'.toTell = toTell
       /\ obj'.disturbed = obj.disturbed /\ obj'.values = obj.values /\ obj'.copy = copy
  <2>1. wrong \in {FALSE}
    BY <1>8
  <2>2. obj' \in SettingsState
    BY <1>1, <1>2, <1>4, <1>9, <2>1 DEF SettingsState
  <2>3. QED
    BY <1>1, <1>2, <2>2 DEF SettingsState
<1>11. obj'.listens = obj.listens
  BY <1>1, <1>2 DEF SettingsState
<1>12. ASSUME NEW u \in SettingsThreads PROVE EventsFit(pc', obj', u)
  <2>1. EventsFit(pc, obj, u)
    BY <1>1
  <2>2. CASE u = t
    <3>a. /\ \A i \in 1..Len(obj.toTell[t]) :
               /\ obj.toTell[t][i].key \in KeysOf(obj.calls[t].op, obj.calls[t].key)
               /\ (obj.toTell[t][i].kind = "Del" <=> obj.toTell[t][i].value = "none")
          /\ \A i, j \in 1..Len(obj.toTell[t]) : obj.toTell[t][j].key = obj.toTell[t][i].key => j = i
      BY <2>1, <2>2 DEF EventsFit
    <3>1. \A i \in 1..Len(rest) :
            /\ rest[i].key \in KeysOf(obj.calls[t].op, obj.calls[t].key)
            /\ (rest[i].kind = "Del" <=> rest[i].value = "none")
      <4>1. ASSUME NEW i \in 1..Len(rest)
            PROVE  /\ rest[i].key \in KeysOf(obj.calls[t].op, obj.calls[t].key)
                   /\ (rest[i].kind = "Del" <=> rest[i].value = "none")
        <5> DEFINE e2 == obj.toTell[t][i + 1]
        <5>1. rest[i] = e2 /\ i + 1 \in 1..Len(obj.toTell[t])
          BY <1>3
        <5>2. e2.key \in KeysOf(obj.calls[t].op, obj.calls[t].key) /\ (e2.kind = "Del" <=> e2.value = "none")
          BY <3>a, <5>1
        <5> HIDE DEF e2
        <5>3. QED
          BY <5>1, <5>2
      <4>2. QED
        BY <4>1
    <3>2. \A i, j \in 1..Len(rest) : rest[i].key = rest[j].key => j = i
      <4>1. ASSUME NEW i \in 1..Len(rest), NEW j \in 1..Len(rest), rest[i].key = rest[j].key
            PROVE  j = i
        <5>1. i + 1 = j + 1
          <6>1. /\ i + 1 \in 1..Len(obj.toTell[t]) /\ j + 1 \in 1..Len(obj.toTell[t])
                /\ obj.toTell[t][i + 1].key = obj.toTell[t][j + 1].key
            BY <1>3, <4>1
          <6>2. QED
            BY <3>a, <6>1
        <5>2. QED
          BY <5>1
      <4>2. QED
        BY <4>1
    <3>3. obj.calls[t] \in SettingsCalls
      BY <1>1, <2>1, <2>2 DEF EventsFit
    <3>4. QED
      BY <1>1, <1>4, <1>10, <2>2, <3>1, <3>2, <3>3 DEF EventsFit
  <2>3. CASE u # t
    <3>1. obj'.toTell[u] = obj.toTell[u]
      BY <1>4, <1>10, <2>3
    <3>2. obj'.calls = obj.calls /\ pc' = pc
      BY <1>1, <1>10
    <3>3. QED
      BY ONLY <2>1, <3>1, <3>2 DEF EventsFit
  <2>4. QED
    BY <2>2, <2>3
<1>13. Disturbing(pc', obj')
  BY <1>1, <1>10, <1>11 DEF Disturbing, AboutKey
<1>14. ASSUME NEW k \in Keys \ obj.disturbed PROVE Following(obj', k)
  <2>1. Following(obj, k)
    BY <1>1
  <2>2. CASE k = e.key
    <3>1. ValueOf(copy, k) = ValueOf(obj.values, k)
      BY <1>5, <1>7, <1>9, <2>2
    <3>2. \A u \in SettingsThreads : \A i \in 1..Len(toTell[u]) : toTell[u][i].key # k
      BY <1>4, <1>5, <1>6, <2>2
    <3>3. ToldOf(obj', k)
      BY <1>10, <3>2 DEF ToldOf
    <3>4. QED
      BY <1>10, <3>1, <3>3 DEF Following
  <2>3. CASE k # e.key
    <3>1. ValueOf(copy, k) = ValueOf(obj.copy, k)
      BY <1>9, <2>3
    <3>2. ToldOf(obj', k)
      <4>1. ASSUME NEW u \in SettingsThreads, NEW i \in 1..Len(toTell[u]), toTell[u][i].key = k
            PROVE  ValueOf(obj.copy, k) = toTell[u][i].old /\ ValueOf(obj.values, k) = toTell[u][i].value
        <5>1. CASE u = t
          <6>1. i \in 1..Len(rest) /\ toTell[u][i] = rest[i]
            BY <1>4, <4>1, <5>1
          <6>2. rest[i] = obj.toTell[t][i + 1] /\ i + 1 \in 1..Len(obj.toTell[t])
            BY <1>3, <6>1
          <6>3. \A j \in 1..Len(obj.toTell[t]) : obj.toTell[t][j].key = k =>
                  /\ ValueOf(obj.copy, k) = obj.toTell[t][j].old
                  /\ ValueOf(obj.values, k) = obj.toTell[t][j].value
            BY <2>1 DEF Following, ToldOf
          <6>4. QED
            BY <4>1, <6>1, <6>2, <6>3
        <5>2. CASE u # t
          BY <1>4, <2>1, <4>1, <5>2 DEF Following, ToldOf
        <5>3. QED
          BY <5>1, <5>2
      <4>2. QED
        BY <1>10, <3>1, <4>1 DEF ToldOf
    <3>3. Untold(obj, k) => Untold(obj', k)
      <4>1. ASSUME NEW u \in SettingsThreads, NEW i \in 1..Len(obj.toTell[u]), obj.toTell[u][i].key = k
            PROVE  \E j \in 1..Len(toTell[u]) : toTell[u][j].key = k
        <5>1. CASE u = t
          <6>1. i # 1
            BY <1>3, <2>3, <4>1, <5>1
          <6>2. i - 1 \in 1..Len(rest)
            BY <1>3, <4>1, <5>1, <6>1
          <6>3. rest[i - 1] = obj.toTell[t][i]
            BY <1>3, <6>2
          <6>4. QED
            BY <1>4, <4>1, <5>1, <6>2, <6>3
        <5>2. CASE u # t
          BY <1>4, <4>1, <5>2
        <5>3. QED
          BY <5>1, <5>2
      <4>2. QED
        BY <1>10, <4>1 DEF Untold
    <3>4. QED
      BY <1>10, <2>1, <3>1, <3>2, <3>3 DEF Following
  <2>4. QED
    BY <2>2, <2>3
<1>15. QED
  BY <1>1, <1>10, <1>12, <1>13, <1>14 DEF SettingsInv, ListensInv

LEMMA SettingsToldStep ==
  ASSUME SettingsInv, NEW t \in SettingsThreads, settingsTold(t)
  PROVE  SettingsInv'
<1>1. /\ obj \in SettingsState /\ Threaded(pc) /\ pc[t] = "tell" /\ obj.toTell[t] = <<>>
      /\ \A u \in SettingsThreads : EventsFit(pc, obj, u)
      /\ Disturbing(pc, obj)
      /\ obj.listens => \A k \in Keys \ obj.disturbed : Following(obj, k)
      /\ obj' = obj /\ pc' = [pc EXCEPT ![t] = "idle"]
  BY DEF SettingsInv, ListensInv, settingsTold, At, Go
<1>2. /\ Threaded(pc') /\ pc'[t] = "idle" /\ \A u \in SettingsThreads : u # t => pc'[u] = pc[u]
  BY <1>1 DEF Threaded
<1>3. \A u \in SettingsThreads : EventsFit(pc', obj, u)
  <2>1. ASSUME NEW u \in SettingsThreads PROVE EventsFit(pc', obj, u)
    <3>1. EventsFit(pc, obj, u)
      BY <1>1
    <3>2. CASE u = t
      BY <1>1, <1>2, <3>1, <3>2 DEF EventsFit
    <3>3. CASE u # t
      BY <1>2, <3>1, <3>3 DEF EventsFit
    <3>4. QED
      BY <3>2, <3>3
  <2>2. QED
    BY <2>1
<1>4. Disturbing(pc', obj)
  <2>1. \A k \in Keys, u \in SettingsThreads : AboutKey(pc', obj, u, k) => AboutKey(pc, obj, u, k)
    BY <1>1, <1>2 DEF AboutKey
  <2>2. \A u \in SettingsThreads : pc'[u] = "quietly" => pc[u] = "quietly"
    BY <1>1, <1>2
  <2>3. \A u \in SettingsThreads : pc'[u] \in {"change", "tell"} => pc[u] \in {"change", "tell"}
    BY <1>1, <1>2
  <2>4. QED
    BY <1>1, <2>1, <2>2, <2>3 DEF Disturbing
<1>5. QED
  BY <1>1, <1>2, <1>3, <1>4 DEF SettingsInv, ListensInv

LEMMA SettingsStep ==
  ASSUME SettingsInv, SettingsNext
  PROVE  SettingsInv'
BY OnChangedStep, SettingsCallStep, SettingsChangeStep, SettingsQuietStep, SettingsTellStep, SettingsToldStep
   DEF SettingsNext

-----------------------------------------------------------------------------
(* Variants.  A text that has a block has it alone, until operator= shares  *)
(* one.                                                                     *)
TextBytes == {"p", "q", "0"}
VariantRecords == [vt : {"UNKNOWN", "INT", "CARRAY", "STRING"}, size : Nat, ptr : Nat]
VariantState ==
  [v : [Variants -> VariantRecords], blocks : Seq(Seq(TextBytes)), freed : SUBSET Nat, lost : SUBSET Nat,
   put : [Variants -> Seq(TextBytes)], shared : BOOLEAN, spoilt : SUBSET Variants, twice : BOOLEAN, calls : Nat]
ValuesHeld(o, x) == o.v[x].vt \in TextTypes /\ o.v[x].ptr # 0
\* A text is not longer than its block; what is freed was allocated.
InBounds(o) ==
  /\ \A x \in Variants : ValuesHeld(o, x) =>
       o.v[x].ptr \in 1..Len(o.blocks) /\ Len(o.blocks[o.v[x].ptr]) >= o.v[x].size
  /\ o.freed \subseteq 1..Len(o.blocks)
OwnedAlone(o) ==
  /\ \A x, y \in Variants : x # y /\ ValuesHeld(o, x) /\ ValuesHeld(o, y) => o.v[x].ptr # o.v[y].ptr
  /\ \A x \in Variants : ValuesHeld(o, x) => o.v[x].ptr \notin o.freed
  /\ \A b \in 1..Len(o.blocks) :
       b \in o.freed \/ b \in o.lost \/ \E x \in Variants : ValuesHeld(o, x) /\ o.v[x].ptr = b
AsPut(o, x) ==
  /\ o.v[x].size <= Len(o.put[x])
  /\ \A i \in 1..o.v[x].size : o.blocks[o.v[x].ptr][i] = o.put[x][i]
ReadAsPut(o) == \A x \in Variants : ValuesHeld(o, x) => x \in o.spoilt \/ AsPut(o, x)
MemoryInv(o) ==
  /\ o \in VariantState /\ InBounds(o)
  /\ ~o.shared => ~o.twice /\ OwnedAlone(o) /\ ReadAsPut(o)

LEMMA MemoryHeld == class = "variant" /\ MemoryInv(obj) => MemoryOwned
<1> SUFFICES ASSUME MemoryInv(obj) PROVE MemoryOwned
  BY DEF MemoryOwned
<1>1. obj \in VariantState /\ InBounds(obj)
  BY DEF MemoryInv
<1>2. obj.twice => obj.shared
  BY DEF MemoryInv
<1>3. ASSUME ~obj.shared
      PROVE  /\ \A x, y \in Variants : x # y /\ IsText(x) /\ IsText(y) /\ obj.v[x].ptr = obj.v[y].ptr => obj.v[x].ptr = 0
             /\ \A x \in Variants : IsText(x) /\ obj.v[x].ptr # 0 => obj.v[x].ptr \notin obj.freed
             /\ \A b \in DOMAIN obj.blocks :
                  b \in obj.freed \union obj.lost \/ \E x \in Variants : IsText(x) /\ obj.v[x].ptr = b
  <2>1. OwnedAlone(obj)
    BY <1>3 DEF MemoryInv
  <2>2. DOMAIN obj.blocks = 1..Len(obj.blocks)
    BY <1>1 DEF VariantState
  <2>3. QED
    BY <2>1, <2>2 DEF OwnedAlone, ValuesHeld, IsText
<1>4. ASSUME ~obj.shared, NEW x \in Variants, IsText(x), obj.v[x].ptr # 0
      PROVE  /\ Len(obj.blocks[obj.v[x].ptr]) >= obj.v[x].size
             /\ x \in obj.spoilt \/ Read(x) = SubSeq(obj.put[x], 1, obj.v[x].size)
  <2> DEFINE block == obj.blocks[obj.v[x].ptr]
             size == obj.v[x].size
             placed == obj.put[x]
  <2>1. /\ obj.v[x].ptr \in 1..Len(obj.blocks) /\ Len(block) >= size /\ (x \in obj.spoilt \/ AsPut(obj, x))
    BY <1>4 DEF MemoryInv, InBounds, ReadAsPut, ValuesHeld, IsText
  <2>2. block \in Seq(TextBytes) /\ placed \in Seq(TextBytes) /\ size \in Nat
    BY <1>1, <2>1 DEF VariantState, VariantRecords
  <2>3. ASSUME AsPut(obj, x) PROVE Read(x) = SubSeq(placed, 1, size)
    <3>1. size <= Len(placed) /\ \A i \in 1..size : block[i] = placed[i]
      BY <2>3 DEF AsPut
    <3>2. Read(x) = IF size = 0 THEN <<>> ELSE SubSeq(block, 1, size)
      BY <1>4 DEF Read
    <3> HIDE DEF block, size, placed
    <3>3. SubSeq(block, 1, size) = SubSeq(placed, 1, size)
      BY <2>1, <2>2, <3>1
    <3>4. size = 0 => SubSeq(placed, 1, size) = <<>>
      BY <2>2
    <3>5. QED
      BY <3>2, <3>3, <3>4
  <2>4. QED
    BY <2>1, <2>3
<1>5. QED
  BY <1>2, <1>3, <1>4 DEF MemoryOwned

LEMMA VariantInvInit == VariantInit => MemoryInv(obj)
<1> SUFFICES ASSUME VariantInit PROVE MemoryInv(obj)
  OBVIOUS
<1> DEFINE v == [x \in Variants |-> Unknown]
           placed == [x \in Variants |-> <<>>]
<1>1. obj = [v |-> v, blocks |-> <<>>, freed |-> {}, lost |-> {}, put |-> placed,
             shared |-> FALSE, spoilt |-> {}, twice |-> FALSE, calls |-> 0]
  BY DEF VariantInit
<1>2. /\ v \in [Variants -> VariantRecords] /\ placed \in [Variants -> Seq(TextBytes)]
      /\ \A x \in Variants : v[x].vt = "UNKNOWN"
  BY DEF Unknown, Variant, VariantRecords
<1>3. <<>> \in Seq(Seq(TextBytes)) /\ Len(<<>>) = 0
  OBVIOUS
<1> HIDE DEF v, placed
<1>4. obj \in VariantState
  BY <1>1, <1>2, <1>3 DEF VariantState
<1>5. obj.v = v /\ obj.blocks = <<>> /\ obj.freed = {}
  BY <1>1
<1>6. ~obj.twice
  BY <1>1
<1>7. \A x \in Variants : ~ValuesHeld(obj, x)
  BY <1>2, <1>5 DEF ValuesHeld, TextTypes
<1>8. InBounds(obj)
  BY <1>5, <1>7 DEF InBounds
<1>9. OwnedAlone(obj)
  BY <1>3, <1>5, <1>7 DEF OwnedAlone
<1>10. QED
  BY <1>4, <1>6, <1>7, <1>8, <1>9 DEF MemoryInv, ReadAsPut

-----------------------------------------------------------------------------
\* What the operators on a variant keep.
LEMMA ClearKeeps ==
  ASSUME NEW o, NEW x \in Variants, MemoryInv(o)
  PROVE  /\ MemoryInv(ClearOf(o, x))
         /\ ClearOf(o, x).v = [o.v EXCEPT ![x] = Unknown] /\ ClearOf(o, x).blocks = o.blocks
         /\ ClearOf(o, x).put = [o.put EXCEPT ![x] = <<>>] /\ ClearOf(o, x).spoilt = o.spoilt \ {x}
         /\ (ClearOf(o, x).shared <=> o.shared)
<1> DEFINE v == [o.v EXCEPT ![x] = Unknown]
           placed == [o.put EXCEPT ![x] = <<>>]
           freed == IF ValuesHeld(o, x) THEN o.freed \union {o.v[x].ptr} ELSE o.freed
           twice == o.twice \/ (ValuesHeld(o, x) /\ o.v[x].ptr \in o.freed)
           c == ClearOf(o, x)
<1>1. o \in VariantState /\ InBounds(o)
  BY DEF MemoryInv
<1>2. c = [o EXCEPT !.v = v, !.put = placed, !.freed = freed, !.twice = twice, !.spoilt = o.spoilt \ {x}]
  <2>1. CASE ValuesHeld(o, x)
    <3>1. Freeing(o, x) = [o EXCEPT !.freed = freed, !.twice = twice]
      BY <1>1, <2>1 DEF Freeing, ValuesHeld, VariantState
    <3> HIDE DEF freed, twice
    <3>2. QED
      BY <1>1, <3>1 DEF ClearOf, VariantState
  <2>2. CASE ~ValuesHeld(o, x)
    <3>1. Freeing(o, x) = o
      BY <2>2 DEF Freeing, ValuesHeld
    <3>2. freed = o.freed /\ twice = o.twice
      BY <1>1, <2>2 DEF VariantState
    <3> HIDE DEF freed, twice
    <3>3. QED
      BY <1>1, <3>1, <3>2 DEF ClearOf, VariantState
  <2>3. QED
    BY <2>1, <2>2
<1>3. /\ v \in [Variants -> VariantRecords] /\ placed \in [Variants -> Seq(TextBytes)]
      /\ v[x].vt = "UNKNOWN" /\ \A y \in Variants : y # x => v[y] = o.v[y] /\ placed[y] = o.put[y]
  BY <1>1 DEF VariantState, Unknown, Variant, VariantRecords
<1>4. freed \in SUBSET Nat /\ freed \subseteq 1..Len(o.blocks) /\ o.freed \subseteq freed
  BY <1>1 DEF VariantState, VariantRecords, InBounds
<1>5. twice \in BOOLEAN
  BY <1>1 DEF VariantState
<1>6. /\ \A b \in freed : b \in o.freed \/ (ValuesHeld(o, x) /\ b = o.v[x].ptr)
      /\ ValuesHeld(o, x) => o.v[x].ptr \in freed
      /\ (twice => o.twice \/ (ValuesHeld(o, x) /\ o.v[x].ptr \in o.freed))
  OBVIOUS
<1> HIDE DEF v, placed, freed, twice, c
<1>7. c \in VariantState
  BY <1>1, <1>2, <1>3, <1>4, <1>5 DEF VariantState
<1>8. c.v = v /\ c.put = placed /\ c.freed = freed /\ c.blocks = o.blocks /\ c.lost = o.lost /\ c.spoilt = o.spoilt \ {x}
  BY <1>1, <1>2 DEF VariantState
<1>9. (c.twice <=> twice) /\ (c.shared <=> o.shared)
  BY <1>1, <1>2, <1>5 DEF VariantState
<1>10. \A y \in Variants : ValuesHeld(c, y) <=> y # x /\ ValuesHeld(o, y)
  BY <1>3, <1>8 DEF ValuesHeld, TextTypes
<1>11. InBounds(c)
  BY <1>1, <1>3, <1>4, <1>8, <1>10 DEF InBounds
<1>12. ASSUME ~o.shared PROVE ~c.twice /\ OwnedAlone(c) /\ ReadAsPut(c)
  <2>1. ~o.twice /\ OwnedAlone(o) /\ ReadAsPut(o)
    BY <1>12 DEF MemoryInv
  <2>2. ~c.twice
    BY <1>6, <1>9, <2>1 DEF OwnedAlone
  <2>3. OwnedAlone(c)
    <3>1. \A y, z \in Variants : y # z /\ ValuesHeld(c, y) /\ ValuesHeld(c, z) => c.v[y].ptr # c.v[z].ptr
      BY <1>3, <1>8, <1>10, <2>1 DEF OwnedAlone
    <3>2. \A y \in Variants : ValuesHeld(c, y) => c.v[y].ptr \notin c.freed
      BY <1>3, <1>6, <1>8, <1>10, <2>1 DEF OwnedAlone
    <3>3. \A b \in 1..Len(c.blocks) :
            b \in c.freed \/ b \in c.lost \/ \E y \in Variants : ValuesHeld(c, y) /\ c.v[y].ptr = b
      BY <1>3, <1>4, <1>6, <1>8, <1>10, <2>1 DEF OwnedAlone
    <3>4. QED
      BY <3>1, <3>2, <3>3 DEF OwnedAlone
  <2>4. ReadAsPut(c)
    BY <1>3, <1>8, <1>10, <2>1 DEF ReadAsPut, AsPut
  <2>5. QED
    BY <2>2, <2>3, <2>4
<1>13. MemoryInv(c)
  BY <1>7, <1>9, <1>11, <1>12 DEF MemoryInv
<1>14. QED
  BY <1>8, <1>9, <1>13 DEF c, v, placed

\* A variant that owns nothing becomes another that owns nothing.
LEMMA PlacedKeeps ==
  ASSUME NEW o, NEW x \in Variants, MemoryInv(o), ~ValuesHeld(o, x),
         NEW w \in VariantRecords, w.vt \in TextTypes => w.ptr = 0
  PROVE  /\ MemoryInv([o EXCEPT !.v[x] = w])
         /\ [o EXCEPT !.v[x] = w].v = [o.v EXCEPT ![x] = w]
<1> DEFINE c == [o EXCEPT !.v[x] = w]
           v == [o.v EXCEPT ![x] = w]
<1>1. o \in VariantState /\ InBounds(o)
  BY DEF MemoryInv
<1>2. v \in [Variants -> VariantRecords] /\ v[x] = w /\ \A y \in Variants : y # x => v[y] = o.v[y]
  BY <1>1 DEF VariantState
<1>3. c = [o EXCEPT !.v = v]
  BY <1>1 DEF VariantState
<1> HIDE DEF v, c
<1>4. c \in VariantState
  BY <1>1, <1>2, <1>3 DEF VariantState
<1>5. c.v = v /\ c.put = o.put /\ c.freed = o.freed /\ c.blocks = o.blocks /\ c.lost = o.lost /\ c.spoilt = o.spoilt
  BY <1>1, <1>3 DEF VariantState
<1>6. (c.twice <=> o.twice) /\ (c.shared <=> o.shared)
  BY <1>1, <1>3 DEF VariantState
<1>7. \A y \in Variants : ValuesHeld(c, y) <=> y # x /\ ValuesHeld(o, y)
  BY <1>2, <1>5 DEF ValuesHeld
<1>8. InBounds(c)
  BY <1>1, <1>2, <1>5, <1>7 DEF InBounds
<1>9. ASSUME ~o.shared PROVE ~c.twice /\ OwnedAlone(c) /\ ReadAsPut(c)
  <2>1. ~o.twice /\ OwnedAlone(o) /\ ReadAsPut(o)
    BY <1>9 DEF MemoryInv
  <2>2. OwnedAlone(c)
    BY <1>2, <1>5, <1>7, <2>1 DEF OwnedAlone
  <2>3. ReadAsPut(c)
    BY <1>2, <1>5, <1>7, <2>1 DEF ReadAsPut, AsPut
  <2>4. QED
    BY <1>6, <2>1, <2>2, <2>3
<1>10. MemoryInv(c)
  BY <1>4, <1>6, <1>8, <1>9 DEF MemoryInv
<1>11. QED
  BY <1>5, <1>10 DEF c, v

\* A text without a block gets one, of at least its size.
LEMMA AllocatedKeeps ==
  ASSUME NEW o, NEW x \in Variants, MemoryInv(o), o.v[x].vt \in TextTypes, o.v[x].ptr = 0,
         NEW bytes \in Seq(TextBytes), o.v[x].size <= Len(bytes)
  PROVE  /\ MemoryInv(Allocated(o, x, bytes))
         /\ Allocated(o, x, bytes).v[x].vt = o.v[x].vt /\ Allocated(o, x, bytes).v[x].size = o.v[x].size
<1> DEFINE c == Allocated(o, x, bytes)
           n == Len(o.blocks) + 1
           v == [o.v EXCEPT ![x].ptr = n]
           placed == [o.put EXCEPT ![x] = bytes]
           blocks == Append(o.blocks, bytes)
<1>1. o \in VariantState /\ InBounds(o)
  BY DEF MemoryInv
<1>2. n \in Nat /\ n # 0 /\ n \notin 1..Len(o.blocks) /\ 1..Len(o.blocks) \subseteq 1..n /\ n \in 1..n
  BY <1>1 DEF VariantState
<1>3. /\ blocks \in Seq(Seq(TextBytes)) /\ Len(blocks) = n /\ blocks[n] = bytes
      /\ \A i \in 1..Len(o.blocks) : blocks[i] = o.blocks[i]
      /\ \A i \in 1..n : i # n => i \in 1..Len(o.blocks)
  BY <1>1 DEF VariantState
<1>4. c = [o EXCEPT !.v = v, !.put = placed, !.blocks = blocks]
  BY <1>1 DEF VariantState, Allocated
<1> HIDE DEF n
<1>5. /\ v \in [Variants -> VariantRecords] /\ placed \in [Variants -> Seq(TextBytes)] /\ placed[x] = bytes
      /\ v[x].vt = o.v[x].vt /\ v[x].size = o.v[x].size /\ v[x].ptr = n
      /\ \A y \in Variants : y # x => v[y] = o.v[y] /\ placed[y] = o.put[y]
  BY <1>1, <1>2 DEF VariantState, VariantRecords
<1> HIDE DEF v, placed, blocks, c
<1>6. c \in VariantState
  BY <1>1, <1>3, <1>4, <1>5 DEF VariantState
<1>7. c.v = v /\ c.put = placed /\ c.freed = o.freed /\ c.blocks = blocks /\ c.lost = o.lost /\ c.spoilt = o.spoilt
  BY <1>1, <1>4 DEF VariantState
<1>8. (c.twice <=> o.twice) /\ (c.shared <=> o.shared)
  BY <1>1, <1>4 DEF VariantState
<1>9. \A y \in Variants : ValuesHeld(c, y) <=> y = x \/ ValuesHeld(o, y)
  BY <1>2, <1>5, <1>7 DEF ValuesHeld
<1>10. ~ValuesHeld(o, x)
  BY DEF ValuesHeld
<1>a. ASSUME NEW y \in Variants, ValuesHeld(o, y)
      PROVE  LET ptr == o.v[y].ptr IN
             /\ y # x /\ v[y] = o.v[y] /\ placed[y] = o.put[y]
             /\ ptr \in 1..Len(o.blocks) /\ ptr \in 1..n /\ ptr # n
             /\ blocks[ptr] = o.blocks[ptr] /\ Len(o.blocks[ptr]) >= o.v[y].size
  <2>1. y # x /\ o.v[y].ptr \in 1..Len(o.blocks) /\ Len(o.blocks[o.v[y].ptr]) >= o.v[y].size
    BY <1>1, <1>10, <1>a DEF InBounds
  <2>2. o.v[y].ptr # n /\ o.v[y].ptr \in 1..n
    BY <1>2, <2>1
  <2>3. QED
    BY <1>3, <1>5, <2>1, <2>2
<1>11. InBounds(c)
  <2>1. ASSUME NEW y \in Variants, ValuesHeld(c, y)
        PROVE  v[y].ptr \in 1..n /\ Len(blocks[v[y].ptr]) >= v[y].size
    <3>1. CASE y = x
      BY <1>2, <1>3, <1>5, <3>1
    <3>2. CASE y # x
      <4>1. ValuesHeld(o, y)
        BY <1>9, <2>1, <3>2
      <4>2. QED
        BY <1>a, <4>1
    <3>3. QED
      BY <3>1, <3>2
  <2>2. o.freed \subseteq 1..n
    BY <1>1, <1>2 DEF InBounds
  <2>3. QED
    BY <1>3, <1>7, <2>1, <2>2 DEF InBounds
<1>12. ASSUME ~o.shared PROVE ~c.twice /\ OwnedAlone(c) /\ ReadAsPut(c)
  <2>1. ~o.twice /\ OwnedAlone(o) /\ ReadAsPut(o)
    BY <1>12 DEF MemoryInv
  <2>2. OwnedAlone(c)
    <3>1. \A y, z \in Variants : y # z /\ ValuesHeld(c, y) /\ ValuesHeld(c, z) => c.v[y].ptr # c.v[z].ptr
      <4>1. ASSUME NEW y \in Variants, NEW z \in Variants, y # z, ValuesHeld(c, y), ValuesHeld(c, z)
            PROVE  v[y].ptr # v[z].ptr
        <5>1. CASE y = x
          BY <1>5, <1>9, <1>a, <4>1, <5>1
        <5>2. CASE z = x
          BY <1>5, <1>9, <1>a, <4>1, <5>2
        <5>3. CASE y # x /\ z # x
          BY <1>9, <1>a, <2>1, <4>1, <5>3 DEF OwnedAlone
        <5>4. QED
          BY <5>1, <5>2, <5>3
      <4>2. QED
        BY <1>7, <4>1
    <3>2. \A y \in Variants : ValuesHeld(c, y) => c.v[y].ptr \notin c.freed
      <4>1. ASSUME NEW y \in Variants, ValuesHeld(c, y) PROVE v[y].ptr \notin o.freed
        <5>1. CASE y = x
          BY <1>1, <1>2, <1>5, <5>1 DEF InBounds
        <5>2. CASE y # x
          BY <1>9, <1>a, <2>1, <4>1, <5>2 DEF OwnedAlone
        <5>3. QED
          BY <5>1, <5>2
      <4>2. QED
        BY <1>7, <4>1
    <3>3. \A b \in 1..Len(c.blocks) :
            b \in c.freed \/ b \in c.lost \/ \E y \in Variants : ValuesHeld(c, y) /\ c.v[y].ptr = b
      <4>1. ASSUME NEW b \in 1..n
            PROVE  b \in o.freed \/ b \in o.lost \/ \E y \in Variants : ValuesHeld(c, y) /\ v[y].ptr = b
        <5>1. CASE b = n
          BY <1>5, <1>9, <5>1
        <5>2. CASE b # n
          <6>1. b \in 1..Len(o.blocks)
            BY <1>2, <5>2 DEF n
          <6>2. CASE b \in o.freed \/ b \in o.lost
            BY <6>2
          <6>3. ASSUME NEW y \in Variants, ValuesHeld(o, y), o.v[y].ptr = b
                PROVE  ValuesHeld(c, y) /\ v[y].ptr = b
            BY <1>9, <1>a, <6>3
          <6>4. QED
            BY <2>1, <6>1, <6>2, <6>3 DEF OwnedAlone
        <5>3. QED
          BY <5>1, <5>2
      <4>2. QED
        BY <1>3, <1>7, <4>1
    <3>4. QED
      BY <3>1, <3>2, <3>3 DEF OwnedAlone
  <2>3. ReadAsPut(c)
    <3>1. ASSUME NEW y \in Variants, ValuesHeld(c, y), y # x PROVE y \in c.spoilt \/ AsPut(c, y)
      <4>1. ValuesHeld(o, y)
        BY <1>9, <3>1
      <4>2. y \in o.spoilt \/ AsPut(o, y)
        BY <2>1, <4>1 DEF ReadAsPut
      <4>3. AsPut(o, y) => AsPut(c, y)
        <5>1. c.v[y] = o.v[y] /\ c.put[y] = o.put[y] /\ c.blocks[c.v[y].ptr] = o.blocks[o.v[y].ptr]
          BY <1>7, <1>a, <4>1
        <5>2. QED
          BY <5>1 DEF AsPut
      <4>4. QED
        BY <1>7, <4>2, <4>3
    <3>2. AsPut(c, x)
      BY <1>3, <1>5, <1>7 DEF AsPut
    <3>3. QED
      BY <3>1, <3>2 DEF ReadAsPut
  <2>4. QED
    BY <1>8, <2>1, <2>2, <2>3
<1>13. MemoryInv(c)
  BY <1>6, <1>8, <1>11, <1>12 DEF MemoryInv
<1>14. QED
  BY <1>5, <1>7, <1>13 DEF c

LEMMA PutInKeeps ==
  ASSUME NEW o, NEW x \in Variants, MemoryInv(o), o.v[x].vt \in TextTypes,
         NEW bytes \in Seq(TextBytes), o.v[x].size <= Len(bytes)
  PROVE  MemoryInv(PutIn(o, x, bytes)) /\ PutIn(o, x, bytes).v = o.v
<1> DEFINE c == PutIn(o, x, bytes)
           ptr == o.v[x].ptr
           old == o.blocks[ptr]
           new == bytes \o SubSeq(old, Len(bytes) + 1, Len(old))
           blocks == [o.blocks EXCEPT ![ptr] = new]
           placed == [o.put EXCEPT ![x] = bytes]
<1>1. o \in VariantState /\ InBounds(o)
  BY DEF MemoryInv
<1>2. CASE ptr = 0 \/ Len(bytes) > Len(old)
  BY <1>2 DEF PutIn
<1>3. CASE ptr # 0 /\ ~(Len(bytes) > Len(old))
  <2>1. ValuesHeld(o, x) /\ ptr \in 1..Len(o.blocks) /\ old \in Seq(TextBytes)
    BY <1>1, <1>3 DEF ValuesHeld, InBounds, VariantState
  <2>2. Len(bytes) \in Nat /\ Len(old) \in Nat /\ Len(bytes) <= Len(old)
    BY <1>3, <2>1
  <2>3. c = [o EXCEPT !.blocks = blocks, !.put = placed]
    BY <1>1, <1>3 DEF PutIn, VariantState
  <2>4. new \in Seq(TextBytes) /\ Len(new) = Len(old) /\ \A i \in 1..Len(bytes) : new[i] = bytes[i]
    <3> HIDE DEF old
    <3>1. SubSeq(old, Len(bytes) + 1, Len(old)) \in Seq(TextBytes)
          /\ Len(SubSeq(old, Len(bytes) + 1, Len(old))) = Len(old) - Len(bytes)
      BY <2>1, <2>2
    <3> DEFINE rest == SubSeq(old, Len(bytes) + 1, Len(old))
    <3> HIDE DEF rest
    <3>2. bytes \o rest \in Seq(TextBytes) /\ Len(bytes \o rest) = Len(old)
          /\ \A i \in 1..Len(bytes) : (bytes \o rest)[i] = bytes[i]
      BY <2>2, <3>1 DEF rest
    <3>3. QED
      BY <3>2 DEF rest
  <2> HIDE DEF new
  <2>5. /\ blocks \in Seq(Seq(TextBytes)) /\ Len(blocks) = Len(o.blocks) /\ blocks[ptr] = new
        /\ \A b \in 1..Len(o.blocks) : b # ptr => blocks[b] = o.blocks[b]
        /\ \A b \in 1..Len(o.blocks) : Len(blocks[b]) = Len(o.blocks[b])
    BY <1>1, <2>1, <2>4 DEF VariantState
  <2>6. placed \in [Variants -> Seq(TextBytes)] /\ placed[x] = bytes /\ \A y \in Variants : y # x => placed[y] = o.put[y]
    BY <1>1 DEF VariantState
  <2> HIDE DEF c, blocks, placed
  <2>7. c \in VariantState
    BY <1>1, <2>3, <2>5, <2>6 DEF VariantState
  <2>8. c.v = o.v /\ c.put = placed /\ c.freed = o.freed /\ c.blocks = blocks /\ c.lost = o.lost /\ c.spoilt = o.spoilt
    BY <1>1, <2>3 DEF VariantState
  <2>9. (c.twice <=> o.twice) /\ (c.shared <=> o.shared)
    BY <1>1, <2>3 DEF VariantState
  <2>10. \A y \in Variants : ValuesHeld(c, y) <=> ValuesHeld(o, y)
    BY <2>8 DEF ValuesHeld
  <2>11. InBounds(c)
    BY <1>1, <2>5, <2>8, <2>10 DEF InBounds
  <2>12. ASSUME ~o.shared PROVE ~c.twice /\ OwnedAlone(c) /\ ReadAsPut(c)
    <3>1. ~o.twice /\ OwnedAlone(o) /\ ReadAsPut(o)
      BY <2>12 DEF MemoryInv
    <3>2. OwnedAlone(c)
      BY <2>5, <2>8, <2>10, <3>1 DEF OwnedAlone
    <3>3. ReadAsPut(c)
      <4>1. ASSUME NEW y \in Variants, ValuesHeld(c, y) PROVE y \in c.spoilt \/ AsPut(c, y)
        <5>1. CASE y = x
          <6>1. o.v[x].size \in Nat /\ \A i \in 1..o.v[x].size : i \in 1..Len(bytes)
            BY <1>1, <2>2 DEF VariantState, VariantRecords
          <6>2. AsPut(c, x)
            BY <2>4, <2>5, <2>6, <2>8, <6>1 DEF AsPut
          <6>3. QED
            BY <5>1, <6>2
        <5>2. CASE y # x
          <6>1. ValuesHeld(o, y) /\ o.v[y].ptr # ptr /\ o.v[y].ptr \in 1..Len(o.blocks)
            BY <1>1, <2>1, <2>10, <3>1, <4>1, <5>2 DEF OwnedAlone, InBounds
          <6>2. y \in o.spoilt \/ AsPut(o, y)
            BY <3>1, <6>1 DEF ReadAsPut
          <6>3. c.v[y] = o.v[y] /\ c.put[y] = o.put[y] /\ c.blocks[c.v[y].ptr] = o.blocks[o.v[y].ptr]
            BY <2>5, <2>6, <2>8, <5>2, <6>1
          <6>4. QED
            BY <2>8, <6>2, <6>3 DEF AsPut
        <5>3. QED
          BY <5>1, <5>2
      <4>2. QED
        BY <4>1 DEF ReadAsPut
    <3>4. QED
      BY <2>9, <3>1, <3>2, <3>3
  <2>13. QED
    BY <2>7, <2>8, <2>9, <2>11, <2>12 DEF MemoryInv, c
<1>4. QED
  BY <1>2, <1>3

LEMMA ZerosAre == \A n \in Nat : Zeros(n) \in Seq(TextBytes) /\ Len(Zeros(n)) = n
  BY DEF Zeros, TextBytes

LEMMA SetSizeKeeps ==
  ASSUME NEW o, NEW x \in Variants, MemoryInv(o), NEW n \in Nat
  PROVE  /\ MemoryInv(SetSize(o, x, n)) /\ SetSize(o, x, n).v[x].vt = o.v[x].vt
         /\ o.v[x].vt \in TextTypes => SetSize(o, x, n).v[x].size = n
<1> DEFINE w == Variant(o.v[x].vt, n, 0)
           e == ClearOf(o, x)
           c == [e EXCEPT !.v[x] = w]
<1>1. o.v \in [Variants -> VariantRecords]
  BY DEF MemoryInv, VariantState
<1>2. w \in VariantRecords /\ w.ptr = 0 /\ w.vt = o.v[x].vt /\ w.size = n
  BY <1>1 DEF Variant, VariantRecords
<1>3. MemoryInv(e) /\ e.v = [o.v EXCEPT ![x] = Unknown] /\ ~ValuesHeld(e, x)
  <2>1. MemoryInv(e) /\ e.v = [o.v EXCEPT ![x] = Unknown]
    BY ClearKeeps
  <2> HIDE DEF e
  <2>2. e.v[x] = Unknown
    BY <1>1, <2>1
  <2>3. QED
    BY <2>1, <2>2 DEF ValuesHeld, Unknown, Variant, TextTypes
<1> HIDE DEF e, w
<1>4. MemoryInv(c) /\ c.v[x] = w
  BY <1>1, <1>2, <1>3, PlacedKeeps
<1>5. CASE o.v[x].vt \notin TextTypes \/ o.v[x].size = n
  BY <1>5 DEF SetSize
<1>6. CASE o.v[x].vt \in TextTypes /\ o.v[x].size # n /\ n = 0
  <2>1. SetSize(o, x, n) = c
    BY <1>6 DEF SetSize, e, w
  <2> HIDE DEF c
  <2>2. QED
    BY <1>2, <1>4, <2>1
<1>7. CASE o.v[x].vt \in TextTypes /\ o.v[x].size # n /\ n # 0
  <2>1. SetSize(o, x, n) = Allocated(c, x, Zeros(n))
    BY <1>7 DEF SetSize, e, w
  <2> HIDE DEF c
  <2>2. Zeros(n) \in Seq(TextBytes) /\ Len(Zeros(n)) = n
    BY ZerosAre
  <2> DEFINE bytes == Zeros(n)
  <2> HIDE DEF bytes
  <2>3. MemoryInv(c) /\ c.v[x].vt \in TextTypes /\ c.v[x].ptr = 0 /\ bytes \in Seq(TextBytes) /\ c.v[x].size <= Len(bytes)
    BY <1>2, <1>4, <1>7, <2>2 DEF bytes
  <2>4. /\ MemoryInv(Allocated(c, x, bytes))
        /\ Allocated(c, x, bytes).v[x].vt = c.v[x].vt /\ Allocated(c, x, bytes).v[x].size = c.v[x].size
    BY <2>3, AllocatedKeeps
  <2>5. QED
    BY <1>2, <1>4, <2>1, <2>4 DEF bytes
<1>8. QED
  BY <1>5, <1>6, <1>7

LEMMA SetVtKeeps ==
  ASSUME NEW o, NEW x \in Variants, MemoryInv(o), NEW vt \in TextTypes \union {"INT"}
  PROVE  /\ MemoryInv(SetVt(o, x, vt)) /\ SetVt(o, x, vt).v[x].vt = vt
<1> DEFINE e == IF o.v[x].vt # vt THEN ClearOf(o, x) ELSE o
           n == IF vt = "INT" THEN 4 ELSE 0
           c == SetVt(o, x, vt)
           w == [[e.v[x] EXCEPT !.vt = vt] EXCEPT !.size = n]
           v == [e.v EXCEPT ![x] = w]
           placed == [e.put EXCEPT ![x] = <<>>]
<1>1. o \in VariantState
  BY DEF MemoryInv
<1>2. MemoryInv(e) /\ e \in VariantState /\ e.v[x] \in VariantRecords
  <2>1. MemoryInv(e)
    BY ClearKeeps
  <2>2. QED
    BY <2>1 DEF MemoryInv, VariantState
<1>3. e.v[x].vt = vt \/ (e.v[x].ptr = 0 /\ e.v[x].vt = "UNKNOWN")
  <2>1. CASE o.v[x].vt # vt
    <3>1. e.v = [o.v EXCEPT ![x] = Unknown]
      BY <2>1, ClearKeeps
    <3> HIDE DEF e
    <3>2. e.v[x] = Unknown
      BY <1>1, <3>1 DEF VariantState
    <3>3. QED
      BY <3>2 DEF Unknown, Variant
  <2>2. CASE o.v[x].vt = vt
    BY <2>2
  <2>3. QED
    BY <2>1, <2>2
<1>4. w \in VariantRecords /\ n \in Nat
  BY <1>2 DEF VariantRecords, TextTypes
<1>5. w.vt = vt /\ w.ptr = e.v[x].ptr /\ w.size = n /\ (vt \in TextTypes => n = 0)
  BY <1>2 DEF TextTypes, VariantRecords
<1>6. c = [e EXCEPT !.v = v, !.put = placed]
  <2>1. c = [e EXCEPT !.v[x].vt = vt, !.v[x].size = n, !.put[x] = <<>>]
    BY DEF SetVt
  <2> HIDE DEF e, n
  <2>2. [[e.v EXCEPT ![x].vt = vt] EXCEPT ![x].size = n] = v
    BY <1>2 DEF VariantState, VariantRecords
  <2>3. QED
    BY <1>2, <2>1, <2>2 DEF VariantState
<1> HIDE DEF e, n, w, c
<1>7. /\ v \in [Variants -> VariantRecords] /\ placed \in [Variants -> Seq(TextBytes)] /\ placed[x] = <<>> /\ v[x] = w
      /\ \A y \in Variants : y # x => v[y] = e.v[y] /\ placed[y] = e.put[y]
  BY <1>2, <1>4 DEF VariantState
<1> HIDE DEF v, placed
<1>8. c \in VariantState
  BY <1>2, <1>6, <1>7 DEF VariantState
<1>9. c.v = v /\ c.put = placed /\ c.freed = e.freed /\ c.blocks = e.blocks /\ c.lost = e.lost /\ c.spoilt = e.spoilt
  BY <1>2, <1>6 DEF VariantState
<1>10. (c.twice <=> e.twice) /\ (c.shared <=> e.shared)
  BY <1>2, <1>6 DEF VariantState
<1>11. \A y \in Variants : (ValuesHeld(c, y) <=> ValuesHeld(e, y)) /\ c.v[y].ptr = e.v[y].ptr
  BY <1>3, <1>5, <1>7, <1>9 DEF ValuesHeld, TextTypes
<1>12. InBounds(e)
  BY <1>2 DEF MemoryInv
<1>13. InBounds(c)
  <2>1. ASSUME NEW y \in Variants, ValuesHeld(c, y) PROVE Len(e.blocks[e.v[y].ptr]) >= v[y].size
    <3>1. e.v[y].ptr \in 1..Len(e.blocks) /\ Len(e.blocks[e.v[y].ptr]) >= e.v[y].size
      BY <1>11, <1>12, <2>1 DEF InBounds
    <3>2. CASE y = x
      <4>1. v[x].size = 0
        BY <1>5, <1>7, <1>9, <2>1, <3>2 DEF ValuesHeld
      <4>2. e.blocks[e.v[y].ptr] \in Seq(TextBytes)
        BY <1>2, <3>1 DEF VariantState
      <4>3. Len(e.blocks[e.v[y].ptr]) \in Nat
        BY ONLY <4>2
      <4>4. v[y].size = 0
        BY <3>2, <4>1
      <4>5. QED
        BY ONLY <4>3, <4>4
    <3>3. CASE y # x
      BY <1>7, <3>1, <3>3
    <3>4. QED
      BY <3>2, <3>3
  <2>2. QED
    BY <1>9, <1>11, <1>12, <2>1 DEF InBounds
<1>14. ASSUME ~e.shared PROVE ~c.twice /\ OwnedAlone(c) /\ ReadAsPut(c)
  <2>1. ~e.twice /\ OwnedAlone(e) /\ ReadAsPut(e)
    BY <1>2, <1>14 DEF MemoryInv
  <2>2. OwnedAlone(c)
    BY <1>9, <1>11, <2>1 DEF OwnedAlone
  <2>3. ReadAsPut(c)
    <3>1. ASSUME NEW y \in Variants, ValuesHeld(c, y) PROVE y \in c.spoilt \/ AsPut(c, y)
      <4>1. CASE y = x
        <5>1. v[x].size = 0 /\ placed[x] = <<>> /\ Len(<<>>) = 0
          BY <1>5, <1>7, <1>9, <3>1, <4>1 DEF ValuesHeld
        <5>2. AsPut(c, x)
          BY <1>9, <5>1 DEF AsPut
        <5>3. QED
          BY <4>1, <5>2
      <4>2. CASE y # x
        <5>1. y \in e.spoilt \/ AsPut(e, y)
          BY <1>11, <2>1, <3>1 DEF ReadAsPut
        <5>2. c.v[y] = e.v[y] /\ c.put[y] = e.put[y] /\ c.blocks = e.blocks
          BY <1>7, <1>9, <4>2
        <5>3. QED
          BY <1>9, <5>1, <5>2 DEF AsPut
      <4>3. QED
        BY <4>1, <4>2
    <3>2. QED
      BY <3>1 DEF ReadAsPut
  <2>4. QED
    BY <1>10, <2>1, <2>2, <2>3
<1>15. MemoryInv(c)
  BY <1>8, <1>10, <1>13, <1>14 DEF MemoryInv
<1>16. c.v[x].vt = vt
  BY <1>5, <1>7, <1>9
<1>17. QED
  BY <1>15, <1>16 DEF c

\* A call is counted.
LEMMA VariantCallCounted ==
  ASSUME NEW o, MemoryInv(o), CallMade(o)
  PROVE  MemoryInv(obj')
<1>1. o \in VariantState /\ o.calls + 1 \in Nat /\ obj' = [o EXCEPT !.calls = o.calls + 1]
  BY DEF MemoryInv, VariantState, CallMade
<1>2. obj' \in VariantState
  BY <1>1 DEF VariantState
<1>3. /\ obj'.v = o.v /\ obj'.put = o.put /\ obj'.freed = o.freed /\ obj'.blocks = o.blocks
      /\ obj'.lost = o.lost /\ obj'.spoilt = o.spoilt
  BY <1>1 DEF VariantState
<1>4. (obj'.twice <=> o.twice) /\ (obj'.shared <=> o.shared)
  BY <1>1 DEF VariantState
<1>5. QED
  BY <1>2, <1>3, <1>4 DEF MemoryInv, InBounds, OwnedAlone, ReadAsPut, AsPut, ValuesHeld

-----------------------------------------------------------------------------
(* The calls.                                                               *)
LEMMA ClearedFirst ==
  ASSUME NEW o, NEW x \in Variants, MemoryInv(o)
  PROVE  /\ MemoryInv(ClearOf(o, x)) /\ ~ValuesHeld(ClearOf(o, x), x)
         /\ ClearOf(o, x).v \in [Variants -> VariantRecords]
<1> DEFINE e == ClearOf(o, x)
<1>1. MemoryInv(e) /\ e.v = [o.v EXCEPT ![x] = Unknown]
  BY ClearKeeps
<1> HIDE DEF e
<1>2. o.v \in [Variants -> VariantRecords] /\ e.v \in [Variants -> VariantRecords]
  BY <1>1 DEF MemoryInv, VariantState
<1>3. e.v[x] = Unknown
  BY <1>1, <1>2
<1>4. ~ValuesHeld(e, x)
  BY <1>3 DEF ValuesHeld, Unknown, Variant, TextTypes
<1>5. QED
  BY <1>1, <1>2, <1>4 DEF e

LEMMA TextsAre == \A bytes \in TwoTexts \union {<<>>} : bytes \in Seq(TextBytes) /\ Len(bytes) \in Nat
<1>1. "p" \in TextBytes /\ "q" \in TextBytes
  BY DEF TextBytes
<1>2. <<"p">> \in Seq(TextBytes) /\ <<"p", "q">> \in Seq(TextBytes) /\ <<>> \in Seq(TextBytes)
  BY <1>1
<1>3. TwoTexts \union {<<>>} \subseteq Seq(TextBytes)
  BY <1>2 DEF TwoTexts
<1>4. QED
  BY <1>3

LEMMA ConstructStep ==
  ASSUME MemoryInv(obj), NEW x \in Variants, construct(x)
  PROVE  MemoryInv(obj')
<1>1. PICK vt \in TextTypes, bytes \in TwoTexts \union {<<>>} :
        LET o == [ClearOf(obj, x) EXCEPT !.v[x] = Variant(vt, Len(bytes), 0)]
        IN CallMade(IF bytes = <<>> THEN o ELSE Allocated(o, x, bytes))
  BY DEF construct
<1> DEFINE e == ClearOf(obj, x)
           w == Variant(vt, Len(bytes), 0)
           o == [e EXCEPT !.v[x] = w]
<1>2. bytes \in Seq(TextBytes) /\ Len(bytes) \in Nat
  BY TextsAre
<1>3. w \in VariantRecords /\ w.ptr = 0 /\ w.vt = vt /\ w.size = Len(bytes) /\ vt \in TextTypes
  BY <1>2 DEF Variant, VariantRecords, TextTypes
<1>4. MemoryInv(e) /\ ~ValuesHeld(e, x) /\ e.v \in [Variants -> VariantRecords]
  BY ClearedFirst
<1> HIDE DEF e, w
<1>5. MemoryInv(o) /\ o.v[x] = w
  BY <1>3, <1>4, PlacedKeeps
<1>6. CallMade(IF bytes = <<>> THEN o ELSE Allocated(o, x, bytes))
  BY <1>1 DEF e, w
<1> HIDE DEF o
<1>7. MemoryInv(Allocated(o, x, bytes))
  BY <1>2, <1>3, <1>5, AllocatedKeeps
<1>8. QED
  BY <1>5, <1>6, <1>7, VariantCallCounted

LEMMA ConstructIntStep ==
  ASSUME MemoryInv(obj), NEW x \in Variants, constructInt(x) \/ setVtNamed(x)
  PROVE  MemoryInv(obj')
<1> DEFINE e == ClearOf(obj, x)
<1>1. MemoryInv(e) /\ ~ValuesHeld(e, x)
  BY ClearedFirst
<1>2. PICK w \in {Variant("INT", 4, 0), Variant("CARRAY", 2, 0)} : CallMade([e EXCEPT !.v[x] = w])
  BY DEF constructInt, setVtNamed
<1>3. w \in VariantRecords /\ w.ptr = 0
  BY DEF Variant, VariantRecords
<1> HIDE DEF e
<1>4. MemoryInv([e EXCEPT !.v[x] = w])
  BY <1>1, <1>3, PlacedKeeps
<1>5. QED
  BY <1>2, <1>4, VariantCallCounted

LEMMA PartOfBlock ==
  ASSUME NEW o, MemoryInv(o), NEW y \in Variants, ValuesHeld(o, y)
  PROVE  LET part == SubSeq(o.blocks[o.v[y].ptr], 1, o.v[y].size)
         IN part \in Seq(TextBytes) /\ Len(part) = o.v[y].size
<1> DEFINE block == o.blocks[o.v[y].ptr]
           size == o.v[y].size
<1>1. o.v[y].ptr \in 1..Len(o.blocks) /\ Len(block) >= size /\ o \in VariantState
  BY DEF MemoryInv, InBounds
<1>2. block \in Seq(TextBytes) /\ size \in Nat
  BY <1>1 DEF VariantState, VariantRecords
<1> HIDE DEF block, size
<1>3. SubSeq(block, 1, size) \in Seq(TextBytes) /\ Len(SubSeq(block, 1, size)) = size
  BY <1>1, <1>2
<1>4. QED
  BY <1>3 DEF block, size

\* What a variant had is lost, and it becomes one without a block.
LEMMA DroppedKeeps ==
  ASSUME NEW o, NEW x \in Variants, MemoryInv(o),
         NEW w \in VariantRecords, w.vt \in TextTypes => w.ptr = 0, NEW bytes \in Seq(TextBytes),
         NEW lost, lost = o.lost \union (IF ValuesHeld(o, x) THEN {o.v[x].ptr} ELSE {}),
         NEW spoilt \in SUBSET Variants, spoilt \ {x} = o.spoilt \ {x}
  PROVE  MemoryInv([o EXCEPT !.v = [o.v EXCEPT ![x] = w], !.put = [o.put EXCEPT ![x] = bytes],
                             !.lost = lost, !.spoilt = spoilt])
<1> DEFINE v == [o.v EXCEPT ![x] = w]
           placed == [o.put EXCEPT ![x] = bytes]
           c == [o EXCEPT !.v = v, !.put = placed, !.lost = lost, !.spoilt = spoilt]
<1>1. o \in VariantState /\ InBounds(o)
  BY DEF MemoryInv
<1>2. /\ v \in [Variants -> VariantRecords] /\ v[x] = w /\ placed \in [Variants -> Seq(TextBytes)]
      /\ \A y \in Variants : y # x => v[y] = o.v[y] /\ placed[y] = o.put[y]
  BY <1>1 DEF VariantState
<1>3. lost \in SUBSET Nat
  BY <1>1 DEF VariantState, VariantRecords
<1> HIDE DEF v, placed
<1>4. c \in VariantState
  BY <1>1, <1>2, <1>3 DEF VariantState
<1>5. c.v = v /\ c.put = placed /\ c.freed = o.freed /\ c.blocks = o.blocks /\ c.lost = lost /\ c.spoilt = spoilt
  BY <1>1 DEF VariantState
<1>6. (c.twice <=> o.twice) /\ (c.shared <=> o.shared)
  BY <1>1 DEF VariantState
<1> HIDE DEF c
<1>7. \A y \in Variants : ValuesHeld(c, y) <=> y # x /\ ValuesHeld(o, y)
  BY <1>2, <1>5 DEF ValuesHeld
<1>8. InBounds(c)
  BY <1>1, <1>2, <1>5, <1>7 DEF InBounds
<1>9. ASSUME ~o.shared PROVE ~c.twice /\ OwnedAlone(c) /\ ReadAsPut(c)
  <2>1. ~o.twice /\ OwnedAlone(o) /\ ReadAsPut(o)
    BY <1>9 DEF MemoryInv
  <2>2. OwnedAlone(c)
    <3>1. \A y, z \in Variants : y # z /\ ValuesHeld(c, y) /\ ValuesHeld(c, z) => c.v[y].ptr # c.v[z].ptr
      <4>1. ASSUME NEW y \in Variants, NEW z \in Variants, y # z, ValuesHeld(c, y), ValuesHeld(c, z)
            PROVE  v[y].ptr # v[z].ptr
        <5>1. ValuesHeld(o, y) /\ ValuesHeld(o, z) /\ v[y] = o.v[y] /\ v[z] = o.v[z]
          BY <1>2, <1>7, <4>1
        <5>2. QED
          BY <2>1, <4>1, <5>1 DEF OwnedAlone
      <4>2. QED
        BY <1>5, <4>1
    <3>2. \A y \in Variants : ValuesHeld(c, y) => c.v[y].ptr \notin c.freed
      BY <1>2, <1>5, <1>7, <2>1 DEF OwnedAlone
    <3>3. ASSUME NEW b \in 1..Len(o.blocks)
          PROVE  b \in o.freed \/ b \in lost \/ \E y \in Variants : ValuesHeld(c, y) /\ v[y].ptr = b
      <4>1. CASE b \in o.freed \/ b \in o.lost
        BY <4>1
      <4>2. ASSUME NEW y \in Variants, ValuesHeld(o, y), o.v[y].ptr = b
            PROVE  b \in lost \/ (ValuesHeld(c, y) /\ v[y].ptr = b)
        BY <1>2, <1>7, <4>2
      <4>3. QED
        BY <2>1, <4>1, <4>2 DEF OwnedAlone
    <3>4. QED
      BY <1>5, <3>1, <3>2, <3>3 DEF OwnedAlone
  <2>3. ReadAsPut(c)
    BY <1>2, <1>5, <1>7, <2>1 DEF ReadAsPut, AsPut
  <2>4. QED
    BY <1>6, <2>1, <2>2, <2>3
<1>10. MemoryInv(c)
  BY <1>4, <1>6, <1>8, <1>9 DEF MemoryInv
<1>11. QED
  BY <1>10 DEF c, v, placed

\* A block takes the place of the pointer that was copied.
LEMMA AllottedAnew ==
  ASSUME NEW o \in VariantState, NEW x \in Variants, NEW w \in VariantRecords, o.v[x] = w,
         NEW bytes \in Seq(TextBytes)
  PROVE  Allocated(o, x, bytes)
         = Allocated([o EXCEPT !.v = [o.v EXCEPT ![x] = [w EXCEPT !.ptr = 0]]], x, bytes)
<1> DEFINE w0 == [w EXCEPT !.ptr = 0]
           v0 == [o.v EXCEPT ![x] = w0]
           o0 == [o EXCEPT !.v = v0]
           n == Len(o.blocks) + 1
           blocks == Append(o.blocks, bytes)
           placed == [o.put EXCEPT ![x] = bytes]
<1>1. [w0 EXCEPT !.ptr = n] = [w EXCEPT !.ptr = n]
  BY DEF VariantRecords
<1>2. v0 \in [Variants -> VariantRecords] /\ v0[x] = w0 /\ \A y \in Variants : y # x => v0[y] = o.v[y]
  BY DEF VariantState, VariantRecords
<1>3. [v0 EXCEPT ![x].ptr = n] = [o.v EXCEPT ![x].ptr = n]
  <2>1. [v0 EXCEPT ![x].ptr = n] = [v0 EXCEPT ![x] = [w0 EXCEPT !.ptr = n]]
    BY <1>2
  <2>2. [o.v EXCEPT ![x].ptr = n] = [o.v EXCEPT ![x] = [w EXCEPT !.ptr = n]]
    OBVIOUS
  <2> HIDE DEF v0, w0, n
  <2>3. QED
    BY <1>1, <1>2, <2>1, <2>2 DEF VariantState
<1>4. o0 \in VariantState /\ o0.v = v0 /\ o0.blocks = o.blocks /\ o0.put = o.put
  <2> HIDE DEF v0
  <2>1. o0 \in VariantState
    BY <1>2 DEF VariantState
  <2>2. QED
    BY <2>1 DEF VariantState
<1>5. Allocated(o, x, bytes) = [o EXCEPT !.blocks = blocks, !.v = [o.v EXCEPT ![x].ptr = n], !.put = placed]
  BY DEF Allocated, VariantState
<1>6. Allocated(o0, x, bytes) = [o0 EXCEPT !.blocks = blocks, !.v = [v0 EXCEPT ![x].ptr = n], !.put = placed]
  <2> HIDE DEF o0
  <2>1. QED
    BY <1>4 DEF Allocated, VariantState
<1> DEFINE v == [o.v EXCEPT ![x].ptr = n]
<1>7. Allocated(o0, x, bytes) = [o0 EXCEPT !.blocks = blocks, !.v = v, !.put = placed]
  BY <1>3, <1>6
<1> HIDE DEF v, v0, blocks, placed
<1>8. [o0 EXCEPT !.blocks = blocks, !.v = v, !.put = placed] = [o EXCEPT !.blocks = blocks, !.v = v, !.put = placed]
  BY DEF VariantState
<1>9. QED
  BY <1>5, <1>7, <1>8 DEF v, v0, blocks, placed

LEMMA CopyConstructStep ==
  ASSUME MemoryInv(obj), NEW x \in Variants, NEW y \in Variants, copyConstruct(x, y)
  PROVE  MemoryInv(obj')
<1> DEFINE e == ClearOf(obj, x)
           w == obj.v[y]
           o == [e EXCEPT !.v[x] = w]
           bytes == IF w.size = 0 THEN <<>> ELSE SubSeq(obj.blocks[w.ptr], 1, w.size)
           p == Allocated(o, x, bytes)
<1>1. x # y /\ CallMade(IF IsText(y) THEN p ELSE o) /\ (IsText(y) => w.size = 0 \/ w.ptr # 0)
  BY DEF copyConstruct, HasMemory
<1>2. MemoryInv(e) /\ ~ValuesHeld(e, x) /\ e \in VariantState
  BY ClearedFirst DEF MemoryInv
<1>3. w \in VariantRecords
  BY DEF MemoryInv, VariantState
<1>4. CASE ~IsText(y)
  <2>1. w.vt \notin TextTypes
    BY <1>4 DEF IsText
  <2> HIDE DEF e, w
  <2>2. MemoryInv(o)
    BY <1>2, <1>3, <2>1, PlacedKeeps
  <2>3. QED
    BY <1>1, <1>4, <2>2, VariantCallCounted
<1>5. CASE IsText(y)
  <2>1. w.vt \in TextTypes
    BY <1>5 DEF IsText
  <2>2. bytes \in Seq(TextBytes) /\ Len(bytes) = w.size
    <3>1. CASE w.size = 0
      BY <3>1
    <3>2. CASE w.size # 0
      <4>1. ValuesHeld(obj, y)
        BY <1>1, <1>5, <2>1, <3>2 DEF ValuesHeld
      <4>2. QED
        BY <3>2, <4>1, PartOfBlock
    <3>3. QED
      BY <3>1, <3>2
  <2> HIDE DEF e, w, bytes
  <2> DEFINE w0 == [w EXCEPT !.ptr = 0]
             o0 == [e EXCEPT !.v[x] = w0]
             o1 == [o EXCEPT !.v = [o.v EXCEPT ![x] = w0]]
  <2>3. w0 \in VariantRecords /\ w0.ptr = 0 /\ w0.vt = w.vt /\ w0.size = w.size
    BY <1>3 DEF VariantRecords
  <2>4. o \in VariantState /\ o.v = [e.v EXCEPT ![x] = w] /\ o.v[x] = w
    BY <1>2, <1>3 DEF VariantState
  <2>5. o1 = o0
    <3> HIDE DEF w0
    <3>1. [[e.v EXCEPT ![x] = w] EXCEPT ![x] = w0] = [e.v EXCEPT ![x] = w0]
      BY <1>2 DEF VariantState
    <3>2. o1 = [o EXCEPT !.v = [e.v EXCEPT ![x] = w0]]
      BY <2>4, <3>1
    <3>3. o0 = [e EXCEPT !.v = [e.v EXCEPT ![x] = w0]]
      BY <1>2 DEF VariantState
    <3> DEFINE v == [e.v EXCEPT ![x] = w0]
               u == [e.v EXCEPT ![x] = w]
    <3>4. o = [e EXCEPT !.v = u]
      BY <1>2 DEF VariantState
    <3> HIDE DEF v, u, o
    <3>5. [o EXCEPT !.v = v] = [e EXCEPT !.v = v]
      BY <1>2, <3>4 DEF VariantState
    <3>6. QED
      BY <3>2, <3>3, <3>5 DEF v
  <2>6. p = Allocated(o0, x, bytes)
    <3>1. p = Allocated(o1, x, bytes)
      <4>1. o \in VariantState /\ o.v[x] = w
        BY <2>4
      <4> HIDE DEF o
      <4>2. Allocated(o, x, bytes)
            = Allocated([o EXCEPT !.v = [o.v EXCEPT ![x] = [w EXCEPT !.ptr = 0]]], x, bytes)
        BY <1>3, <2>2, <4>1, AllottedAnew
      <4>3. QED
        BY <4>2
    <3>2. QED
      BY <2>5, <3>1
  <2>7. MemoryInv(o0) /\ o0.v[x] = w0
    <3> HIDE DEF w0
    <3>1. MemoryInv(o0) /\ o0.v = [e.v EXCEPT ![x] = w0]
      BY <1>2, <2>3, PlacedKeeps
    <3>2. QED
      BY <1>2, <3>1 DEF VariantState
  <2> HIDE DEF p, o0, w0
  <2>8. MemoryInv(p)
    BY <2>1, <2>2, <2>3, <2>6, <2>7, AllocatedKeeps, <1>3 DEF VariantRecords
  <2>9. QED
    BY <1>1, <1>5, <2>8, VariantCallCounted
<1>6. QED
  BY <1>4, <1>5

LEMMA MoveConstructStep ==
  ASSUME MemoryInv(obj), NEW x \in Variants, NEW y \in Variants, moveConstruct(x, y)
  PROVE  MemoryInv(obj')
<1> DEFINE e == ClearOf(obj, x)
           w == obj.v[y]
           spoilt == IF y \in e.spoilt THEN e.spoilt \union {x} ELSE e.spoilt \ {x}
           v == [[e.v EXCEPT ![x] = w] EXCEPT ![y].vt = "UNKNOWN"]
           placed == [[e.put EXCEPT ![x] = obj.put[y]] EXCEPT ![y] = <<>>]
           c == [e EXCEPT !.v = v, !.put = placed, !.spoilt = spoilt]
<1>1. /\ x # y
      /\ CallMade([e EXCEPT !.v[x] = obj.v[y], !.v[y].vt = "UNKNOWN",
                            !.put[x] = obj.put[y], !.put[y] = <<>>,
                            !.spoilt = IF y \in @ THEN @ \union {x} ELSE @ \ {x}])
  BY DEF moveConstruct
<1>2. MemoryInv(e) /\ ~ValuesHeld(e, x) /\ e \in VariantState /\ InBounds(e)
  BY ClearedFirst DEF MemoryInv
<1>3. e.v = [obj.v EXCEPT ![x] = Unknown] /\ e.put = [obj.put EXCEPT ![x] = <<>>]
  BY ClearKeeps
<1>4. w = e.v[y] /\ obj.put[y] = e.put[y] /\ w \in VariantRecords
  BY <1>1, <1>3 DEF MemoryInv, VariantState
<1> HIDE DEF e
<1>5. [e EXCEPT !.v[x] = obj.v[y], !.v[y].vt = "UNKNOWN", !.put[x] = obj.put[y], !.put[y] = <<>>,
                !.spoilt = IF y \in @ THEN @ \union {x} ELSE @ \ {x}] = c
  BY <1>2 DEF VariantState
<1>6. /\ v \in [Variants -> VariantRecords] /\ placed \in [Variants -> Seq(TextBytes)]
      /\ v[x] = e.v[y] /\ placed[x] = e.put[y] /\ v[y].vt = "UNKNOWN"
      /\ \A z \in Variants : z = x \/ z = y
  <2> DEFINE u == [e.v EXCEPT ![x] = w]
             f == [e.put EXCEPT ![x] = obj.put[y]]
  <2>1. \A z \in Variants : z = x \/ z = y
    BY <1>1 DEF Variants
  <2>2. /\ u \in [Variants -> VariantRecords] /\ u[x] = e.v[y] /\ u[y] = e.v[y]
        /\ f \in [Variants -> Seq(TextBytes)] /\ f[x] = e.put[y]
    BY <1>1, <1>2, <1>4 DEF VariantState
  <2> HIDE DEF u, f
  <2>3. /\ [u EXCEPT ![y].vt = "UNKNOWN"] \in [Variants -> VariantRecords]
        /\ [u EXCEPT ![y].vt = "UNKNOWN"][x] = u[x] /\ [u EXCEPT ![y].vt = "UNKNOWN"][y].vt = "UNKNOWN"
    BY <1>1, <2>2 DEF VariantRecords
  <2>4. [f EXCEPT ![y] = <<>>] \in [Variants -> Seq(TextBytes)] /\ [f EXCEPT ![y] = <<>>][x] = f[x]
    BY <1>1, <2>2
  <2>5. v = [u EXCEPT ![y].vt = "UNKNOWN"] /\ placed = [f EXCEPT ![y] = <<>>]
    BY DEF u, f
  <2> HIDE DEF v, placed
  <2>6. QED
    BY <2>1, <2>2, <2>3, <2>4, <2>5
<1>7. spoilt \in SUBSET Variants /\ (y \in e.spoilt => x \in spoilt)
  BY <1>2 DEF VariantState
<1> HIDE DEF v, placed, spoilt
<1>8. c \in VariantState
  BY <1>2, <1>6, <1>7 DEF VariantState
<1>9. c.v = v /\ c.put = placed /\ c.freed = e.freed /\ c.blocks = e.blocks /\ c.lost = e.lost /\ c.spoilt = spoilt
  BY <1>2 DEF VariantState
<1>10. (c.twice <=> e.twice) /\ (c.shared <=> e.shared)
  BY <1>2 DEF VariantState
<1> HIDE DEF c
<1>11. /\ ValuesHeld(c, x) <=> ValuesHeld(e, y)
       /\ ~ValuesHeld(c, y)
  BY <1>6, <1>9 DEF ValuesHeld, TextTypes
<1>12. InBounds(c)
  <2>1. ValuesHeld(c, x) => c.v[x].ptr \in 1..Len(c.blocks) /\ Len(c.blocks[c.v[x].ptr]) >= c.v[x].size
    BY <1>2, <1>6, <1>9, <1>11 DEF InBounds
  <2>2. QED
    BY <1>2, <1>6, <1>9, <1>11, <2>1 DEF InBounds
<1>13. ASSUME ~e.shared PROVE ~c.twice /\ OwnedAlone(c) /\ ReadAsPut(c)
  <2>1. ~e.twice /\ OwnedAlone(e) /\ ReadAsPut(e)
    BY <1>2, <1>13 DEF MemoryInv
  <2>2. OwnedAlone(c)
    <3>1. \A z, u \in Variants : z # u /\ ValuesHeld(c, z) /\ ValuesHeld(c, u) => c.v[z].ptr # c.v[u].ptr
      BY <1>6, <1>11
    <3>2. \A z \in Variants : ValuesHeld(c, z) => c.v[z].ptr \notin c.freed
      BY <1>6, <1>9, <1>11, <2>1 DEF OwnedAlone
    <3>3. ASSUME NEW b \in 1..Len(e.blocks)
          PROVE  b \in e.freed \/ b \in e.lost \/ (ValuesHeld(c, x) /\ v[x].ptr = b)
      BY <1>2, <1>6, <1>11, <2>1 DEF OwnedAlone
    <3>4. QED
      BY <1>9, <3>1, <3>2, <3>3 DEF OwnedAlone
  <2>3. ReadAsPut(c)
    <3>1. ASSUME ValuesHeld(c, x) PROVE x \in c.spoilt \/ AsPut(c, x)
      <4>1. y \in e.spoilt \/ AsPut(e, y)
        BY <1>11, <2>1, <3>1 DEF ReadAsPut
      <4>2. AsPut(e, y) => AsPut(c, x)
        <5>1. c.v[x] = e.v[y] /\ c.put[x] = e.put[y] /\ c.blocks = e.blocks
          BY <1>6, <1>9
        <5>2. QED
          BY <5>1 DEF AsPut
      <4>3. QED
        BY <1>7, <1>9, <4>1, <4>2
    <3>2. QED
      BY <1>6, <1>11, <3>1 DEF ReadAsPut
  <2>4. QED
    BY <1>10, <2>1, <2>2, <2>3
<1>14. MemoryInv(c)
  BY <1>8, <1>10, <1>12, <1>13 DEF MemoryInv
<1>15. QED
  BY <1>1, <1>5, <1>14, VariantCallCounted

LEMMA DestructStep ==
  ASSUME MemoryInv(obj), NEW x \in Variants, destruct(x) \/ setSize(x) \/ setVt(x)
  PROVE  MemoryInv(obj')
<1>1. CASE destruct(x)
  BY <1>1, ClearKeeps, VariantCallCounted DEF destruct
<1>2. CASE setSize(x)
  <2>1. PICK n \in 0..2 : CallMade(SetSize(obj, x, n))
    BY <1>2 DEF setSize
  <2>2. MemoryInv(SetSize(obj, x, n))
    BY SetSizeKeeps
  <2>3. QED
    BY <2>1, <2>2, VariantCallCounted
<1>3. CASE setVt(x)
  <2>1. PICK vt \in TextTypes \union {"INT"} : CallMade(SetVt(obj, x, vt))
    BY <1>3 DEF setVt
  <2>2. MemoryInv(SetVt(obj, x, vt))
    BY SetVtKeeps
  <2>3. QED
    BY <2>1, <2>2, VariantCallCounted
<1>4. QED
  BY <1>1, <1>2, <1>3

LEMMA SetValueStep ==
  ASSUME MemoryInv(obj), NEW x \in Variants, setValue(x)
  PROVE  MemoryInv(obj')
<1>1. PICK bytes \in TwoTexts \union {<<>>} :
       \/ /\ obj.v[x].vt = "STRING"
          /\ CallMade(PutIn(SetSize(obj, x, Len(bytes)), x, bytes))
       \/ /\ obj.v[x].vt = "CARRAY" /\ Len(bytes) >= obj.v[x].size
          /\ CallMade(PutIn(obj, x, SubSeq(bytes, 1, obj.v[x].size)))
  BY DEF setValue
<1>2. bytes \in Seq(TextBytes) /\ Len(bytes) \in Nat
  BY TextsAre
<1>3. obj.v[x].size \in Nat
  BY DEF MemoryInv, VariantState, VariantRecords
<1>4. CASE obj.v[x].vt = "STRING" /\ CallMade(PutIn(SetSize(obj, x, Len(bytes)), x, bytes))
  <2> DEFINE o == SetSize(obj, x, Len(bytes))
  <2>1. MemoryInv(o) /\ o.v[x].vt \in TextTypes /\ o.v[x].size = Len(bytes)
    BY <1>2, <1>4, SetSizeKeeps DEF TextTypes
  <2>2. CallMade(PutIn(o, x, bytes))
    BY <1>4
  <2> HIDE DEF o
  <2>3. MemoryInv(PutIn(o, x, bytes))
    BY <1>2, <2>1, PutInKeeps
  <2>4. QED
    BY <2>2, <2>3, VariantCallCounted
<1>5. CASE /\ obj.v[x].vt = "CARRAY" /\ Len(bytes) >= obj.v[x].size
           /\ CallMade(PutIn(obj, x, SubSeq(bytes, 1, obj.v[x].size)))
  <2> DEFINE n == obj.v[x].size
             part == SubSeq(bytes, 1, n)
  <2>1. obj.v[x].vt \in TextTypes /\ CallMade(PutIn(obj, x, part)) /\ n \in Nat /\ n <= Len(bytes)
    BY <1>2, <1>3, <1>5 DEF TextTypes
  <2>2. part \in Seq(TextBytes) /\ Len(part) = n
    <3> HIDE DEF n
    <3>1. QED
      BY <1>2, <2>1
  <2> HIDE DEF part
  <2>3. MemoryInv(PutIn(obj, x, part))
    BY <2>1, <2>2, PutInKeeps
  <2>4. QED
    BY <2>1, <2>3, VariantCallCounted
<1>6. QED
  BY <1>1, <1>4, <1>5

LEMMA SetValueSizedStep ==
  ASSUME MemoryInv(obj), NEW x \in Variants, setValueSized(x)
  PROVE  MemoryInv(obj')
<1> DEFINE size == obj.v[x].size
           zeroed == PutIn(obj, x, Zeros(size))
<1>1. PICK bytes \in TwoTexts :
        \/ obj.v[x].vt = "STRING" /\ CallMade(PutIn(SetSize(zeroed, x, Len(bytes)), x, bytes))
        \/ /\ obj.v[x].vt = "CARRAY"
           /\ CallMade(PutIn(obj, x, SubSeq(bytes, 1, Min2(Len(bytes), size)) \o Zeros(size - Min2(Len(bytes), size))))
  BY DEF setValueSized
<1>2. bytes \in Seq(TextBytes) /\ Len(bytes) \in Nat
  BY TextsAre
<1>3. size \in Nat
  BY DEF MemoryInv, VariantState, VariantRecords
<1>4. CASE obj.v[x].vt = "STRING" /\ CallMade(PutIn(SetSize(zeroed, x, Len(bytes)), x, bytes))
  <2> DEFINE o == SetSize(zeroed, x, Len(bytes))
  <2>1. CallMade(PutIn(o, x, bytes)) /\ obj.v[x].vt \in TextTypes
    BY <1>4 DEF TextTypes
  <2>2. Zeros(size) \in Seq(TextBytes) /\ size <= Len(Zeros(size))
    BY <1>3, ZerosAre
  <2>3. MemoryInv(zeroed) /\ zeroed.v = obj.v
    BY <2>1, <2>2, PutInKeeps
  <2> HIDE DEF zeroed
  <2>4. MemoryInv(o) /\ o.v[x].vt \in TextTypes /\ o.v[x].size = Len(bytes)
    BY <1>2, <2>1, <2>3, SetSizeKeeps
  <2> HIDE DEF o
  <2>5. MemoryInv(PutIn(o, x, bytes))
    BY <1>2, <2>4, PutInKeeps
  <2>6. QED
    BY <2>1, <2>5, VariantCallCounted
<1>5. CASE /\ obj.v[x].vt = "CARRAY"
           /\ CallMade(PutIn(obj, x, SubSeq(bytes, 1, Min2(Len(bytes), size)) \o Zeros(size - Min2(Len(bytes), size))))
  <2> DEFINE n == Min2(Len(bytes), size)
             part == SubSeq(bytes, 1, n)
             rest == Zeros(size - n)
             all == part \o rest
  <2>1. n \in Nat /\ n <= Len(bytes) /\ n <= size /\ size - n \in Nat
    BY <1>2, <1>3 DEF Min2
  <2>2. CallMade(PutIn(obj, x, all)) /\ obj.v[x].vt \in TextTypes
    BY <1>5 DEF TextTypes
  <2> HIDE DEF n
  <2>3. part \in Seq(TextBytes) /\ Len(part) = n /\ rest \in Seq(TextBytes) /\ Len(rest) = size - n
    <3>1. part \in Seq(TextBytes) /\ Len(part) = n
      BY <1>2, <2>1
    <3>2. rest \in Seq(TextBytes) /\ Len(rest) = size - n
      BY <2>1, ZerosAre
    <3>3. QED
      BY <3>1, <3>2
  <2> HIDE DEF part, rest
  <2>4. all \in Seq(TextBytes) /\ Len(all) = n + (size - n)
    <3>1. part \o rest \in Seq(TextBytes) /\ Len(part \o rest) = Len(part) + Len(rest)
      BY ONLY <2>3, ConcatProperties
    <3>2. QED
      BY <2>3, <3>1
  <2> HIDE DEF all
  <2>5. MemoryInv(PutIn(obj, x, all))
    BY <1>3, <2>1, <2>2, <2>4, PutInKeeps
  <2>6. QED
    BY <2>2, <2>5, VariantCallCounted
<1>6. QED
  BY <1>1, <1>4, <1>5

LEMMA SetValueNamedStep ==
  ASSUME MemoryInv(obj), NEW x \in Variants, setValueNamed(x) \/ zero(x)
  PROVE  MemoryInv(obj')
<1>1. CASE CallMade(PutIn(SetSize(SetVt(obj, x, "CARRAY"), x, 2), x, <<"p", "q">>))
  <2> DEFINE o == SetVt(obj, x, "CARRAY")
             c == SetSize(o, x, 2)
             bytes == <<"p", "q">>
  <2>1. MemoryInv(o) /\ o.v[x].vt \in TextTypes
    BY SetVtKeeps DEF TextTypes
  <2>2. bytes \in Seq(TextBytes) /\ Len(bytes) = 2
    BY DEF TextBytes
  <2>3. CallMade(PutIn(c, x, bytes))
    BY <1>1
  <2> HIDE DEF o, bytes
  <2>4. MemoryInv(c) /\ c.v[x].vt \in TextTypes /\ c.v[x].size = 2
    BY <2>1, SetSizeKeeps
  <2> HIDE DEF c
  <2>5. MemoryInv(PutIn(c, x, bytes))
    <3>1. bytes \in Seq(TextBytes) /\ c.v[x].size <= Len(bytes)
      BY <2>2, <2>4
    <3>2. QED
      BY <2>4, <3>1, PutInKeeps
  <2>6. QED
    BY <2>3, <2>5, VariantCallCounted
<1>2. CASE CallMade(SetVt(obj, x, "INT"))
  <2>1. MemoryInv(SetVt(obj, x, "INT"))
    BY SetVtKeeps
  <2>2. QED
    BY <1>2, <2>1, VariantCallCounted
<1>3. CASE zero(x)
  <2> DEFINE size == obj.v[x].size
             bytes == Zeros(size)
  <2>1. obj.v[x].vt \in TextTypes /\ CallMade(PutIn(obj, x, bytes)) /\ size \in Nat
    BY <1>3 DEF zero, IsText, MemoryInv, VariantState, VariantRecords
  <2>2. bytes \in Seq(TextBytes) /\ size <= Len(bytes)
    BY <2>1, ZerosAre
  <2> HIDE DEF bytes
  <2>3. MemoryInv(PutIn(obj, x, bytes))
    BY <2>1, <2>2, PutInKeeps
  <2>4. QED
    BY <2>1, <2>3, VariantCallCounted
<1>4. QED
  BY <1>1, <1>2, <1>3 DEF setValueNamed

\* What is read of a text that operator= has made is not what was put.
LEMMA Spoiling ==
  ASSUME NEW o, NEW x \in Variants, MemoryInv(o), NEW bytes \in Seq(TextBytes)
  PROVE  MemoryInv([o EXCEPT !.put = [o.put EXCEPT ![x] = bytes], !.spoilt = o.spoilt \union {x}])
<1> DEFINE placed == [o.put EXCEPT ![x] = bytes]
           spoilt == o.spoilt \union {x}
           c == [o EXCEPT !.put = placed, !.spoilt = spoilt]
<1>1. o \in VariantState /\ InBounds(o)
  BY DEF MemoryInv
<1>2. /\ placed \in [Variants -> Seq(TextBytes)] /\ spoilt \in SUBSET Variants
      /\ \A y \in Variants : y # x => placed[y] = o.put[y]
      /\ \A y \in Variants : y \in spoilt <=> y = x \/ y \in o.spoilt
  BY <1>1 DEF VariantState
<1> HIDE DEF placed, spoilt
<1>3. c \in VariantState
  BY <1>1, <1>2 DEF VariantState
<1>4. c.v = o.v /\ c.put = placed /\ c.freed = o.freed /\ c.blocks = o.blocks /\ c.lost = o.lost /\ c.spoilt = spoilt
  BY <1>1 DEF VariantState
<1>5. (c.twice <=> o.twice) /\ (c.shared <=> o.shared)
  BY <1>1 DEF VariantState
<1> HIDE DEF c
<1>6. InBounds(c) /\ (OwnedAlone(o) => OwnedAlone(c))
  BY <1>1, <1>4 DEF InBounds, OwnedAlone, ValuesHeld
<1>7. ASSUME ReadAsPut(o) PROVE ReadAsPut(c)
  <2>1. ASSUME NEW y \in Variants, ValuesHeld(c, y) PROVE y \in c.spoilt \/ AsPut(c, y)
    <3>1. CASE y = x
      BY <1>2, <1>4, <3>1
    <3>2. CASE y # x
      <4>1. y \in o.spoilt \/ AsPut(o, y)
        BY <1>4, <1>7, <2>1 DEF ReadAsPut, ValuesHeld
      <4>2. AsPut(o, y) => AsPut(c, y)
        BY <1>2, <1>4, <3>2 DEF AsPut
      <4>3. QED
        BY <1>2, <1>4, <4>1, <4>2
    <3>3. QED
      BY <3>1, <3>2
  <2>2. QED
    BY <2>1 DEF ReadAsPut
<1>8. MemoryInv(c)
  BY <1>3, <1>5, <1>6, <1>7 DEF MemoryInv
<1>9. QED
  BY <1>8 DEF c, placed, spoilt

LEMMA VariantAssignStep ==
  ASSUME MemoryInv(obj), NEW x \in Variants, NEW y \in Variants, assign(x, y)
  PROVE  MemoryInv(obj')
<1> DEFINE w == obj.v[y]
           dropped == IF IsText(x) /\ obj.v[x].ptr # 0 THEN {obj.v[x].ptr} ELSE {}
           lost == obj.lost \union dropped
           v == [obj.v EXCEPT ![x] = w]
           placed == [obj.put EXCEPT ![x] = obj.put[y]]
           o == [obj EXCEPT !.v = v, !.put = placed, !.lost = lost]
           w0 == [w EXCEPT !.ptr = 0]
           v0 == [obj.v EXCEPT ![x] = w0]
<1>1. obj \in VariantState /\ InBounds(obj)
  BY DEF MemoryInv
<1>2. o = [obj EXCEPT !.v[x] = obj.v[y], !.put[x] = obj.put[y], !.lost = @ \union dropped]
  BY <1>1 DEF VariantState
<1>3. /\ (IsText(y) => w.size = 0 \/ w.ptr # 0)
      /\ CallMade(IF IsText(y) /\ w.size > 0
              THEN IF x = y THEN [Allocated(o, x, Zeros(w.size))
                                    EXCEPT !.put[x] = obj.put[x], !.spoilt = @ \union {x}]
                   ELSE Allocated([o EXCEPT !.spoilt = IF y \in @ THEN @ \union {x} ELSE @ \ {x}], x,
                                  SubSeq(obj.blocks[w.ptr], 1, w.size))
              ELSE [o EXCEPT !.shared = @ \/ (x # y /\ IsText(y) /\ w.ptr # 0)])
  BY <1>2 DEF assign, HasMemory
<1>4. /\ w \in VariantRecords /\ w0 \in VariantRecords /\ w0.ptr = 0 /\ w0.vt = w.vt /\ w0.size = w.size
      /\ w.size \in Nat
  BY <1>1 DEF VariantState, VariantRecords
<1>5. /\ v \in [Variants -> VariantRecords] /\ v0 \in [Variants -> VariantRecords] /\ v[x] = w /\ v0[x] = w0
      /\ placed \in [Variants -> Seq(TextBytes)] /\ obj.put[x] \in Seq(TextBytes) /\ obj.put[y] \in Seq(TextBytes)
      /\ [v EXCEPT ![x] = w0] = v0
  BY <1>1, <1>4 DEF VariantState
<1>6. lost \in SUBSET Nat /\ lost = obj.lost \union (IF ValuesHeld(obj, x) THEN {obj.v[x].ptr} ELSE {})
  BY <1>1 DEF VariantState, VariantRecords, ValuesHeld, IsText
<1>7. ASSUME NEW spoilt \in SUBSET Variants, spoilt \ {x} = obj.spoilt \ {x}, IsText(y),
             NEW bytes \in Seq(TextBytes), w.size <= Len(bytes)
      PROVE  MemoryInv(Allocated([o EXCEPT !.spoilt = spoilt], x, bytes))
  <2> DEFINE p == [o EXCEPT !.spoilt = spoilt]
             q == [p EXCEPT !.v = [p.v EXCEPT ![x] = w0]]
             q0 == [obj EXCEPT !.v = v0, !.put = placed, !.lost = lost, !.spoilt = spoilt]
  <2>1. p = [obj EXCEPT !.v = v, !.put = placed, !.lost = lost, !.spoilt = spoilt]
    BY <1>1 DEF VariantState
  <2> HIDE DEF v, placed, lost, v0, w0, w
  <2>2. p \in VariantState /\ p.v = v
    <3>1. p \in VariantState
      BY <1>1, <1>5, <1>6, <2>1 DEF VariantState
    <3>2. QED
      BY <1>1, <2>1, <3>1 DEF VariantState
  <2>3. q = q0
    <3>1. q = [p EXCEPT !.v = v0]
      BY <1>5, <2>2
    <3> HIDE DEF p, q
    <3>2. QED
      BY <1>1, <2>1, <3>1 DEF VariantState
  <2>4. MemoryInv(q0)
    <3> DEFINE more == lost
    <3>1. QED
      BY <1>4, <1>5, <1>6, <1>7, DroppedKeeps DEF v0, placed
  <2>5. q0.v = v0
    BY <1>1 DEF VariantState
  <2>6. Allocated(p, x, bytes) = Allocated(q, x, bytes)
    <3> HIDE DEF p
    <3>1. p.v[x] = w
      BY <1>5, <2>2
    <3>2. QED
      BY <1>4, <2>2, <3>1, AllottedAnew DEF w0
  <2>7. w.vt \in TextTypes
    BY <1>7 DEF IsText, w
  <2> HIDE DEF q0, p, q
  <2>8. MemoryInv(Allocated(q0, x, bytes))
    BY <1>4, <1>5, <1>7, <2>4, <2>5, <2>7, AllocatedKeeps
  <2>9. QED
    BY <2>3, <2>6, <2>8 DEF p
<1>8. CASE IsText(y) /\ w.size > 0 /\ x = y
  <2> DEFINE bytes == Zeros(w.size)
             p == Allocated(o, x, bytes)
  <2>1. CallMade([p EXCEPT !.put[x] = obj.put[x], !.spoilt = @ \union {x}])
    BY <1>3, <1>8
  <2>2. bytes \in Seq(TextBytes) /\ w.size <= Len(bytes)
    BY <1>4, ZerosAre
  <2>3. obj.spoilt \in SUBSET Variants /\ [o EXCEPT !.spoilt = obj.spoilt] = o
    BY <1>1 DEF VariantState
  <2> HIDE DEF bytes, w, o
  <2>4. MemoryInv(p)
    BY <1>7, <1>8, <2>2, <2>3
  <2> HIDE DEF p
  <2>5. MemoryInv([p EXCEPT !.put = [p.put EXCEPT ![x] = obj.put[x]], !.spoilt = p.spoilt \union {x}])
    BY <1>5, <2>4, Spoiling
  <2>6. [p EXCEPT !.put[x] = obj.put[x], !.spoilt = @ \union {x}]
        = [p EXCEPT !.put = [p.put EXCEPT ![x] = obj.put[x]], !.spoilt = p.spoilt \union {x}]
    BY <2>4 DEF MemoryInv, VariantState
  <2>7. QED
    BY <2>1, <2>5, <2>6, VariantCallCounted
<1>9. CASE IsText(y) /\ w.size > 0 /\ x # y
  <2> DEFINE bytes == SubSeq(obj.blocks[w.ptr], 1, w.size)
             spoilt == IF y \in o.spoilt THEN o.spoilt \union {x} ELSE o.spoilt \ {x}
             p == Allocated([o EXCEPT !.spoilt = spoilt], x, bytes)
  <2>1. o.spoilt = obj.spoilt /\ spoilt \in SUBSET Variants /\ spoilt \ {x} = obj.spoilt \ {x}
    <3>1. o.spoilt = obj.spoilt /\ obj.spoilt \in SUBSET Variants
      BY <1>1 DEF VariantState
    <3> HIDE DEF o
    <3>2. QED
      BY <3>1
  <2>2. CallMade(p)
    <3>1. [o EXCEPT !.spoilt = IF y \in @ THEN @ \union {x} ELSE @ \ {x}] = [o EXCEPT !.spoilt = spoilt]
      BY <1>1 DEF VariantState
    <3>2. QED
      BY <1>3, <1>9, <3>1
  <2>3. ValuesHeld(obj, y)
    BY <1>3, <1>4, <1>9 DEF ValuesHeld, IsText
  <2>4. bytes \in Seq(TextBytes) /\ Len(bytes) = w.size
    BY <2>3, PartOfBlock
  <2> HIDE DEF bytes, spoilt, w, o
  <2>5. MemoryInv(p)
    <3>1. w.size <= Len(bytes)
      BY <1>4, <2>4
    <3>2. IsText(y) /\ bytes \in Seq(TextBytes)
      BY <1>9, <2>4
    <3>3. spoilt \in SUBSET Variants /\ spoilt \ {x} = obj.spoilt \ {x}
      BY <2>1
    <3>4. QED
      BY <1>7, <3>1, <3>2, <3>3
  <2> HIDE DEF p
  <2>6. QED
    BY <2>2, <2>5, VariantCallCounted
<1>10. CASE ~(IsText(y) /\ w.size > 0)
  <2> DEFINE shared == obj.shared \/ (x # y /\ IsText(y) /\ w.ptr # 0)
             c == [o EXCEPT !.shared = shared]
  <2>1. CallMade(c)
    <3>1. [o EXCEPT !.shared = @ \/ (x # y /\ IsText(y) /\ w.ptr # 0)] = c
      BY <1>1 DEF VariantState
    <3>2. QED
      BY <1>3, <1>10, <3>1
  <2>2. c = [obj EXCEPT !.v = v, !.put = placed, !.lost = lost, !.shared = shared] /\ shared \in BOOLEAN
    BY <1>1 DEF VariantState
  <2> HIDE DEF c, o, lost, placed
  <2>3. c \in VariantState
    <3> HIDE DEF v, shared
    <3>1. QED
      BY <1>1, <1>5, <1>6, <2>2 DEF VariantState
  <2>4. /\ c.v = v /\ c.put = placed /\ c.freed = obj.freed /\ c.blocks = obj.blocks /\ c.lost = lost
        /\ c.spoilt = obj.spoilt
    <3> HIDE DEF v, shared
    <3>1. QED
      BY <1>1, <2>2 DEF VariantState
  <2>5. (c.twice <=> obj.twice) /\ (c.shared <=> shared)
    <3> HIDE DEF v, shared
    <3>1. QED
      BY <1>1, <2>2 DEF VariantState
  <2>6. /\ ValuesHeld(c, x) <=> ValuesHeld(obj, y)
        /\ \A z \in Variants : z # x => (ValuesHeld(c, z) <=> ValuesHeld(obj, z)) /\ c.v[z] = obj.v[z] /\ c.put[z] = obj.put[z]
    BY <1>1, <1>5, <2>4 DEF ValuesHeld, VariantState, placed
  <2>7. InBounds(c)
    <3>1. c.v[x] = obj.v[y]
      BY <1>5, <2>4
    <3> HIDE DEF v, w
    <3>2. QED
      BY <1>1, <2>4, <2>6, <3>1 DEF InBounds
  <2>8. CASE shared /\ ~obj.shared
    BY <2>1, <2>3, <2>5, <2>7, <2>8, VariantCallCounted DEF MemoryInv
  <2>9. CASE obj.shared
    <3>1. c.shared
      BY <2>5, <2>9
    <3>2. QED
      BY <2>1, <2>3, <2>7, <3>1, VariantCallCounted DEF MemoryInv
  <2>10. CASE ~shared /\ x # y
    <3>1. w.vt \in TextTypes => w.ptr = 0
      BY <2>10 DEF IsText
    <3>2. MemoryInv([obj EXCEPT !.v = [obj.v EXCEPT ![x] = w], !.put = [obj.put EXCEPT ![x] = obj.put[y]],
                                !.lost = lost, !.spoilt = obj.spoilt])
      BY <1>1, <1>4, <1>5, <1>6, <3>1, DroppedKeeps DEF VariantState
    <3>3. shared = obj.shared
      BY <1>1, <2>10 DEF VariantState
    <3>4. c = [obj EXCEPT !.v = v, !.put = placed, !.lost = lost, !.spoilt = obj.spoilt]
      <4> HIDE DEF v, shared
      <4>1. QED
        BY <1>1, <2>2, <3>3 DEF VariantState
    <3>5. MemoryInv(c)
      BY <3>2, <3>4 DEF placed
    <3>6. QED
      BY <2>1, <3>5, VariantCallCounted
  <2>11. CASE ~shared /\ x = y
    <3>1. v = obj.v /\ placed = obj.put
      BY <1>1, <2>11 DEF VariantState, placed
    <3>2. ~obj.twice /\ OwnedAlone(obj) /\ ReadAsPut(obj) /\ ~c.twice
      BY <2>5, <2>11 DEF MemoryInv
    <3>3. obj.lost \subseteq lost
      BY DEF lost
    <3> HIDE DEF v, shared
    <3>4. OwnedAlone(c)
      <4>1. \A z, u \in Variants : z # u /\ ValuesHeld(c, z) /\ ValuesHeld(c, u) => c.v[z].ptr # c.v[u].ptr
        BY <2>4, <3>1, <3>2 DEF OwnedAlone, ValuesHeld
      <4>2. \A z \in Variants : ValuesHeld(c, z) => c.v[z].ptr \notin c.freed
        BY <2>4, <3>1, <3>2 DEF OwnedAlone, ValuesHeld
      <4>3. \A z \in Variants : ValuesHeld(c, z) <=> ValuesHeld(obj, z)
        BY <2>4, <3>1 DEF ValuesHeld
      <4>4. QED
        BY <2>4, <3>1, <3>2, <3>3, <4>1, <4>2, <4>3 DEF OwnedAlone
    <3>5. ReadAsPut(c)
      BY <2>4, <3>1, <3>2 DEF ReadAsPut, ValuesHeld, AsPut
    <3>6. MemoryInv(c)
      BY <2>3, <2>7, <3>2, <3>4, <3>5 DEF MemoryInv
    <3>7. QED
      BY <2>1, <3>6, VariantCallCounted
  <2>12. QED
    BY <2>8, <2>9, <2>10, <2>11
<1>11. QED
  BY <1>4, <1>8, <1>9, <1>10

LEMMA VariantStep ==
  ASSUME MemoryInv(obj), VariantNext
  PROVE  MemoryInv(obj')
<1>1. PICK x \in Variants :
        \/ construct(x) \/ constructInt(x) \/ destruct(x) \/ setSize(x) \/ setVt(x) \/ setVtNamed(x)
        \/ setValue(x) \/ setValueSized(x) \/ setValueNamed(x) \/ zero(x)
        \/ \E y \in Variants : copyConstruct(x, y) \/ moveConstruct(x, y) \/ assign(x, y)
  BY DEF VariantNext
<1>2. QED
  BY <1>1, ConstructStep, ConstructIntStep, DestructStep, SetValueStep, SetValueSizedStep,
     SetValueNamedStep, CopyConstructStep, MoveConstructStep, VariantAssignStep

-----------------------------------------------------------------------------
(* Buffers.  What is in the memory of the size is what was put there, and   *)
(* nothing strays before the buffer has been made smaller.                  *)
BufCells == {0, 1, 2}
BufferState ==
  [mem : Seq(BufCells), size : Nat, capacity : Nat, readPos : Nat, want : Seq(BufCells),
   shrunk : BOOLEAN, cut : BOOLEAN, stray : BOOLEAN]
InMemory(o) ==
  /\ o.capacity <= Len(o.mem) /\ o.size <= Len(o.mem)
  /\ ~o.cut => o.size <= o.capacity
  /\ ~o.shrunk => o.readPos <= o.size
  /\ Data(o) = o.want
BufferInv(o) ==
  /\ o \in BufferState
  /\ o.stray => o.shrunk \/ o.cut
  /\ ~o.stray => InMemory(o)

LEMMA BufferHeld == BufferInv(obj) => BufferExact
  BY DEF BufferInv, InMemory, BufferExact

LEMMA BufferInvInit == BufferInit => BufferInv(obj)
<1> SUFFICES ASSUME BufferInit PROVE BufferInv(obj)
  OBVIOUS
<1>1. obj = [mem |-> <<>>, size |-> 0, capacity |-> 0, readPos |-> 0, want |-> <<>>,
             shrunk |-> FALSE, cut |-> FALSE, stray |-> FALSE]
  BY DEF BufferInit
<1>2. <<>> \in Seq(BufCells) /\ Len(<<>>) = 0 /\ SubSeq(<<>>, 1, 0) = <<>>
  OBVIOUS
<1>3. obj \in BufferState
  BY <1>1, <1>2 DEF BufferState
<1>4. ~obj.stray /\ ~obj.cut /\ ~obj.shrunk
  BY <1>1
<1>5. obj.mem = <<>> /\ obj.size = 0 /\ obj.capacity = 0 /\ obj.readPos = 0 /\ obj.want = <<>>
  BY <1>1
<1>6. Data(obj) = obj.want
  BY <1>2, <1>5 DEF Data
<1>7. QED
  BY <1>2, <1>3, <1>4, <1>5, <1>6 DEF BufferInv, InMemory

\* A capacity is at least what is asked for.
LEMMA AdjIs == \A n \in Nat : CapcityAdj(n) \in Nat /\ CapcityAdj(n) >= n
<1>1. ASSUME NEW n \in Nat PROVE CapcityAdj(n) \in Nat /\ CapcityAdj(n) >= n
  <2>1. CASE n = 0
    BY <2>1 DEF CapcityAdj
  <2>2. CASE n \in 1..32
    BY <2>2 DEF CapcityAdj
  <2>3. CASE n \in 33..4096
    BY <2>3 DEF CapcityAdj
  <2>4. CASE n > 4096
    BY <2>4 DEF CapcityAdj
  <2>5. QED
    BY <2>1, <2>2, <2>3, <2>4
<1>2. QED
  BY <1>1

LEMMA PaddedIs ==
  ASSUME NEW s \in Seq(BufCells), NEW n \in Nat
  PROVE  /\ Padded(s, n) \in Seq(BufCells) /\ Len(Padded(s, n)) = n
         /\ \A i \in 1..n : Padded(s, n)[i] = IF i <= Len(s) THEN s[i] ELSE 0
<1>1. \A i \in 1..n : (IF i <= Len(s) THEN s[i] ELSE Unset) \in BufCells
  BY DEF BufCells, Unset
<1>2. Padded(s, n) \in [1..n -> BufCells]
  BY <1>1 DEF Padded
<1>3. QED
  BY <1>2 DEF Padded, Unset

LEMMA OverIs ==
  ASSUME NEW s \in Seq(BufCells), NEW bytes \in Seq(BufCells), NEW from \in Nat
  PROVE  /\ Over(s, from, bytes) \in Seq(BufCells) /\ Len(Over(s, from, bytes)) = Len(s)
         /\ \A i \in 1..Len(s) :
              Over(s, from, bytes)[i] = IF i - from \in 1..Len(bytes) THEN bytes[i - from] ELSE s[i]
<1>1. DOMAIN s = 1..Len(s) /\ DOMAIN bytes = 1..Len(bytes) /\ Len(s) \in Nat
  OBVIOUS
<1>2. \A i \in 1..Len(s) : (IF i - from \in 1..Len(bytes) THEN bytes[i - from] ELSE s[i]) \in BufCells
  OBVIOUS
<1>3. Over(s, from, bytes) = [i \in 1..Len(s) |-> IF i - from \in 1..Len(bytes) THEN bytes[i - from] ELSE s[i]]
  BY <1>1 DEF Over
<1>4. Over(s, from, bytes) \in [1..Len(s) -> BufCells]
  BY <1>2, <1>3
<1>5. QED
  BY <1>1, <1>3, <1>4

\* The first bytes of a memory, byte for byte.
LEMMA FirstBytes ==
  ASSUME NEW mem \in Seq(BufCells), NEW s \in Seq(BufCells), Len(s) <= Len(mem),
         \A i \in 1..Len(s) : mem[i] = s[i]
  PROVE  SubSeq(mem, 1, Len(s)) = s
  OBVIOUS
LEMMA DataIs ==
  ASSUME NEW o, o.mem \in Seq(BufCells), o.size \in Nat, o.size <= Len(o.mem)
  PROVE  /\ Data(o) \in Seq(BufCells) /\ Len(Data(o)) = o.size
         /\ \A i \in 1..o.size : Data(o)[i] = o.mem[i]
  BY DEF Data

LEMMA JoinedIs ==
  ASSUME NEW s \in Seq(BufCells), NEW t \in Seq(BufCells)
  PROVE  /\ s \o t \in Seq(BufCells) /\ Len(s \o t) = Len(s) + Len(t)
         /\ \A i \in 1..Len(s \o t) : (s \o t)[i] = IF i <= Len(s) THEN s[i] ELSE t[i - Len(s)]
<1>1. /\ s \o t \in Seq(BufCells) /\ Len(s \o t) = Len(s) + Len(t)
      /\ \A i \in 1..Len(s) + Len(t) : (s \o t)[i] = IF i <= Len(s) THEN s[i] ELSE t[i - Len(s)]
  BY ConcatProperties
<1>2. QED
  BY <1>1

\* An append without a step beyond the memory.
LEMMA AppendedKeeps ==
  ASSUME NEW o, BufferInv(o), ~o.stray, NEW bytes \in Seq(BufCells), NEW want, want = o.want \o bytes
  PROVE  BufferInv([Appended(o, bytes) EXCEPT !.want = want]) /\ Appended(o, bytes).want = o.want
<1> DEFINE size == o.size + Len(bytes)
           new == Appended(o, bytes)
           p == [new EXCEPT !.want = want]
           room == Minus(o.capacity, o.size)
           data == Data(o)
<1>1. o \in BufferState /\ InMemory(o)
  BY DEF BufferInv
<1>2. /\ o.mem \in Seq(BufCells) /\ o.size \in Nat /\ o.want = data /\ data \in Seq(BufCells) /\ Len(data) = o.size
      /\ \A i \in 1..o.size : data[i] = o.mem[i]
      /\ o.capacity \in Nat /\ o.readPos \in Nat
  BY <1>1, DataIs DEF BufferState, InMemory
<1> HIDE DEF data
<1>3. /\ want \in Seq(BufCells) /\ Len(want) = size /\ size \in Nat
      /\ \A i \in 1..size : want[i] = IF i <= o.size THEN data[i] ELSE bytes[i - o.size]
  <2>1. data \in Seq(BufCells) /\ Len(data) = o.size /\ want = data \o bytes
    BY <1>2
  <2>2. /\ want \in Seq(BufCells) /\ Len(want) = Len(data) + Len(bytes)
        /\ \A i \in 1..Len(want) : want[i] = IF i <= Len(data) THEN data[i] ELSE bytes[i - Len(data)]
    BY <2>1, JoinedIs
  <2>3. Len(want) = size /\ size \in Nat
    BY <1>2, <2>1, <2>2
  <2>4. QED
    BY <2>1, <2>2, <2>3
<1> HIDE DEF size
<1>a. new.want = o.want
  BY <1>1 DEF Appended, Renewed, BufferState
<1>4. CASE bytes = <<>>
  <2>1. want = o.want
    BY <1>2, <1>4
  <2>2. p = o
    BY <1>1, <1>4, <2>1 DEF Appended, BufferState
  <2>3. QED
    BY <1>a, <2>2
<1>5. CASE bytes # <<>> /\ Len(bytes) <= room
  <2> DEFINE mem == Over(o.mem, o.size, bytes)
             stray == size > Len(o.mem)
  <2>1. p = [o EXCEPT !.mem = mem, !.size = size, !.stray = stray, !.want = want]
    BY <1>1, <1>5 DEF Appended, BufferState, size
  <2>2. /\ mem \in Seq(BufCells) /\ Len(mem) = Len(o.mem)
        /\ \A i \in 1..Len(o.mem) : mem[i] = IF i - o.size \in 1..Len(bytes) THEN bytes[i - o.size] ELSE o.mem[i]
    <3> DEFINE s == o.mem
               from == o.size
    <3>1. s \in Seq(BufCells) /\ from \in Nat
      BY <1>2
    <3> HIDE DEF s, from
    <3>2. /\ Over(s, from, bytes) \in Seq(BufCells) /\ Len(Over(s, from, bytes)) = Len(s)
          /\ \A i \in 1..Len(s) :
               Over(s, from, bytes)[i] = IF i - from \in 1..Len(bytes) THEN bytes[i - from] ELSE s[i]
      BY <3>1, OverIs
    <3>3. QED
      BY <3>2 DEF s, from
  <2>3. stray \in BOOLEAN
    OBVIOUS
  <2> HIDE DEF p, mem
  <2>4. p \in BufferState
    BY <1>1, <1>3, <2>1, <2>2, <2>3 DEF BufferState
  <2>5. /\ p.mem = mem /\ p.size = size /\ p.want = want /\ p.capacity = o.capacity /\ p.readPos = o.readPos
    BY <1>1, <2>1 DEF BufferState
  <2>6. (p.stray <=> stray) /\ (p.cut <=> o.cut) /\ (p.shrunk <=> o.shrunk)
    BY <1>1, <2>1, <2>3 DEF BufferState
  <2>7. ~o.cut => size <= o.capacity
    <3>1. ~o.cut => room = o.capacity - o.size
      BY <1>1, <1>2 DEF InMemory, Minus
    <3>2. QED
      BY <1>2, <1>5, <3>1 DEF size
  <2>8. ~o.cut => ~stray
    BY <1>1, <1>2, <1>3, <2>7 DEF InMemory
  <2>9. ASSUME ~stray PROVE Data(p) = p.want
    <3>1. size <= Len(mem)
      BY <1>2, <1>3, <2>2, <2>9
    <3>2. \A i \in 1..size : mem[i] = want[i]
      <4>1. ASSUME NEW i \in 1..size PROVE mem[i] = want[i]
        <5>1. i \in 1..Len(o.mem) /\ mem[i] = IF i - o.size \in 1..Len(bytes) THEN bytes[i - o.size] ELSE o.mem[i]
          BY <1>2, <1>3, <2>2, <3>1
        <5>2. want[i] = IF i <= o.size THEN data[i] ELSE bytes[i - o.size]
          BY <1>3
        <5>3. CASE i <= o.size
          <6>1. data[i] = o.mem[i] /\ i - o.size \notin 1..Len(bytes)
            BY <1>2, <5>3
          <6>2. QED
            BY <5>1, <5>2, <5>3, <6>1
        <5>4. CASE ~(i <= o.size)
          <6>1. i - o.size \in 1..Len(bytes)
            BY <1>2, <5>4 DEF size
          <6>2. QED
            BY <5>1, <5>2, <5>4, <6>1
        <5>5. QED
          BY <5>3, <5>4
      <4>2. QED
        BY <4>1
    <3>3. SubSeq(mem, 1, size) = want
      BY <1>3, <2>2, <3>1, <3>2, FirstBytes
    <3>4. QED
      BY <2>5, <3>3 DEF Data
  <2>10. o.size <= size
    BY <1>2 DEF size
  <2>11. ASSUME ~stray PROVE InMemory(p)
    <3>1. o.capacity <= Len(o.mem) /\ (~o.shrunk => o.readPos <= o.size)
      BY <1>1 DEF InMemory
    <3>2. size <= Len(mem) /\ Len(mem) = Len(o.mem)
      BY <1>2, <1>3, <2>2, <2>11
    <3>3. ~o.shrunk => o.readPos <= size
      BY <1>2, <1>3, <2>10, <3>1
    <3>4. p.capacity <= Len(p.mem) /\ p.size <= Len(p.mem)
      BY <2>5, <3>1, <3>2
    <3>5. (~p.cut => p.size <= p.capacity) /\ (~p.shrunk => p.readPos <= p.size)
      BY <2>5, <2>6, <2>7, <3>3
    <3>6. QED
      BY <2>9, <2>11, <3>4, <3>5 DEF InMemory
  <2>12. BufferInv(p)
    BY <2>4, <2>6, <2>8, <2>11 DEF BufferInv
  <2>13. QED
    BY <1>a, <2>12 DEF p
<1>6. CASE bytes # <<>> /\ ~(Len(bytes) <= room)
  <2> DEFINE cap == CapcityAdj(size)
             mem == Padded(data \o bytes, cap)
  <2>1. p = [o EXCEPT !.mem = mem, !.size = size, !.capacity = cap, !.want = want]
    BY <1>1, <1>6 DEF Appended, Renewed, BufferState, size, data
  <2>2. cap \in Nat /\ cap >= size
    BY <1>3, AdjIs
  <2>3. data \o bytes = want
    BY <1>2
  <2> HIDE DEF cap
  <2>4. mem \in Seq(BufCells) /\ Len(mem) = cap /\ \A i \in 1..size : mem[i] = want[i]
    <3>1. mem = Padded(want, cap)
      BY <2>3
    <3> HIDE DEF mem
    <3>2. /\ Padded(want, cap) \in Seq(BufCells) /\ Len(Padded(want, cap)) = cap
          /\ \A i \in 1..cap : Padded(want, cap)[i] = IF i <= Len(want) THEN want[i] ELSE 0
      BY <1>3, <2>2, PaddedIs
    <3>3. \A i \in 1..size : i \in 1..cap /\ i <= Len(want)
      BY <1>3, <2>2
    <3>4. QED
      BY <3>1, <3>2, <3>3
  <2> HIDE DEF p, mem
  <2>5. p \in BufferState
    BY <1>1, <1>3, <2>1, <2>2, <2>4 DEF BufferState
  <2>6. /\ p.mem = mem /\ p.size = size /\ p.want = want /\ p.capacity = cap /\ p.readPos = o.readPos
    BY <1>1, <2>1 DEF BufferState
  <2>7. (p.stray <=> o.stray) /\ (p.shrunk <=> o.shrunk)
    BY <1>1, <2>1 DEF BufferState
  <2>8. SubSeq(mem, 1, size) = want
    BY <1>3, <2>2, <2>4, FirstBytes
  <2>9. o.size <= size
    BY <1>2 DEF size
  <2>10. InMemory(p)
    <3>1. Data(p) = p.want
      BY <2>6, <2>8 DEF Data
    <3>2. ~p.shrunk => p.readPos <= p.size
      BY <1>1, <1>2, <1>3, <2>6, <2>7, <2>9 DEF InMemory
    <3>3. QED
      BY <1>3, <2>2, <2>4, <2>6, <3>1, <3>2 DEF InMemory
  <2>11. BufferInv(p)
    BY <2>5, <2>7, <2>10 DEF BufferInv
  <2>12. QED
    BY <1>a, <2>11 DEF p
<1>7. QED
  BY <1>4, <1>5, <1>6

LEMMA AppendStep ==
  ASSUME BufferInv(obj), NEW bytes \in Seq(BufCells), append(bytes)
  PROVE  BufferInv(obj')
<1> DEFINE new == Appended(obj, bytes)
<1>1. ~obj.stray /\ obj' = [new EXCEPT !.want = @ \o bytes]
  BY DEF append, BufferAt
<1>2. BufferInv([new EXCEPT !.want = obj.want \o bytes]) /\ new.want = obj.want
  BY <1>1, AppendedKeeps
<1> HIDE DEF new
<1>3. obj' = [new EXCEPT !.want = obj.want \o bytes]
  BY <1>1, <1>2
<1>4. QED
  BY <1>2, <1>3

LEMMA AppendSelfStep ==
  ASSUME BufferInv(obj), appendSelf
  PROVE  BufferInv(obj')
<1> DEFINE bytes == Data(obj)
           new == Appended(obj, bytes)
<1>1. ~obj.stray /\ obj' = [new EXCEPT !.want = @ \o @]
  BY DEF appendSelf, BufferAt
<1>2. bytes = obj.want /\ bytes \in Seq(BufCells)
  BY <1>1 DEF BufferInv, InMemory, BufferState
<1> HIDE DEF bytes
<1>3. BufferInv([new EXCEPT !.want = obj.want \o bytes]) /\ new.want = obj.want
  BY <1>1, <1>2, AppendedKeeps
<1> HIDE DEF new
<1>4. obj' = [new EXCEPT !.want = obj.want \o bytes]
  BY <1>1, <1>2, <1>3
<1>5. QED
  BY <1>3, <1>4

\* New memory: what is put there is there.
LEMMA PutThere ==
  ASSUME NEW bytes \in Seq(BufCells), NEW n \in Nat, n <= Len(bytes), NEW cap \in Nat, n <= cap
  PROVE  /\ Padded(bytes, cap) \in Seq(BufCells) /\ Len(Padded(bytes, cap)) = cap
         /\ SubSeq(Padded(bytes, cap), 1, n) = SubSeq(bytes, 1, n)
         /\ SubSeq(bytes, 1, n) \in Seq(BufCells)
<1> DEFINE mem == Padded(bytes, cap)
           s == SubSeq(bytes, 1, n)
<1>1. mem \in Seq(BufCells) /\ Len(mem) = cap /\ \A i \in 1..cap : mem[i] = IF i <= Len(bytes) THEN bytes[i] ELSE 0
  BY PaddedIs
<1>2. s \in Seq(BufCells) /\ Len(s) = n /\ \A i \in 1..n : s[i] = bytes[i]
  OBVIOUS
<1> HIDE DEF mem, s
<1>3. \A i \in 1..Len(s) : mem[i] = s[i]
  BY <1>1, <1>2
<1>4. SubSeq(mem, 1, Len(s)) = s
  BY <1>1, <1>2, <1>3, FirstBytes
<1>5. QED
  BY <1>1, <1>2, <1>4 DEF mem, s

LEMMA SetDataKeeps ==
  ASSUME NEW o \in BufferState, ~o.stray, NEW bytes \in Seq(BufCells)
  PROVE  BufferInv(setDataOf(o, bytes))
<1> DEFINE n == Len(bytes)
           cap == CapcityAdj(n)
           mem == IF bytes = <<>> THEN <<>> ELSE Padded(bytes, cap)
           c == IF bytes = <<>> THEN 0 ELSE cap
           p == setDataOf(o, bytes)
<1>1. p = [o EXCEPT !.mem = mem, !.size = n, !.capacity = c, !.readPos = 0, !.want = bytes,
                    !.shrunk = FALSE, !.cut = FALSE]
  BY DEF setDataOf, Renewed, BufferState
<1>2. n \in Nat /\ n <= c /\ c \in Nat /\ mem \in Seq(BufCells) /\ Len(mem) = c /\ SubSeq(mem, 1, n) = bytes
  <2>1. CASE bytes = <<>>
    BY <2>1
  <2>2. CASE bytes # <<>>
    <3>1. n \in Nat /\ cap \in Nat /\ n <= cap /\ SubSeq(bytes, 1, n) = bytes
      BY AdjIs
    <3> HIDE DEF cap, n
    <3>2. /\ Padded(bytes, cap) \in Seq(BufCells) /\ Len(Padded(bytes, cap)) = cap
          /\ SubSeq(Padded(bytes, cap), 1, n) = SubSeq(bytes, 1, n)
      <4>1. n <= Len(bytes)
        BY DEF n
      <4>2. QED
        BY <3>1, <4>1, PutThere
    <3>3. QED
      BY <2>2, <3>1, <3>2
  <2>3. QED
    BY <2>1, <2>2
<1> HIDE DEF n, c, mem, p
<1>3. p \in BufferState
  BY <1>1, <1>2 DEF BufferState
<1>4. p.mem = mem /\ p.size = n /\ p.want = bytes /\ p.capacity = c /\ p.readPos = 0
  BY <1>1 DEF BufferState
<1>5. ~p.stray
  BY <1>1 DEF BufferState
<1>6. InMemory(p)
  BY <1>2, <1>4 DEF InMemory, Data
<1>7. QED
  BY <1>3, <1>5, <1>6 DEF BufferInv, p

LEMMA SetDataStep ==
  ASSUME BufferInv(obj), setData(<<>>) \/ setData(<<1, 2>>) \/ \E n \in 0..2 : setDataRest(n)
  PROVE  BufferInv(obj')
<1>1. <<>> \in Seq(BufCells) /\ <<1, 2>> \in Seq(BufCells)
  BY DEF BufCells
<1>2. obj \in BufferState
  BY DEF BufferInv
<1>3. CASE setData(<<>>) \/ setData(<<1, 2>>)
  BY <1>1, <1>2, <1>3, SetDataKeeps DEF setData, BufferAt
<1>4. ASSUME NEW n \in 0..2, setDataRest(n) PROVE BufferInv(obj')
  <2> DEFINE data == Data(obj)
             bytes == SubSeq(data, n + 1, obj.size)
  <2>1. ~obj.stray /\ n <= obj.size /\ obj' = setDataOf(obj, bytes)
    BY <1>4 DEF setDataRest, BufferAt
  <2>2. data \in Seq(BufCells) /\ Len(data) = obj.size /\ obj.size \in Nat
    BY <1>2, <2>1, DataIs DEF BufferInv, InMemory, BufferState
  <2> HIDE DEF data
  <2>3. bytes \in Seq(BufCells)
    BY <2>1, <2>2
  <2> HIDE DEF bytes
  <2>4. QED
    BY <1>2, <2>1, <2>3, SetDataKeeps
<1>5. QED
  BY <1>3, <1>4

LEMMA ResizeStep ==
  ASSUME BufferInv(obj), NEW n \in Nat, resize(n)
  PROVE  BufferInv(obj')
<1> DEFINE cap == CapcityAdj(n)
           data == Data(obj)
           o == IF obj.capacity >= n THEN [obj EXCEPT !.size = n] ELSE Renewed(obj, data, n, cap)
           p == [o EXCEPT !.want = SubSeq(Data(o), 1, n), !.shrunk = n < o.readPos, !.cut = @ /\ o.capacity < n]
<1>1. /\ ~obj.stray /\ obj \in BufferState /\ InMemory(obj) /\ obj' = p
  BY DEF resize, BufferAt, BufferInv
<1>2. /\ obj.mem \in Seq(BufCells) /\ data \in Seq(BufCells) /\ obj.capacity \in Nat /\ cap \in Nat /\ n <= cap
      /\ obj.readPos \in Nat
  BY <1>1, AdjIs, DataIs DEF BufferState, InMemory
<1> HIDE DEF data, cap
<1> DEFINE mem == IF obj.capacity >= n THEN obj.mem ELSE Padded(data, cap)
           c == IF obj.capacity >= n THEN obj.capacity ELSE cap
           want == SubSeq(mem, 1, n)
           shrunk == n < obj.readPos
           cut == obj.cut /\ c < n
<1>3. mem \in Seq(BufCells) /\ c <= Len(mem) /\ n <= c /\ c \in Nat
  <2>1. CASE obj.capacity >= n
    BY <1>1, <1>2, <2>1 DEF InMemory
  <2>2. CASE ~(obj.capacity >= n)
    <3>1. mem = Padded(data, cap) /\ c = cap
      BY <2>2
    <3>2. Padded(data, cap) \in Seq(BufCells) /\ Len(Padded(data, cap)) = cap
      BY <1>2, PaddedIs
    <3> HIDE DEF mem, c
    <3>3. QED
      BY <1>2, <3>1, <3>2
  <2>3. QED
    BY <2>1, <2>2
<1>4. o = [obj EXCEPT !.mem = mem, !.size = n, !.capacity = c]
  <2>1. CASE obj.capacity >= n
    BY <1>1, <2>1 DEF BufferState
  <2>2. CASE ~(obj.capacity >= n)
    BY <1>1, <2>2 DEF Renewed, BufferState
  <2>3. QED
    BY <2>1, <2>2
<1> HIDE DEF mem, c, o
<1>5. o \in BufferState
  BY <1>1, <1>3, <1>4 DEF BufferState
<1>6. o.mem = mem /\ o.size = n /\ o.capacity = c /\ o.readPos = obj.readPos
  BY <1>1, <1>4 DEF BufferState
<1>7. (o.cut <=> obj.cut) /\ (o.stray <=> obj.stray)
  BY <1>1, <1>4 DEF BufferState
<1>8. Data(o) = want /\ want \in Seq(BufCells) /\ Len(want) = n /\ SubSeq(want, 1, n) = want
  BY <1>3, <1>6 DEF Data
<1> HIDE DEF want
<1>9. p = [o EXCEPT !.want = want, !.shrunk = shrunk, !.cut = cut]
  BY <1>5, <1>6, <1>7, <1>8 DEF BufferState
<1>10. shrunk \in BOOLEAN /\ cut \in BOOLEAN
  BY <1>1 DEF BufferState
<1> HIDE DEF p, shrunk, cut
<1>11. p \in BufferState
  BY <1>5, <1>8, <1>9, <1>10 DEF BufferState
<1>12. p.mem = mem /\ p.size = n /\ p.want = want /\ p.capacity = c /\ p.readPos = obj.readPos
  BY <1>5, <1>6, <1>9 DEF BufferState
<1>13. (p.stray <=> obj.stray) /\ (p.shrunk <=> shrunk)
  BY <1>5, <1>7, <1>9, <1>10 DEF BufferState
<1>14. Data(p) = want
  BY <1>12 DEF Data, want
<1>15. InMemory(p)
  BY <1>2, <1>3, <1>12, <1>13, <1>14 DEF InMemory, shrunk
<1>16. QED
  BY <1>1, <1>11, <1>13, <1>15 DEF BufferInv

LEMMA BufferClearStep ==
  ASSUME BufferInv(obj), clear
  PROVE  BufferInv(obj')
<1> DEFINE o == Cleared(obj)
           p == [o EXCEPT !.want = <<>>]
<1>1. /\ ~obj.stray /\ obj \in BufferState /\ InMemory(obj) /\ obj' = p
  BY DEF clear, BufferAt, BufferInv
<1>2. <<>> \in Seq(BufCells) /\ Len(<<>>) = 0 /\ SubSeq(<<>>, 1, 0) = <<>>
  OBVIOUS
<1>3. CASE obj.mem = <<>>
  <2>1. obj.size = 0 /\ obj.want = <<>>
    BY <1>1, <1>2, <1>3 DEF InMemory, BufferState, Data
  <2>2. p = obj
    BY <1>1, <1>3, <2>1 DEF Cleared, BufferState
  <2>3. QED
    BY <1>1, <2>2
<1>4. CASE obj.mem # <<>>
  <2>1. p = [obj EXCEPT !.mem = <<>>, !.size = 0, !.capacity = 0, !.readPos = 0, !.shrunk = FALSE,
                        !.cut = FALSE, !.want = <<>>]
    BY <1>1, <1>4 DEF Cleared, BufferState
  <2> HIDE DEF p
  <2>2. p \in BufferState
    BY <1>1, <1>2, <2>1 DEF BufferState
  <2>3. p.mem = <<>> /\ p.size = 0 /\ p.want = <<>> /\ p.capacity = 0 /\ p.readPos = 0
    BY <1>1, <2>1 DEF BufferState
  <2>4. ~p.stray
    BY <1>1, <2>1 DEF BufferState
  <2>5. InMemory(p)
    BY <1>2, <2>3 DEF InMemory, Data
  <2>6. QED
    BY <1>1, <2>2, <2>4, <2>5 DEF BufferInv
<1>5. QED
  BY <1>3, <1>4

LEMMA AllocStep ==
  ASSUME BufferInv(obj), NEW n \in Nat, alloc(n)
  PROVE  BufferInv(obj')
<1> DEFINE cap == CapcityAdj(n)
           fits == obj.capacity >= n
           zeros(k) == [i \in 1..k |-> Unset]
           mem == IF fits THEN zeros(Len(obj.mem)) ELSE Padded(zeros(n), cap)
           size == IF fits THEN obj.size ELSE n
           c == IF fits THEN obj.capacity ELSE cap
           o == IF fits THEN [obj EXCEPT !.mem = zeros(Len(obj.mem))] ELSE Renewed(obj, zeros(n), n, cap)
           cut == obj.cut /\ fits
           want == SubSeq(mem, 1, size)
           p == [o EXCEPT !.want = Data(o), !.readPos = 0, !.shrunk = FALSE, !.cut = @ /\ fits]
<1>1. /\ ~obj.stray /\ obj \in BufferState /\ InMemory(obj) /\ obj' = p
  BY DEF alloc, BufferAt, BufferInv
<1>2. \A k \in Nat : zeros(k) \in Seq(BufCells) /\ Len(zeros(k)) = k
  BY DEF Unset, BufCells
<1> HIDE DEF zeros
<1>3. cap \in Nat /\ n <= cap /\ obj.size \in Nat /\ obj.capacity \in Nat /\ Len(obj.mem) \in Nat
  BY <1>1, AdjIs DEF BufferState
<1> HIDE DEF cap
<1>4. mem \in Seq(BufCells) /\ size \in Nat /\ size <= Len(mem) /\ c \in Nat /\ c <= Len(mem) /\ (~cut => size <= c)
  <2>1. CASE fits
    <3>1. mem = zeros(Len(obj.mem)) /\ size = obj.size /\ c = obj.capacity /\ (cut <=> obj.cut)
      BY <2>1
    <3>2. zeros(Len(obj.mem)) \in Seq(BufCells) /\ Len(zeros(Len(obj.mem))) = Len(obj.mem)
      BY <1>2, <1>3
    <3> HIDE DEF mem, size, c, cut
    <3>3. QED
      BY <1>1, <1>3, <3>1, <3>2 DEF InMemory
  <2>2. CASE ~fits
    <3>1. mem = Padded(zeros(n), cap) /\ size = n /\ c = cap
      BY <2>2
    <3>2. Padded(zeros(n), cap) \in Seq(BufCells) /\ Len(Padded(zeros(n), cap)) = cap
      BY <1>2, <1>3, PaddedIs
    <3> HIDE DEF mem, size, c, cut
    <3>3. QED
      BY <1>3, <3>1, <3>2
  <2>3. QED
    BY <2>1, <2>2
<1>5. o = [obj EXCEPT !.mem = mem, !.size = size, !.capacity = c]
  <2>1. CASE fits
    BY <1>1, <2>1 DEF BufferState
  <2>2. CASE ~fits
    BY <1>1, <2>2 DEF Renewed, BufferState
  <2>3. QED
    BY <2>1, <2>2
<1>6. want \in Seq(BufCells)
  <2> HIDE DEF mem, size
  <2>1. QED
    BY <1>4
<1>7. cut \in BOOLEAN
  BY <1>1 DEF BufferState
<1> HIDE DEF o, mem, size, c
<1>8. Data(o) = want
  <2>1. o.mem = mem /\ o.size = size
    BY <1>1, <1>5 DEF BufferState
  <2>2. QED
    BY <2>1 DEF Data
<1> HIDE DEF want
<1>9. p = [obj EXCEPT !.mem = mem, !.size = size, !.capacity = c, !.want = want, !.readPos = 0,
                      !.shrunk = FALSE, !.cut = cut]
  BY <1>1, <1>5, <1>8 DEF BufferState
<1> HIDE DEF p, cut
<1>10. p \in BufferState
  BY <1>1, <1>4, <1>6, <1>7, <1>9 DEF BufferState
<1>11. p.mem = mem /\ p.size = size /\ p.want = want /\ p.capacity = c /\ p.readPos = 0
  BY <1>1, <1>9 DEF BufferState
<1>12. ~p.stray /\ (p.cut <=> cut)
  BY <1>1, <1>7, <1>9 DEF BufferState
<1>13. InMemory(p)
  BY <1>4, <1>11, <1>12 DEF InMemory, Data, want
<1>14. QED
  BY <1>1, <1>10, <1>12, <1>13 DEF BufferInv

LEMMA SetCapacityStep ==
  ASSUME BufferInv(obj), NEW n \in Nat, setCapacity(n)
  PROVE  BufferInv(obj')
<1>1. ~obj.stray /\ obj \in BufferState /\ InMemory(obj)
  BY DEF setCapacity, BufferAt, BufferInv
<1>2. CASE obj.capacity >= n
  <2> DEFINE cut == n < obj.size
  <2>1. obj' = [obj EXCEPT !.capacity = n, !.cut = cut] /\ cut \in BOOLEAN
    BY <1>2 DEF setCapacity
  <2>2. cut <=> n < obj.size
    OBVIOUS
  <2> HIDE DEF cut
  <2>3. obj' \in BufferState
    BY <1>1, <2>1 DEF BufferState
  <2>4. obj'.mem = obj.mem /\ obj'.size = obj.size /\ obj'.want = obj.want /\ obj'.capacity = n /\ obj'.readPos = obj.readPos
    BY <1>1, <2>1 DEF BufferState
  <2>5. ~obj'.stray /\ (obj'.cut <=> cut) /\ (obj'.shrunk <=> obj.shrunk)
    BY <1>1, <2>1 DEF BufferState
  <2>6. obj.capacity \in Nat /\ obj.size \in Nat /\ Len(obj.mem) \in Nat
    BY <1>1 DEF BufferState
  <2>7. InMemory(obj')
    <3>1. Data(obj') = obj'.want
      BY <1>1, <2>4 DEF InMemory, Data
    <3>2. QED
      BY <1>1, <1>2, <2>2, <2>4, <2>5, <2>6, <3>1 DEF InMemory
  <2>8. QED
    BY <2>3, <2>5, <2>7 DEF BufferInv
<1>3. CASE ~(obj.capacity >= n)
  <2> DEFINE kept == Min2(obj.size, n)
             data == Data(obj)
             bytes == SubSeq(data, 1, kept)
             o == Cleared(obj)
             mem == Padded(bytes, n)
             p == [Renewed(o, bytes, kept, n) EXCEPT !.want = bytes]
  <2>1. obj' = p
    BY <1>3 DEF setCapacity
  <2>2. /\ data \in Seq(BufCells) /\ Len(data) = obj.size /\ obj.size \in Nat /\ Len(obj.mem) \in Nat
        /\ obj.readPos \in Nat
    BY <1>1, DataIs DEF BufferState, InMemory
  <2> HIDE DEF data
  <2>3. kept \in Nat /\ kept <= obj.size /\ kept <= n /\ (obj.size = 0 => kept = 0)
    BY <2>2 DEF Min2
  <2> HIDE DEF kept
  <2>4. bytes \in Seq(BufCells) /\ Len(bytes) = kept /\ SubSeq(bytes, 1, kept) = bytes
    BY <2>2, <2>3
  <2> HIDE DEF bytes
  <2>5. mem \in Seq(BufCells) /\ Len(mem) = n /\ SubSeq(mem, 1, kept) = bytes
    <3>1. kept <= Len(bytes)
      BY <2>3, <2>4
    <3>2. mem \in Seq(BufCells) /\ Len(mem) = n /\ SubSeq(mem, 1, kept) = SubSeq(bytes, 1, kept)
      BY <2>3, <2>4, <3>1, PutThere
    <3>3. QED
      BY <2>4, <3>2
  <2> HIDE DEF mem
  <2>6. /\ o \in BufferState /\ ~o.stray /\ (~o.shrunk => o.readPos <= kept)
    <3>1. CASE obj.mem = <<>>
      <4>1. o = obj /\ Len(obj.mem) = 0
        BY <3>1 DEF Cleared
      <4>2. obj.size = 0 /\ kept = 0
        BY <1>1, <2>2, <2>3, <4>1 DEF InMemory
      <4> HIDE DEF o
      <4>3. QED
        BY <1>1, <4>1, <4>2 DEF InMemory
    <3>2. CASE obj.mem # <<>>
      <4>1. o = [obj EXCEPT !.mem = <<>>, !.size = 0, !.capacity = 0, !.readPos = 0, !.shrunk = FALSE, !.cut = FALSE]
        BY <3>2 DEF Cleared
      <4> HIDE DEF o
      <4>a. <<>> \in Seq(BufCells)
        OBVIOUS
      <4>2. o \in BufferState
        BY <1>1, <4>1, <4>a DEF BufferState
      <4>3. o.readPos = 0
        BY <1>1, <4>1 DEF BufferState
      <4>4. ~o.stray
        BY <1>1, <4>1 DEF BufferState
      <4>5. QED
        BY <2>3, <4>2, <4>3, <4>4
    <3>3. QED
      BY <3>1, <3>2
  <2> HIDE DEF o
  <2>7. p = [o EXCEPT !.mem = mem, !.size = kept, !.capacity = n, !.want = bytes]
    BY <2>6 DEF Renewed, BufferState, mem
  <2> HIDE DEF p
  <2>8. p \in BufferState
    BY <2>3, <2>4, <2>5, <2>6, <2>7 DEF BufferState
  <2>9. p.mem = mem /\ p.size = kept /\ p.want = bytes /\ p.capacity = n /\ p.readPos = o.readPos
    BY <2>6, <2>7 DEF BufferState
  <2>10. ~p.stray /\ (p.shrunk <=> o.shrunk)
    BY <2>6, <2>7 DEF BufferState
  <2>11. InMemory(p)
    BY <2>3, <2>5, <2>6, <2>9, <2>10 DEF InMemory, Data
  <2>12. QED
    BY <2>1, <2>8, <2>10, <2>11 DEF BufferInv
<1>4. QED
  BY <1>2, <1>3

LEMMA ReverseStep ==
  ASSUME BufferInv(obj), bufferReverse
  PROVE  BufferInv(obj')
<1> DEFINE data == Data(obj)
           want == Reverse(data)
           mem == Over(obj.mem, 0, want)
<1>1. ~obj.stray /\ obj \in BufferState /\ InMemory(obj)
  BY DEF bufferReverse, BufferAt, BufferInv
<1>2. obj' = [obj EXCEPT !.mem = mem, !.want = want, !.readPos = 0, !.shrunk = FALSE]
  BY <1>1 DEF bufferReverse, BufferState, InMemory
<1>3. /\ data \in Seq(BufCells) /\ Len(data) = obj.size /\ obj.size \in Nat /\ obj.mem \in Seq(BufCells)
      /\ obj.size <= Len(obj.mem)
  BY <1>1, DataIs DEF BufferState, InMemory
<1> HIDE DEF data
<1>4. want \in Seq(BufCells) /\ Len(want) = obj.size
  <2>1. want = [i \in 1..obj.size |-> data[(obj.size - i) + 1]]
    BY <1>3 DEF Reverse
  <2>2. \A i \in 1..obj.size : data[(obj.size - i) + 1] \in BufCells
    BY <1>3
  <2> HIDE DEF want
  <2>3. want \in [1..obj.size -> BufCells]
    BY <2>1, <2>2
  <2>4. QED
    BY <1>3, <2>3
<1> HIDE DEF want
<1>5. mem \in Seq(BufCells) /\ Len(mem) = Len(obj.mem) /\ SubSeq(mem, 1, obj.size) = want
  <2> DEFINE old == obj.mem
  <2>1. old \in Seq(BufCells) /\ 0 \in Nat
    BY <1>3
  <2> HIDE DEF old
  <2>2. /\ Over(old, 0, want) \in Seq(BufCells) /\ Len(Over(old, 0, want)) = Len(old)
        /\ \A i \in 1..Len(old) : Over(old, 0, want)[i] = IF i - 0 \in 1..Len(want) THEN want[i - 0] ELSE old[i]
    BY <1>4, <2>1, OverIs
  <2>3. mem = Over(old, 0, want)
    BY DEF old
  <2> HIDE DEF mem
  <2>4. \A i \in 1..Len(want) : mem[i] = want[i]
    BY <1>3, <1>4, <2>2, <2>3 DEF old
  <2>5. mem \in Seq(BufCells) /\ Len(mem) = Len(obj.mem) /\ Len(want) <= Len(mem)
    BY <1>3, <1>4, <2>2, <2>3 DEF old
  <2>6. SubSeq(mem, 1, Len(want)) = want
    BY <1>4, <2>4, <2>5, FirstBytes
  <2>7. QED
    BY <1>4, <2>5, <2>6
<1> HIDE DEF mem
<1>6. obj' \in BufferState
  BY <1>1, <1>2, <1>4, <1>5 DEF BufferState
<1>7. obj'.mem = mem /\ obj'.size = obj.size /\ obj'.want = want /\ obj'.capacity = obj.capacity /\ obj'.readPos = 0
  BY <1>1, <1>2 DEF BufferState
<1>8. ~obj'.stray /\ (obj'.cut <=> obj.cut)
  BY <1>1, <1>2 DEF BufferState
<1>9. InMemory(obj')
  <2>1. Data(obj') = want
    BY <1>5, <1>7 DEF Data
  <2>2. QED
    BY <1>1, <1>3, <1>5, <1>7, <1>8, <2>1 DEF InMemory
<1>10. QED
  BY <1>6, <1>8, <1>9 DEF BufferInv

LEMMA BufferReadStep ==
  ASSUME BufferInv(obj), NEW n \in Nat, bufferRead(n)
  PROVE  BufferInv(obj')
<1> DEFINE k == Min2(n, Available(obj))
           pos == obj.readPos + k
           stray == pos > Len(obj.mem)
<1>1. ~obj.stray /\ obj \in BufferState /\ InMemory(obj) /\ Available(obj) > 0
  BY DEF bufferRead, BufferAt, BufferInv
<1>2. obj' = [obj EXCEPT !.readPos = pos, !.stray = stray]
  BY <1>1 DEF bufferRead, BufferState
<1>3. obj.size \in Nat /\ obj.readPos \in Nat /\ Len(obj.mem) \in Nat /\ obj.size <= Len(obj.mem)
  BY <1>1 DEF BufferState, InMemory
<1>4. pos \in Nat /\ (obj.readPos <= obj.size => pos <= obj.size)
  BY <1>1, <1>3 DEF Available, Minus, Min2, Huge
<1>5. stray \in BOOLEAN /\ (obj.readPos <= obj.size => ~stray)
  BY <1>3, <1>4
<1> HIDE DEF pos, stray
<1>6. obj' \in BufferState
  BY <1>1, <1>2, <1>4, <1>5 DEF BufferState
<1>7. obj'.mem = obj.mem /\ obj'.size = obj.size /\ obj'.want = obj.want /\ obj'.capacity = obj.capacity /\ obj'.readPos = pos
  BY <1>1, <1>2 DEF BufferState
<1>8. (obj'.stray <=> stray) /\ (obj'.cut <=> obj.cut) /\ (obj'.shrunk <=> obj.shrunk)
  BY <1>1, <1>2, <1>5 DEF BufferState
<1>9. InMemory(obj')
  <2>1. Data(obj') = obj'.want
    BY <1>1, <1>7 DEF InMemory, Data
  <2>2. QED
    BY <1>1, <1>4, <1>7, <1>8, <2>1 DEF InMemory
<1>10. QED
  BY <1>1, <1>5, <1>6, <1>8, <1>9 DEF BufferInv, InMemory

LEMMA BufferStep ==
  ASSUME BufferInv(obj), BufferNext
  PROVE  BufferInv(obj')
<1>1. MaxBytes \in Nat
  BY BuffersAssumption
<1>2. \A b \in BufBytes : <<b>> \in Seq(BufCells) /\ <<b, 3 - b>> \in Seq(BufCells)
  BY DEF BufBytes, BufCells
<1>3. CASE \E b \in BufBytes : append(<<b>>) \/ append(<<b, 3 - b>>)
  BY <1>2, <1>3, AppendStep
<1>4. CASE \E n \in 0..2 : setDataRest(n) \/ resize(n) \/ setCapacity(n)
  BY <1>4, SetDataStep, ResizeStep, SetCapacityStep
<1>5. CASE \E n \in 1..2 : bufferRead(n)
  BY <1>5, BufferReadStep
<1>6. QED
  BY <1>1, <1>3, <1>4, <1>5, AppendSelfStep, SetDataStep, ResizeStep, SetCapacityStep, BufferClearStep,
     AllocStep, ReverseStep DEF BufferNext

-----------------------------------------------------------------------------
(* Lists.  A pointer is in one place of one list, to an element that is;    *)
(* what an assignment has left behind is in none.                           *)
ElementIds == 1..MaxObjects
ListState ==
  [heap : SUBSET ElementIds, val : [ElementIds -> Nat], at : [ListIds -> Seq(ElementIds)],
   lost : SUBSET ElementIds, want : [ListIds -> Seq(Nat)], self : BOOLEAN]
Apart(o) ==
  /\ \A l, m \in ListIds : \A i \in 1..Len(o.at[l]), j \in 1..Len(o.at[m]) :
       o.at[l][i] = o.at[m][j] => l = m /\ i = j
  /\ \A l \in ListIds : \A i \in 1..Len(o.at[l]) : o.at[l][i] \in o.heap /\ o.at[l][i] \notin o.lost
  /\ o.lost \subseteq o.heap
  /\ \A e \in o.heap : e \in o.lost \/ \E l \in ListIds : \E i \in 1..Len(o.at[l]) : o.at[l][i] = e
AsWanted(o) ==
  \A l \in ListIds :
    Len(o.want[l]) = Len(o.at[l]) /\ \A i \in 1..Len(o.at[l]) : o.val[o.at[l][i]] = o.want[l][i]
ListInv(o) == o \in ListState /\ Apart(o) /\ (~o.self => AsWanted(o))

LEMMA ListHeld == ListInv(obj) => ElementsOwned
<1> SUFFICES ASSUME ListInv(obj) PROVE ElementsOwned
  OBVIOUS
<1>1. obj \in ListState /\ Apart(obj)
  BY DEF ListInv
<1>2. \A l \in ListIds : obj.at[l] \in Seq(ElementIds) /\ DOMAIN obj.at[l] = 1..Len(obj.at[l])
  BY <1>1 DEF ListState
<1>3. 1 \in ListIds /\ 2 \in ListIds /\ \A l \in ListIds : l = 1 \/ l = 2
  BY DEF ListIds
<1>4. \A l \in ListIds : \A e : e \in Range(obj.at[l]) <=> \E i \in 1..Len(obj.at[l]) : obj.at[l][i] = e
  BY <1>2 DEF Range
<1>5. obj.heap = Range(obj.at[1]) \union Range(obj.at[2]) \union obj.lost
  <2>1. ASSUME NEW e \in obj.heap PROVE e \in Range(obj.at[1]) \union Range(obj.at[2]) \union obj.lost
    BY <1>1, <1>3, <1>4 DEF Apart
  <2>2. ASSUME NEW e \in Range(obj.at[1]) \union Range(obj.at[2]) \union obj.lost PROVE e \in obj.heap
    <3>1. ASSUME NEW l \in ListIds, e \in Range(obj.at[l]) PROVE e \in obj.heap
      <4>1. PICK i \in 1..Len(obj.at[l]) : obj.at[l][i] = e
        BY <1>4, <3>1
      <4>2. QED
        BY <1>1, <4>1 DEF Apart
    <3>2. obj.lost \subseteq obj.heap
      BY <1>1 DEF Apart
    <3>3. QED
      BY <1>3, <2>2, <3>1, <3>2
  <2>3. QED
    BY <2>1, <2>2
<1>6. \A l \in ListIds : IsInjective(obj.at[l])
  BY <1>1, <1>2 DEF Apart, IsInjective
<1>7. Range(obj.at[1]) \intersect Range(obj.at[2]) = {}
  <2>1. ASSUME NEW e \in Range(obj.at[1]), e \in Range(obj.at[2]) PROVE FALSE
    <3>1. PICK i \in 1..Len(obj.at[1]) : obj.at[1][i] = e
      BY <1>3, <1>4
    <3>2. PICK j \in 1..Len(obj.at[2]) : obj.at[2][j] = e
      BY <1>3, <1>4, <2>1
    <3>3. 1 = 2
      BY <1>1, <1>3, <3>1, <3>2 DEF Apart
    <3>4. QED
      BY <3>3
  <2>2. QED
    BY <2>1
<1>8. obj.lost \intersect (Range(obj.at[1]) \union Range(obj.at[2])) = {}
  <2>1. ASSUME NEW l \in ListIds, NEW e \in Range(obj.at[l]), e \in obj.lost PROVE FALSE
    <3>1. PICK i \in 1..Len(obj.at[l]) : obj.at[l][i] = e
      BY <1>4, <2>1
    <3>2. QED
      BY <1>1, <2>1, <3>1 DEF Apart
  <2>2. QED
    BY <1>3, <2>1
<1>9. ASSUME ~obj.self, NEW l \in ListIds PROVE Vals(l) = obj.want[l]
  <2>1. Len(obj.want[l]) = Len(obj.at[l]) /\ \A i \in 1..Len(obj.at[l]) : obj.val[obj.at[l][i]] = obj.want[l][i]
    BY <1>9 DEF ListInv, AsWanted
  <2>2. obj.want[l] \in Seq(Nat)
    BY <1>1 DEF ListState
  <2> DEFINE want == obj.want[l]
             at == obj.at[l]
  <2>3. Vals(l) = [i \in 1..Len(at) |-> obj.val[at[i]]]
    BY <1>2 DEF Vals
  <2>4. [i \in 1..Len(at) |-> obj.val[at[i]]] = [i \in 1..Len(want) |-> want[i]]
    BY <2>1
  <2>5. [i \in 1..Len(want) |-> want[i]] = want
    <3>1. want \in Seq(Nat)
      BY <2>2
    <3> HIDE DEF want
    <3>2. want \in [1..Len(want) -> Nat]
      BY <3>1
    <3>3. QED
      BY <3>2
  <2>6. QED
    BY <2>3, <2>4, <2>5
<1>10. QED
  BY <1>5, <1>6, <1>7, <1>8, <1>9 DEF ElementsOwned

LEMMA ListInvInit == PtrListInit => ListInv(obj)
<1> SUFFICES ASSUME PtrListInit PROVE ListInv(obj)
  OBVIOUS
<1> DEFINE val == [i \in 1..MaxObjects |-> 0]
           none == [l \in ListIds |-> <<>>]
<1>1. obj = [heap |-> {}, val |-> val, at |-> none, lost |-> {}, want |-> none, self |-> FALSE]
  BY DEF PtrListInit
<1>2. val \in [ElementIds -> Nat]
  BY DEF ElementIds
<1>3. none \in [ListIds -> Seq(ElementIds)] /\ none \in [ListIds -> Seq(Nat)] /\ \A l \in ListIds : Len(none[l]) = 0
  OBVIOUS
<1> HIDE DEF val, none
<1>4. obj \in ListState
  BY <1>1, <1>2, <1>3 DEF ListState
<1>5. obj.heap = {} /\ obj.at = none /\ obj.want = none /\ obj.lost = {}
  BY <1>1
<1>6. Apart(obj) /\ AsWanted(obj)
  BY <1>3, <1>5 DEF Apart, AsWanted
<1>7. QED
  BY <1>4, <1>6 DEF ListInv

\* There is room: an element that is not, and as many as are asked for.
LEMMA FreeOnes ==
  ASSUME NEW o \in ListState, NEW n \in Nat, Cardinality(o.heap) + n <= MaxObjects
  PROVE  NewOnes(o, n) \in [1..n -> ElementIds \ o.heap] /\ IsInjective(NewOnes(o, n))
<1>1. MaxObjects \in Nat
  BY BuffersAssumption
<1>2. IsFiniteSet(ElementIds) /\ Cardinality(ElementIds) = MaxObjects
  BY <1>1, FS_Interval DEF ElementIds
<1>3. o.heap \subseteq ElementIds
  BY DEF ListState
<1> DEFINE free == ElementIds \ o.heap
<1>4. IsFiniteSet(o.heap) /\ Cardinality(o.heap) \in Nat
  BY <1>2, <1>3, FS_Subset, FS_CardinalityType
<1>5. IsFiniteSet(free) /\ Cardinality(free) = MaxObjects - Cardinality(o.heap)
  <2>1. o.heap \intersect ElementIds = o.heap
    BY <1>3
  <2>2. Cardinality(free) = Cardinality(ElementIds) - Cardinality(ElementIds \intersect o.heap) /\ IsFiniteSet(free)
    BY <1>2, FS_Difference
  <2>3. ElementIds \intersect o.heap = o.heap
    BY <1>3
  <2>4. QED
    BY <1>2, <2>2, <2>3
<1>6. Cardinality(free) \in Nat /\ n <= Cardinality(free)
  BY <1>1, <1>4, <1>5
<1>7. PICK g \in Bijection(1..Cardinality(free), free) : TRUE
  BY <1>5, FS_CardinalityType DEF ExistsBijection
<1>8. g \in [1..Cardinality(free) -> free] /\ IsInjective(g)
  BY <1>7 DEF Bijection, Injection, IsInjective
<1> DEFINE new == [i \in 1..n |-> g[i]]
<1> HIDE DEF free
<1>9. new \in [1..n -> free] /\ \A i \in 1..n : i \in 1..Cardinality(free) /\ new[i] = g[i]
  BY <1>6, <1>8
<1> HIDE DEF new
<1>10. IsInjective(new)
  BY <1>8, <1>9 DEF IsInjective
<1>11. Free(o) = free
  BY DEF Free, free, ElementIds
<1>12. QED
  BY <1>9, <1>10, <1>11 DEF NewOnes, free
LEMMA FreeOne ==
  ASSUME NEW o \in ListState, Cardinality(o.heap) + 1 <= MaxObjects
  PROVE  New(o) \in ElementIds \ o.heap
<1>1. NewOnes(o, 1) \in [1..1 -> ElementIds \ o.heap]
  BY FreeOnes
<1>2. NewOnes(o, 1)[1] \in Free(o) /\ Free(o) = ElementIds \ o.heap
  BY <1>1 DEF Free, ElementIds
<1>3. QED
  BY <1>2 DEF New

-----------------------------------------------------------------------------
\* One list changes: its pointers were its own, or are new.
Relists(o, p, l) ==
  /\ \A m \in ListIds \ {l} : p.at[m] = o.at[m]
  /\ \A i, j \in 1..Len(p.at[l]) : p.at[l][i] = p.at[l][j] => i = j
  /\ \A i \in 1..Len(p.at[l]) :
       /\ p.at[l][i] \in p.heap /\ p.at[l][i] \notin p.lost
       /\ p.at[l][i] \in o.heap => \E j \in 1..Len(o.at[l]) : o.at[l][j] = p.at[l][i]
  /\ \A m \in ListIds \ {l} : \A i \in 1..Len(o.at[m]) : o.at[m][i] \in p.heap /\ o.at[m][i] \notin p.lost
  /\ p.lost \subseteq p.heap
  /\ \A e \in p.heap : \/ e \in p.lost \/ \E i \in 1..Len(p.at[l]) : p.at[l][i] = e
                       \/ \E m \in ListIds \ {l} : \E i \in 1..Len(o.at[m]) : o.at[m][i] = e
LEMMA Relisted ==
  ASSUME NEW o, Apart(o), NEW p, NEW l \in ListIds, Relists(o, p, l)
  PROVE  Apart(p)
<1>1. ASSUME NEW m \in ListIds \ {l}, NEW i \in 1..Len(p.at[l]), NEW j \in 1..Len(p.at[m])
      PROVE  p.at[l][i] # p.at[m][j]
  <2>1. p.at[m] = o.at[m] /\ o.at[m][j] \in o.heap
    BY DEF Apart, Relists
  <2>2. p.at[l][i] \in o.heap => \E k \in 1..Len(o.at[l]) : o.at[l][k] = p.at[l][i]
    BY DEF Relists
  <2>3. \A k \in 1..Len(o.at[l]) : o.at[l][k] # o.at[m][j]
    BY <2>1 DEF Apart
  <2>4. QED
    BY <2>1, <2>2, <2>3
<1>2. ASSUME NEW k \in ListIds, NEW m \in ListIds, NEW i \in 1..Len(p.at[k]), NEW j \in 1..Len(p.at[m]),
             p.at[k][i] = p.at[m][j]
      PROVE  k = m /\ i = j
  <2>1. CASE k = l /\ m = l
    BY <1>2, <2>1 DEF Relists
  <2>2. CASE k = l /\ m # l
    BY <1>1, <1>2, <2>2
  <2>3. CASE k # l /\ m = l
    BY <1>1, <1>2, <2>3
  <2>4. CASE k # l /\ m # l
    BY <1>2, <2>4 DEF Apart, Relists
  <2>5. QED
    BY <2>1, <2>2, <2>3, <2>4
<1>3. \A m \in ListIds : \A i \in 1..Len(p.at[m]) : p.at[m][i] \in p.heap /\ p.at[m][i] \notin p.lost
  BY DEF Relists
<1>4. \A e \in p.heap : e \in p.lost \/ \E m \in ListIds : \E i \in 1..Len(p.at[m]) : p.at[m][i] = e
  <2>1. ASSUME NEW e \in p.heap, e \notin p.lost PROVE \E m \in ListIds : \E i \in 1..Len(p.at[m]) : p.at[m][i] = e
    <3>1. CASE \E i \in 1..Len(p.at[l]) : p.at[l][i] = e
      BY <3>1
    <3>2. CASE \E m \in ListIds \ {l} : \E i \in 1..Len(o.at[m]) : o.at[m][i] = e
      BY <3>2 DEF Relists
    <3>3. QED
      BY <2>1, <3>1, <3>2 DEF Relists
  <2>2. QED
    BY <2>1
<1>5. QED
  BY <1>2, <1>3, <1>4 DEF Apart, Relists

\* A sequence with one more element, and with one less.
LEMMA InsertIs ==
  ASSUME NEW Codom, NEW s \in Seq(Codom), NEW e \in Codom, NEW k \in 1..Len(s) + 1
  PROVE  /\ InsertAt(s, k, e) \in Seq(Codom) /\ Len(InsertAt(s, k, e)) = Len(s) + 1
         /\ InsertAt(s, k, e)[k] = e
         /\ \A j \in 1..Len(s) : j < k => InsertAt(s, k, e)[j] = s[j]
         /\ \A j \in 1..Len(s) : j >= k => InsertAt(s, k, e)[j + 1] = s[j]
<1> DEFINE fst == SubSeq(s, 1, k - 1)
           snd == <<e>>
           c == SubSeq(s, k, Len(s))
<1>1. fst \in Seq(Codom) /\ Len(fst) = k - 1 /\ \A j \in 1..k - 1 : fst[j] = s[j]
  OBVIOUS
<1>2. snd \in Seq(Codom) /\ Len(snd) = 1 /\ snd[1] = e
  OBVIOUS
<1>3. c \in Seq(Codom) /\ Len(c) = Len(s) - k + 1 /\ \A j \in 1..Len(s) - k + 1 : c[j] = s[k + j - 1]
  OBVIOUS
<1>4. InsertAt(s, k, e) = (fst \o snd) \o c
  BY DEF InsertAt
<1> DEFINE t == (fst \o snd) \o c
<1> HIDE DEF fst, snd, c
<1>5. /\ fst \o snd \in Seq(Codom) /\ Len(fst \o snd) = k
      /\ \A j \in 1..k : (fst \o snd)[j] = IF j <= k - 1 THEN fst[j] ELSE snd[j - (k - 1)]
  <2>1. /\ fst \o snd \in Seq(Codom) /\ Len(fst \o snd) = Len(fst) + Len(snd)
        /\ \A j \in 1..Len(fst) + Len(snd) : (fst \o snd)[j] = IF j <= Len(fst) THEN fst[j] ELSE snd[j - Len(fst)]
    BY <1>1, <1>2, ConcatProperties
  <2>2. Len(fst) = k - 1 /\ Len(fst) + Len(snd) = k
    BY <1>1, <1>2
  <2>3. QED
    BY <2>1, <2>2
<1>6. /\ t \in Seq(Codom) /\ Len(t) = Len(s) + 1
      /\ \A j \in 1..Len(s) + 1 : t[j] = IF j <= k THEN (fst \o snd)[j] ELSE c[j - k]
  <2> DEFINE d == fst \o snd
  <2> HIDE DEF d
  <2>1. d \in Seq(Codom) /\ Len(d) = k
    BY <1>5 DEF d
  <2>2. /\ d \o c \in Seq(Codom) /\ Len(d \o c) = Len(s) + 1
        /\ \A j \in 1..Len(s) + 1 : (d \o c)[j] = IF j <= k THEN d[j] ELSE c[j - k]
    BY <1>3, <2>1, ConcatProperties
  <2>3. QED
    BY <2>2 DEF d, t
<1> HIDE DEF t
<1>7. t[k] = e
  BY <1>2, <1>5, <1>6
<1>8. ASSUME NEW j \in 1..Len(s), j < k PROVE t[j] = s[j]
  BY <1>1, <1>5, <1>6, <1>8
<1>9. ASSUME NEW j \in 1..Len(s), j >= k PROVE t[j + 1] = s[j]
  <2>1. t[j + 1] = c[j + 1 - k] /\ j + 1 - k \in 1..Len(s) - k + 1
    BY <1>6, <1>9
  <2>2. c[j + 1 - k] = s[k + (j + 1 - k) - 1]
    BY <1>3, <2>1
  <2>3. QED
    BY <2>1, <2>2
<1>10. QED
  BY <1>4, <1>6, <1>7, <1>8, <1>9 DEF t

LEMMA RemoveIs ==
  ASSUME NEW Codom, NEW s \in Seq(Codom), NEW k \in 1..Len(s)
  PROVE  /\ RemoveAt(s, k) \in Seq(Codom) /\ Len(RemoveAt(s, k)) = Len(s) - 1
         /\ \A j \in 1..Len(s) : j < k => RemoveAt(s, k)[j] = s[j]
         /\ \A j \in 1..Len(s) - 1 : j >= k => RemoveAt(s, k)[j] = s[j + 1]
<1> DEFINE fst == SubSeq(s, 1, k - 1)
           c == SubSeq(s, k + 1, Len(s))
<1>1. fst \in Seq(Codom) /\ Len(fst) = k - 1 /\ \A j \in 1..k - 1 : fst[j] = s[j]
  OBVIOUS
<1>2. c \in Seq(Codom) /\ Len(c) = Len(s) - k /\ \A j \in 1..Len(s) - k : c[j] = s[k + j]
  OBVIOUS
<1>3. RemoveAt(s, k) = fst \o c
  BY DEF RemoveAt
<1> HIDE DEF fst, c
<1>4. /\ fst \o c \in Seq(Codom) /\ Len(fst \o c) = Len(s) - 1
      /\ \A j \in 1..Len(s) - 1 : (fst \o c)[j] = IF j <= k - 1 THEN fst[j] ELSE c[j - (k - 1)]
  BY <1>1, <1>2, ConcatProperties
<1>5. ASSUME NEW j \in 1..Len(s), j < k PROVE (fst \o c)[j] = s[j]
  BY <1>1, <1>4, <1>5
<1>6. ASSUME NEW j \in 1..Len(s) - 1, j >= k PROVE (fst \o c)[j] = s[j + 1]
  <2>1. (fst \o c)[j] = c[j - (k - 1)] /\ j - (k - 1) \in 1..Len(s) - k
    BY <1>4, <1>6
  <2>2. c[j - (k - 1)] = s[k + (j - (k - 1))]
    BY <1>2, <2>1
  <2>3. QED
    BY <2>1, <2>2
<1>7. QED
  BY <1>3, <1>4, <1>5, <1>6

LEMMA HoldersAre ==
  ASSUME NEW val \in [ElementIds -> Nat], NEW s \in Seq(ElementIds), NEW vals \in Seq(Nat),
         Len(vals) = Len(s), \A i, j \in 1..Len(s) : s[i] = s[j] => i = j
  PROVE  /\ Holders(val, s, vals) \in [ElementIds -> Nat]
         /\ \A i \in 1..Len(s) : Holders(val, s, vals)[s[i]] = vals[i]
         /\ \A e \in ElementIds : (\A i \in 1..Len(s) : s[i] # e) => Holders(val, s, vals)[e] = val[e]
<1> DEFINE h == Holders(val, s, vals)
<1>0. DOMAIN s = 1..Len(s)
  OBVIOUS
<1>1. DOMAIN s = 1..Len(s) /\ \A e : e \in Range(s) <=> \E i \in 1..Len(s) : s[i] = e
  BY <1>0 DEF Range
<1>2. ASSUME NEW e \in Range(s)
      PROVE  /\ (CHOOSE i \in DOMAIN s : s[i] = e) \in 1..Len(s)
             /\ s[CHOOSE i \in DOMAIN s : s[i] = e] = e
  BY <1>1
<1>3. h = [e \in ElementIds |-> IF e \in Range(s) THEN vals[CHOOSE i \in DOMAIN s : s[i] = e] ELSE val[e]]
  BY DEF Holders
<1>4. \A e \in ElementIds : (IF e \in Range(s) THEN vals[CHOOSE i \in DOMAIN s : s[i] = e] ELSE val[e]) \in Nat
  BY <1>2
<1> HIDE DEF h
<1>5. h \in [ElementIds -> Nat]
  BY <1>3, <1>4
<1>6. ASSUME NEW i \in 1..Len(s) PROVE h[s[i]] = vals[i]
  <2>1. s[i] \in ElementIds /\ s[i] \in Range(s)
    BY <1>1
  <2>2. (CHOOSE j \in DOMAIN s : s[j] = s[i]) = i
    BY <1>2, <2>1
  <2>3. QED
    BY <1>3, <2>1, <2>2
<1>7. ASSUME NEW e \in ElementIds, \A i \in 1..Len(s) : s[i] # e PROVE h[e] = val[e]
  BY <1>1, <1>3, <1>7
<1>8. QED
  BY <1>5, <1>6, <1>7 DEF h

-----------------------------------------------------------------------------
LEMMA Joined ==
  ASSUME NEW Codom, NEW s \in Seq(Codom), NEW t \in Seq(Codom)
  PROVE  /\ s \o t \in Seq(Codom) /\ Len(s \o t) = Len(s) + Len(t)
         /\ \A i \in 1..Len(s) + Len(t) : (s \o t)[i] = IF i <= Len(s) THEN s[i] ELSE t[i - Len(s)]
  BY ConcatProperties

\* Copies are put at the end of a list.
LEMMA PushedKeeps ==
  ASSUME NEW o \in ListState, Apart(o), NEW l \in ListIds, NEW vals \in Seq(Nat), NEW want \in Seq(Nat),
         Cardinality(o.heap) + Len(vals) <= MaxObjects,
         ~o.self => /\ \A m \in ListIds \ {l} :
                         Len(o.want[m]) = Len(o.at[m]) /\ \A i \in 1..Len(o.at[m]) : o.val[o.at[m][i]] = o.want[m][i]
                    /\ Len(want) = Len(o.at[l]) + Len(vals)
                    /\ \A i \in 1..Len(o.at[l]) : o.val[o.at[l][i]] = want[i]
                    /\ \A i \in 1..Len(vals) : want[Len(o.at[l]) + i] = vals[i],
         NEW p, p = [Pushed(o, l, vals) EXCEPT !.want[l] = want]
  PROVE  ListInv(p)
<1> DEFINE n == Len(vals)
           new == NewOnes(o, n)
           val == Holders(o.val, new, vals)
           at == o.at[l] \o new
           len == Len(o.at[l])
<1>1. n \in Nat /\ o.at[l] \in Seq(ElementIds) /\ len \in Nat
  BY DEF ListState
<1>2. new \in [1..n -> ElementIds \ o.heap] /\ \A i, j \in 1..n : new[i] = new[j] => i = j
  BY <1>1, FreeOnes DEF IsInjective
<1>0. n = Len(vals) /\ len = Len(o.at[l]) /\ new = NewOnes(o, n)
  OBVIOUS
<1> HIDE DEF new, n, len
<1>3. new \in Seq(ElementIds) /\ Len(new) = n /\ DOMAIN new = 1..n
  <2>1. new \in [1..n -> ElementIds]
    BY <1>2
  <2>2. QED
    BY <1>1, <2>1
<1>4. /\ val \in [ElementIds -> Nat]
      /\ \A i \in 1..n : val[new[i]] = vals[i]
      /\ \A e \in o.heap : val[e] = o.val[e]
  <2> DEFINE oval == o.val
  <2>1. oval \in [ElementIds -> Nat] /\ o.heap \subseteq ElementIds
    BY DEF ListState
  <2>2. \A i, j \in 1..Len(new) : new[i] = new[j] => i = j
    BY <1>2, <1>3
  <2>3. Len(vals) = Len(new)
    BY <1>0, <1>3
  <2> HIDE DEF oval
  <2>4. /\ Holders(oval, new, vals) \in [ElementIds -> Nat]
        /\ \A i \in 1..Len(new) : Holders(oval, new, vals)[new[i]] = vals[i]
        /\ \A e \in ElementIds : (\A i \in 1..Len(new) : new[i] # e) => Holders(oval, new, vals)[e] = oval[e]
    BY <1>3, <2>1, <2>2, <2>3, HoldersAre
  <2>5. QED
    BY <1>2, <1>3, <2>1, <2>4 DEF oval
<1>5. /\ at \in Seq(ElementIds) /\ Len(at) = len + n
      /\ \A i \in 1..len + n : at[i] = IF i <= len THEN o.at[l][i] ELSE new[i - len]
  <2> DEFINE s == o.at[l]
  <2>1. s \in Seq(ElementIds)
    BY <1>1
  <2> HIDE DEF s
  <2>2. /\ s \o new \in Seq(ElementIds) /\ Len(s \o new) = Len(s) + Len(new)
        /\ \A i \in 1..Len(s) + Len(new) : (s \o new)[i] = IF i <= Len(s) THEN s[i] ELSE new[i - Len(s)]
    BY ONLY <1>3, <2>1, Joined
  <2>3. Len(s) = len
    BY <1>0 DEF s
  <2>4. QED
    BY <1>3, <2>2, <2>3 DEF s
<1> DEFINE heap == o.heap \union Range(new)
<1>6. heap \subseteq ElementIds /\ \A e : e \in heap <=> e \in o.heap \/ \E i \in 1..n : new[i] = e
  BY <1>2, <1>3 DEF Range, ListState
<1>7. p = [o EXCEPT !.heap = heap, !.val = val, !.at[l] = at, !.want[l] = want]
  BY <1>0 DEF Pushed, ListState
<1> HIDE DEF heap, val, at
<1>8. p \in ListState
  <2>1. [o.at EXCEPT ![l] = at] \in [ListIds -> Seq(ElementIds)]
    BY <1>5 DEF ListState
  <2>2. [o.want EXCEPT ![l] = want] \in [ListIds -> Seq(Nat)]
    BY DEF ListState
  <2> DEFINE ats == [o.at EXCEPT ![l] = at]
             wants == [o.want EXCEPT ![l] = want]
  <2>3. p = [o EXCEPT !.heap = heap, !.val = val, !.at = ats, !.want = wants]
    BY <1>7 DEF ListState
  <2> HIDE DEF ats, wants
  <2>4. ats \in [ListIds -> Seq(ElementIds)] /\ wants \in [ListIds -> Seq(Nat)]
    BY <2>1, <2>2 DEF ats, wants
  <2>5. heap \in SUBSET ElementIds
    BY <1>6
  <2>6. QED
    BY <1>4, <2>3, <2>4, <2>5 DEF ListState
<1>9. /\ p.heap = heap /\ p.val = val /\ p.at = [o.at EXCEPT ![l] = at] /\ p.want = [o.want EXCEPT ![l] = want]
      /\ p.lost = o.lost
  BY <1>7 DEF ListState
<1>10. p.self <=> o.self
  BY <1>7 DEF ListState
<1>11. /\ p.at[l] = at /\ p.want[l] = want
       /\ \A m \in ListIds \ {l} : p.at[m] = o.at[m] /\ p.want[m] = o.want[m]
  BY <1>9 DEF ListState
<1>fst. \A m \in ListIds : \A i \in 1..Len(o.at[m]) : o.at[m][i] \in o.heap /\ o.at[m][i] \notin o.lost
  BY DEF Apart
<1>snd. o.lost \subseteq o.heap
  BY DEF Apart
<1>c. Apart(o) /\ l \in ListIds
  OBVIOUS
<1>12. \A i \in 1..Len(at) :
         \/ i \in 1..len /\ at[i] = o.at[l][i] /\ at[i] \in o.heap /\ at[i] \notin o.lost
         \/ (i - len \in 1..n /\ at[i] = new[i - len] /\ at[i] \notin o.heap)
  <2>1. ASSUME NEW i \in 1..Len(at), i <= len
        PROVE  i \in 1..len /\ at[i] = o.at[l][i] /\ at[i] \in o.heap /\ at[i] \notin o.lost
    <3>1. i \in 1..len /\ at[i] = o.at[l][i]
      BY <1>1, <1>5, <2>1
    <3>2. QED
      BY <1>0, <1>fst, <3>1
  <2>2. ASSUME NEW i \in 1..Len(at), ~(i <= len)
        PROVE  i - len \in 1..n /\ at[i] = new[i - len] /\ at[i] \notin o.heap
    <3>1. i \in 1..len + n /\ i - len \in 1..n
      BY <1>1, <1>5, <2>2
    <3>2. QED
      BY <1>2, <1>5, <2>2, <3>1
  <2>3. QED
    BY <2>1, <2>2
<1>13. \A i, j \in 1..Len(at) : at[i] = at[j] => i = j
  <2>1. ASSUME NEW i \in 1..Len(at), NEW j \in 1..Len(at), at[i] = at[j] PROVE i = j
    <3>1. CASE i \in 1..len /\ at[i] = o.at[l][i] /\ at[i] \in o.heap
      <4>1. j \in 1..len /\ at[j] = o.at[l][j]
        BY <1>12, <2>1, <3>1
      <4>2. QED
        <5>1. i \in 1..Len(o.at[l]) /\ j \in 1..Len(o.at[l]) /\ o.at[l][i] = o.at[l][j]
          BY <1>0, <2>1, <3>1, <4>1
        <5>2. QED
          BY <5>1 DEF Apart
    <3>2. CASE i - len \in 1..n /\ at[i] = new[i - len] /\ at[i] \notin o.heap
      <4>1. j - len \in 1..n /\ at[j] = new[j - len]
        BY <1>12, <2>1, <3>2
      <4>2. i - len = j - len
        BY <1>2, <2>1, <3>2, <4>1
      <4>3. QED
        BY <1>1, <4>2
    <3>3. QED
      BY <1>12, <3>1, <3>2
  <2>2. QED
    BY <2>1
<1>14. \A i \in 1..len : i \in 1..Len(at) /\ at[i] = o.at[l][i]
  BY <1>1, <1>5
<1>15. \A i \in 1..n : len + i \in 1..Len(at) /\ at[len + i] = new[i]
  <2>1. ASSUME NEW i \in 1..n PROVE len + i \in 1..Len(at) /\ at[len + i] = new[i]
    <3>1. len + i \in 1..len + n /\ ~(len + i <= len) /\ (len + i) - len = i
      BY <1>1
    <3>2. QED
      BY <1>5, <3>1
  <2>2. QED
    BY <2>1
<1>16. Apart(p)
  <2>1. \A m \in ListIds \ {l} : \A i \in 1..Len(o.at[m]) : o.at[m][i] \in p.heap /\ o.at[m][i] \notin p.lost
    BY <1>6, <1>9 DEF Apart
  <2>2. p.lost \subseteq p.heap
    BY <1>6, <1>9 DEF Apart
  <2>3. \A i \in 1..Len(p.at[l]) :
          /\ p.at[l][i] \in p.heap /\ p.at[l][i] \notin p.lost
          /\ p.at[l][i] \in o.heap => \E j \in 1..Len(o.at[l]) : o.at[l][j] = p.at[l][i]
    <3>1. ASSUME NEW i \in 1..Len(at)
          PROVE  /\ at[i] \in heap /\ at[i] \notin o.lost
                 /\ at[i] \in o.heap => \E j \in 1..len : o.at[l][j] = at[i]
      <4>1. CASE i \in 1..len /\ at[i] = o.at[l][i] /\ at[i] \in o.heap /\ at[i] \notin o.lost
        BY <1>6, <4>1
      <4>2. CASE i - len \in 1..n /\ at[i] = new[i - len] /\ at[i] \notin o.heap
        BY <1>6, <1>snd, <4>2
      <4>3. QED
        BY <1>12, <4>1, <4>2
    <3>2. QED
      BY <1>0, <1>9, <1>11, <3>1
  <2>4. \A e \in p.heap : \/ e \in p.lost \/ \E i \in 1..Len(p.at[l]) : p.at[l][i] = e
                          \/ \E m \in ListIds \ {l} : \E i \in 1..Len(o.at[m]) : o.at[m][i] = e
    <3>1. ASSUME NEW e \in o.heap, e \notin o.lost
          PROVE  \/ \E i \in 1..Len(at) : at[i] = e
                 \/ \E m \in ListIds \ {l} : \E i \in 1..Len(o.at[m]) : o.at[m][i] = e
      <4>1. PICK m \in ListIds : \E i \in 1..Len(o.at[m]) : o.at[m][i] = e
        BY <3>1 DEF Apart
      <4>2. CASE m = l
        BY <1>0, <1>14, <4>1, <4>2
      <4>3. QED
        BY <4>1, <4>2
    <3>2. ASSUME NEW k \in 1..n PROVE \E j \in 1..Len(at) : at[j] = new[k]
      BY <1>15
    <3>3. QED
      <4>1. ASSUME NEW e \in heap, e \notin o.lost
            PROVE  \/ \E i \in 1..Len(at) : at[i] = e
                   \/ \E m \in ListIds \ {l} : \E i \in 1..Len(o.at[m]) : o.at[m][i] = e
        <5>1. CASE e \in o.heap
          BY <3>1, <4>1, <5>1
        <5>2. CASE \E k \in 1..n : new[k] = e
          BY <3>2, <5>2
        <5>3. QED
          BY <1>6, <4>1, <5>1, <5>2
      <4>2. QED
        <5>1. p.heap = heap /\ p.lost = o.lost /\ p.at[l] = at
          BY <1>9, <1>11
        <5>2. QED
          BY <4>1, <5>1
  <2>5. \A m \in ListIds \ {l} : p.at[m] = o.at[m]
    BY <1>11
  <2>6. \A i, j \in 1..Len(p.at[l]) : p.at[l][i] = p.at[l][j] => i = j
    BY <1>11, <1>13
  <2>7. QED
    <3>1. Relists(o, p, l)
      BY ONLY <2>1, <2>2, <2>3, <2>4, <2>5, <2>6 DEF Relists
    <3>2. QED
      BY ONLY <1>c, <3>1, Relisted
<1>17. ASSUME ~p.self PROVE AsWanted(p)
  <2>1. ASSUME NEW m \in ListIds \ {l}
        PROVE  Len(p.want[m]) = Len(p.at[m]) /\ \A i \in 1..Len(p.at[m]) : p.val[p.at[m][i]] = p.want[m][i]
    <3>1. /\ p.at[m] = o.at[m] /\ p.want[m] = o.want[m] /\ p.val = val
          /\ \A i \in 1..Len(o.at[m]) : val[o.at[m][i]] = o.val[o.at[m][i]]
      BY <1>4, <1>9, <1>11, <1>fst
    <3>2. Len(o.want[m]) = Len(o.at[m]) /\ \A i \in 1..Len(o.at[m]) : o.val[o.at[m][i]] = o.want[m][i]
      BY <1>10, <1>17
    <3>3. Len(p.want[m]) = Len(p.at[m])
      BY <3>1, <3>2
    <3>4. ASSUME NEW i \in 1..Len(p.at[m]) PROVE p.val[p.at[m][i]] = p.want[m][i]
      <4>1. i \in 1..Len(o.at[m]) /\ p.val[p.at[m][i]] = val[o.at[m][i]] /\ p.want[m][i] = o.want[m][i]
        BY <3>1
      <4>2. QED
        BY <3>1, <3>2, <4>1
    <3>5. QED
      BY <3>3, <3>4
  <2>2. Len(want) = Len(at)
    BY <1>0, <1>5, <1>10, <1>17
  <2>3. ASSUME NEW i \in 1..Len(at) PROVE val[at[i]] = want[i]
    <3>1. CASE i \in 1..len /\ at[i] = o.at[l][i] /\ at[i] \in o.heap
      <4>1. o.val[o.at[l][i]] = want[i]
        BY <1>0, <1>10, <1>17, <3>1
      <4>2. val[at[i]] = o.val[at[i]]
        BY <1>4, <3>1
      <4>3. QED
        BY <3>1, <4>1, <4>2
    <3>2. CASE i - len \in 1..n /\ at[i] = new[i - len]
      <4>1. want[len + (i - len)] = vals[i - len]
        BY <1>0, <1>10, <1>17, <3>2
      <4>2. len + (i - len) = i
        BY <1>1
      <4>3. QED
        BY <1>4, <3>2, <4>1, <4>2
    <3>3. QED
      BY <1>12, <3>1, <3>2
  <2>4. QED
    BY <1>9, <1>11, <2>1, <2>2, <2>3 DEF AsWanted
<1>18. QED
  BY <1>8, <1>16, <1>17 DEF ListInv

-----------------------------------------------------------------------------
\* What only one list is about: its pointers are to its own elements or to
\* new ones, and the elements of the other stay.
InList(o, l, e) == \E i \in 1..Len(o.at[l]) : o.at[l][i] = e
Others(o, l) == {e \in o.heap \ o.lost : ~InList(o, l, e)}
OnlyList(o, l, heap, val, at, lost, want, self) ==
  /\ heap \in SUBSET ElementIds /\ val \in [ElementIds -> Nat] /\ at \in Seq(ElementIds)
  /\ lost \subseteq heap /\ want \in Seq(Nat) /\ self \in BOOLEAN
  /\ \A i, j \in 1..Len(at) : at[i] = at[j] => i = j
  /\ \A i \in 1..Len(at) : at[i] \in heap /\ at[i] \notin lost /\ (at[i] \in o.heap => InList(o, l, at[i]))
  /\ \A e \in Others(o, l) : e \in heap /\ e \notin lost /\ val[e] = o.val[e]
  /\ \A e \in heap : e \in lost \/ (\E i \in 1..Len(at) : at[i] = e) \/ e \in Others(o, l)
  /\ ~self => Len(want) = Len(at) /\ \A i \in 1..Len(at) : val[at[i]] = want[i]
Relist(o, l, heap, val, at, lost, want, self) ==
  [o EXCEPT !.heap = heap, !.val = val, !.at[l] = at, !.lost = lost, !.want[l] = want, !.self = self]
LEMMA OneList ==
  ASSUME NEW o, ListInv(o), ~o.self, NEW l \in ListIds, NEW heap, NEW val, NEW at, NEW lost, NEW want, NEW self,
         OnlyList(o, l, heap, val, at, lost, want, self),
         NEW p, p = Relist(o, l, heap, val, at, lost, want, self)
  PROVE  ListInv(p) /\ p.heap = heap
<1>1. o \in ListState /\ Apart(o) /\ AsWanted(o)
  BY DEF ListInv
<1>2. /\ heap \in SUBSET ElementIds /\ val \in [ElementIds -> Nat] /\ at \in Seq(ElementIds)
      /\ lost \subseteq heap /\ want \in Seq(Nat) /\ self \in BOOLEAN
  BY DEF OnlyList
<1> DEFINE ats == [o.at EXCEPT ![l] = at]
           wants == [o.want EXCEPT ![l] = want]
<1>3. p = [o EXCEPT !.heap = heap, !.val = val, !.at = ats, !.lost = lost, !.want = wants, !.self = self]
  BY <1>1 DEF ListState, Relist
<1>4. /\ ats \in [ListIds -> Seq(ElementIds)] /\ ats[l] = at
      /\ wants \in [ListIds -> Seq(Nat)] /\ wants[l] = want
      /\ \A m \in ListIds \ {l} : ats[m] = o.at[m] /\ wants[m] = o.want[m]
  BY <1>1, <1>2 DEF ListState
<1> HIDE DEF ats, wants
<1>5. p \in ListState
  <2>1. lost \in SUBSET ElementIds /\ heap \in SUBSET ElementIds
    BY <1>2
  <2>2. QED
    BY <1>1, <1>2, <1>3, <1>4, <2>1 DEF ListState
<1>6. /\ p.heap = heap /\ p.val = val /\ p.at = ats /\ p.lost = lost /\ p.want = wants
  BY <1>1, <1>3 DEF ListState
<1>7. p.self <=> self
  BY <1>1, <1>2, <1>3 DEF ListState
<1>8. ASSUME NEW m \in ListIds \ {l}, NEW i \in 1..Len(o.at[m]) PROVE o.at[m][i] \in Others(o, l)
  <2>1. o.at[m][i] \in o.heap /\ o.at[m][i] \notin o.lost
    BY <1>1 DEF Apart
  <2>2. ~InList(o, l, o.at[m][i])
    BY <1>1 DEF Apart, InList
  <2>3. QED
    BY <2>1, <2>2 DEF Others
<1>9. ASSUME NEW e \in Others(o, l) PROVE \E m \in ListIds \ {l} : \E i \in 1..Len(o.at[m]) : o.at[m][i] = e
  <2>1. PICK m \in ListIds : \E i \in 1..Len(o.at[m]) : o.at[m][i] = e
    BY <1>1 DEF Apart, Others
  <2>2. m # l
    BY <2>1 DEF Others, InList
  <2>3. QED
    BY <2>1, <2>2
<1>10. Relists(o, p, l)
  <2>1. \A m \in ListIds \ {l} : p.at[m] = o.at[m]
    BY <1>4, <1>6
  <2>2. p.at[l] = at /\ p.heap = heap /\ p.lost = lost
    BY <1>4, <1>6
  <2>3. \A i, j \in 1..Len(at) : at[i] = at[j] => i = j
    BY DEF OnlyList
  <2>4. \A i \in 1..Len(at) : /\ at[i] \in heap /\ at[i] \notin lost
                              /\ at[i] \in o.heap => \E j \in 1..Len(o.at[l]) : o.at[l][j] = at[i]
    BY DEF OnlyList, InList
  <2>5. \A m \in ListIds \ {l} : \A i \in 1..Len(o.at[m]) : o.at[m][i] \in heap /\ o.at[m][i] \notin lost
    BY <1>8 DEF OnlyList
  <2>6. \A e \in heap : \/ e \in lost \/ \E i \in 1..Len(at) : at[i] = e
                        \/ \E m \in ListIds \ {l} : \E i \in 1..Len(o.at[m]) : o.at[m][i] = e
    BY <1>9 DEF OnlyList
  <2>7. lost \subseteq heap
    BY <1>2
  <2>8. QED
    BY ONLY <2>1, <2>2, <2>3, <2>4, <2>5, <2>6, <2>7 DEF Relists
<1>11. Apart(p)
  <2>1. Apart(o) /\ l \in ListIds
    BY <1>1
  <2>2. QED
    BY ONLY <1>10, <2>1, Relisted
<1>12. ASSUME ~p.self PROVE AsWanted(p)
  <2>1. ASSUME NEW m \in ListIds \ {l}
        PROVE  Len(p.want[m]) = Len(p.at[m]) /\ \A i \in 1..Len(p.at[m]) : p.val[p.at[m][i]] = p.want[m][i]
    <3>1. p.at[m] = o.at[m] /\ p.want[m] = o.want[m] /\ p.val = val
      BY <1>4, <1>6
    <3>2. Len(o.want[m]) = Len(o.at[m]) /\ \A i \in 1..Len(o.at[m]) : o.val[o.at[m][i]] = o.want[m][i]
      BY <1>1 DEF AsWanted
    <3>3. \A i \in 1..Len(o.at[m]) : val[o.at[m][i]] = o.val[o.at[m][i]]
      BY <1>8 DEF OnlyList
    <3>4. QED
      BY <3>1, <3>2, <3>3
  <2>2. Len(want) = Len(at) /\ \A i \in 1..Len(at) : val[at[i]] = want[i]
    BY <1>7, <1>12 DEF OnlyList
  <2>3. p.at[l] = at /\ p.want[l] = want /\ p.val = val
    BY <1>4, <1>6
  <2>4. QED
    BY <2>1, <2>2, <2>3 DEF AsWanted
<1>13. QED
  BY <1>5, <1>6, <1>11, <1>12 DEF ListInv

\* What a list that is as it should be says of one of its lists.
LEMMA OneListIs ==
  ASSUME NEW o, ListInv(o), ~o.self, NEW l \in ListIds
  PROVE  /\ o.at[l] \in Seq(ElementIds) /\ o.want[l] \in Seq(Nat) /\ Len(o.want[l]) = Len(o.at[l])
         /\ o.heap \subseteq ElementIds /\ o.val \in [ElementIds -> Nat] /\ o.lost \subseteq o.heap
         /\ \A i, j \in 1..Len(o.at[l]) : o.at[l][i] = o.at[l][j] => i = j
         /\ \A i \in 1..Len(o.at[l]) : /\ o.at[l][i] \in o.heap /\ o.at[l][i] \notin o.lost
                                       /\ o.val[o.at[l][i]] = o.want[l][i]
         /\ \A e \in o.heap : e \in o.lost \/ InList(o, l, e) \/ e \in Others(o, l)
<1>1. o \in ListState /\ Apart(o) /\ AsWanted(o)
  BY DEF ListInv
<1>2. /\ o.at[l] \in Seq(ElementIds) /\ o.want[l] \in Seq(Nat) /\ Len(o.want[l]) = Len(o.at[l])
      /\ o.heap \subseteq ElementIds /\ o.val \in [ElementIds -> Nat] /\ o.lost \subseteq o.heap
  BY <1>1 DEF ListState, AsWanted, Apart
<1>3. \A i, j \in 1..Len(o.at[l]) : o.at[l][i] = o.at[l][j] => i = j
  BY <1>1 DEF Apart
<1>4. \A i \in 1..Len(o.at[l]) : o.at[l][i] \in o.heap /\ o.at[l][i] \notin o.lost /\ o.val[o.at[l][i]] = o.want[l][i]
  BY <1>1 DEF Apart, AsWanted
<1>5. \A e \in o.heap : e \in o.lost \/ InList(o, l, e) \/ e \in Others(o, l)
  BY DEF Others
<1>6. QED
  BY <1>2, <1>3, <1>4, <1>5

LEMMA InsertStep ==
  ASSUME ListInv(obj), NEW l \in ListIds, NEW k \in Nat, NEW v \in Nat, listInsert(l, k, v)
  PROVE  ListInv(obj')
<1> DEFINE e == New(obj)
           at == InsertAt(obj.at[l], k + 1, e)
           want == InsertAt(obj.want[l], k + 1, v)
           heap == obj.heap \union {e}
           val == [obj.val EXCEPT ![e] = v]
           n == Len(obj.at[l])
<1>1. ~obj.self /\ Cardinality(obj.heap) + 1 <= MaxObjects /\ k \in 0..n
  BY DEF listInsert, Room, ListAt
<1>2. obj \in ListState
  BY DEF ListInv
<1>3. e \in ElementIds \ obj.heap
  BY <1>1, <1>2, FreeOne
<1>4. obj' = Relist(obj, l, heap, val, at, obj.lost, want, obj.self)
  BY <1>2 DEF listInsert, Made, ListState, Relist
<1> HIDE DEF e
<1>5. /\ obj.at[l] \in Seq(ElementIds) /\ obj.want[l] \in Seq(Nat) /\ Len(obj.want[l]) = n
      /\ obj.heap \subseteq ElementIds /\ obj.val \in [ElementIds -> Nat] /\ obj.lost \subseteq obj.heap
      /\ \A i, j \in 1..n : obj.at[l][i] = obj.at[l][j] => i = j
      /\ \A i \in 1..n : /\ obj.at[l][i] \in obj.heap /\ obj.at[l][i] \notin obj.lost
                         /\ obj.val[obj.at[l][i]] = obj.want[l][i]
      /\ \A x \in obj.heap : x \in obj.lost \/ InList(obj, l, x) \/ x \in Others(obj, l)
  BY <1>1, OneListIs
<1>6. n \in Nat /\ k + 1 \in 1..n + 1
  BY <1>1, <1>5
<1>7. /\ at \in Seq(ElementIds) /\ Len(at) = n + 1 /\ at[k + 1] = e
      /\ \A j \in 1..n : j < k + 1 => at[j] = obj.at[l][j]
      /\ \A j \in 1..n : j >= k + 1 => at[j + 1] = obj.at[l][j]
  <2> DEFINE s == obj.at[l]
             r == k + 1
  <2>1. s \in Seq(ElementIds) /\ r \in 1..Len(s) + 1 /\ e \in ElementIds
    BY <1>3, <1>5, <1>6
  <2> HIDE DEF s, r
  <2>2. /\ InsertAt(s, r, e) \in Seq(ElementIds) /\ Len(InsertAt(s, r, e)) = Len(s) + 1
        /\ InsertAt(s, r, e)[r] = e
        /\ \A j \in 1..Len(s) : j < r => InsertAt(s, r, e)[j] = s[j]
        /\ \A j \in 1..Len(s) : j >= r => InsertAt(s, r, e)[j + 1] = s[j]
    BY <2>1, InsertIs
  <2>3. QED
    BY <2>2 DEF s, r
<1>8. /\ want \in Seq(Nat) /\ Len(want) = n + 1 /\ want[k + 1] = v
      /\ \A j \in 1..n : j < k + 1 => want[j] = obj.want[l][j]
      /\ \A j \in 1..n : j >= k + 1 => want[j + 1] = obj.want[l][j]
  <2> DEFINE s == obj.want[l]
             r == k + 1
  <2>1. s \in Seq(Nat) /\ r \in 1..Len(s) + 1 /\ Len(s) = n /\ v \in Nat
    BY <1>5, <1>6
  <2> HIDE DEF s, r
  <2>2. /\ InsertAt(s, r, v) \in Seq(Nat) /\ Len(InsertAt(s, r, v)) = Len(s) + 1
        /\ InsertAt(s, r, v)[r] = v
        /\ \A j \in 1..Len(s) : j < r => InsertAt(s, r, v)[j] = s[j]
        /\ \A j \in 1..Len(s) : j >= r => InsertAt(s, r, v)[j + 1] = s[j]
    <3> DEFINE Codom == Nat
    <3>1. s \in Seq(Codom) /\ v \in Codom /\ r \in 1..Len(s) + 1
      BY <2>1
    <3> HIDE DEF Codom
    <3>2. /\ InsertAt(s, r, v) \in Seq(Codom) /\ Len(InsertAt(s, r, v)) = Len(s) + 1
          /\ InsertAt(s, r, v)[r] = v
          /\ \A j \in 1..Len(s) : j < r => InsertAt(s, r, v)[j] = s[j]
          /\ \A j \in 1..Len(s) : j >= r => InsertAt(s, r, v)[j + 1] = s[j]
      BY ONLY <3>1, InsertIs
    <3>3. QED
      BY <3>2 DEF Codom
  <2>3. QED
    BY <2>1, <2>2 DEF s, r
<1> HIDE DEF at, want, n
<1>9. \A i \in 1..n + 1 :
        \/ i = k + 1 /\ at[i] = e /\ want[i] = v
        \/ i < k + 1 /\ i \in 1..n /\ at[i] = obj.at[l][i] /\ want[i] = obj.want[l][i]
        \/ i > k + 1 /\ i - 1 \in 1..n /\ at[i] = obj.at[l][i - 1] /\ want[i] = obj.want[l][i - 1]
  <2>1. ASSUME NEW i \in 1..n + 1, i < k + 1
        PROVE  i \in 1..n /\ at[i] = obj.at[l][i] /\ want[i] = obj.want[l][i]
    BY <1>6, <1>7, <1>8, <2>1
  <2>2. ASSUME NEW i \in 1..n + 1, i > k + 1
        PROVE  i - 1 \in 1..n /\ at[i] = obj.at[l][i - 1] /\ want[i] = obj.want[l][i - 1]
    <3>1. i - 1 \in 1..n /\ i - 1 >= k + 1 /\ (i - 1) + 1 = i
      BY <1>6, <2>2
    <3>2. QED
      BY <1>7, <1>8, <3>1
  <2>3. QED
    BY <1>6, <1>7, <1>8, <2>1, <2>2
<1>10. \A i \in 1..n + 1 :
         i = k + 1 \/ (at[i] \in obj.heap /\ at[i] # e /\ at[i] \notin obj.lost /\ InList(obj, l, at[i])
                        /\ obj.val[at[i]] = want[i])
  <2>1. ASSUME NEW j \in 1..n
        PROVE  /\ obj.at[l][j] \in obj.heap /\ obj.at[l][j] # e /\ obj.at[l][j] \notin obj.lost
               /\ InList(obj, l, obj.at[l][j]) /\ obj.val[obj.at[l][j]] = obj.want[l][j]
    BY <1>3, <1>5 DEF InList, n
  <2>2. QED
    BY <1>9, <2>1
<1>11. \A x : InList(obj, l, x) => \E i \in 1..n + 1 : at[i] = x
  <2>1. ASSUME NEW j \in 1..n PROVE \E i \in 1..n + 1 : at[i] = obj.at[l][j]
    <3>1. CASE j < k + 1
      BY <1>6, <1>7, <3>1
    <3>2. CASE j >= k + 1
      <4>1. j + 1 \in 1..n + 1
        BY <1>6
      <4>2. QED
        BY <1>7, <3>2, <4>1
    <3>3. QED
      BY <1>6, <3>1, <3>2
  <2>2. QED
    BY <2>1 DEF InList, n
<1>12. \A i, j \in 1..n + 1 : at[i] = at[j] => i = j
  <2>1. ASSUME NEW i \in 1..n + 1, NEW j \in 1..n + 1, at[i] = at[j] PROVE i = j
    <3>1. CASE i = k + 1 \/ j = k + 1
      BY <1>7, <1>10, <2>1, <3>1
    <3>2. CASE i # k + 1 /\ j # k + 1
      <4>1. ASSUME NEW fst \in 1..n, NEW snd \in 1..n, obj.at[l][fst] = obj.at[l][snd] PROVE fst = snd
        BY <1>5, <4>1
      <4>2. QED
        BY <1>6, <1>9, <2>1, <3>2, <4>1
    <3>3. QED
      BY <3>1, <3>2
  <2>2. QED
    BY <2>1
<1>13. OnlyList(obj, l, heap, val, at, obj.lost, want, obj.self)
  <2>1. heap \in SUBSET ElementIds /\ val \in [ElementIds -> Nat] /\ obj.lost \subseteq heap /\ obj.self \in BOOLEAN
    BY <1>2, <1>3, <1>5 DEF ListState
  <2>2. \A x \in Others(obj, l) : x \in heap /\ x \notin obj.lost /\ val[x] = obj.val[x]
    BY <1>3, <1>5 DEF Others
  <2>3. \A i \in 1..Len(at) : at[i] \in heap /\ at[i] \notin obj.lost /\ (at[i] \in obj.heap => InList(obj, l, at[i]))
    BY <1>3, <1>5, <1>7, <1>10
  <2>4. \A x \in heap : x \in obj.lost \/ (\E i \in 1..Len(at) : at[i] = x) \/ x \in Others(obj, l)
    BY <1>5, <1>6, <1>7, <1>11
  <2>5. Len(want) = Len(at) /\ \A i \in 1..Len(at) : val[at[i]] = want[i]
    BY <1>3, <1>5, <1>7, <1>8, <1>10
  <2>6. \A i, j \in 1..Len(at) : at[i] = at[j] => i = j
    BY <1>7, <1>12
  <2> HIDE DEF heap, val
  <2>7. QED
    BY <1>7, <1>8, <2>1, <2>2, <2>3, <2>4, <2>5, <2>6 DEF OnlyList
<1> HIDE DEF heap, val
<1>14. QED
  <2>1. ListInv(obj) /\ l \in ListIds
    OBVIOUS
  <2>2. QED
    BY ONLY <1>1, <1>4, <1>13, <2>1, OneList

LEMMA EraseStep ==
  ASSUME ListInv(obj), NEW l \in ListIds, NEW k \in Nat, listErase(l, k)
  PROVE  ListInv(obj')
<1> DEFINE n == Len(obj.at[l])
           e == obj.at[l][k]
           at == RemoveAt(obj.at[l], k)
           want == RemoveAt(obj.want[l], k)
           heap == obj.heap \ {e}
           val == [obj.val EXCEPT ![e] = 0]
<1>1. ~obj.self
  BY DEF listErase, ListAt
<1>2. obj \in ListState
  BY DEF ListInv
<1>5. /\ obj.at[l] \in Seq(ElementIds) /\ obj.want[l] \in Seq(Nat) /\ Len(obj.want[l]) = n
      /\ obj.heap \subseteq ElementIds /\ obj.val \in [ElementIds -> Nat] /\ obj.lost \subseteq obj.heap
      /\ \A i, j \in 1..n : obj.at[l][i] = obj.at[l][j] => i = j
      /\ \A i \in 1..n : /\ obj.at[l][i] \in obj.heap /\ obj.at[l][i] \notin obj.lost
                         /\ obj.val[obj.at[l][i]] = obj.want[l][i]
      /\ \A x \in obj.heap : x \in obj.lost \/ InList(obj, l, x) \/ x \in Others(obj, l)
  BY <1>1, OneListIs
<1>3. k \in 1..n /\ n \in Nat
  BY <1>5 DEF listErase
<1>4. obj' = Relist(obj, l, heap, val, at, obj.lost, want, obj.self)
  BY <1>2 DEF listErase, ListState, Relist
<1>6. e \in obj.heap /\ e \in ElementIds /\ e \notin obj.lost /\ InList(obj, l, e)
  BY <1>3, <1>5 DEF InList
<1>7. /\ at \in Seq(ElementIds) /\ Len(at) = n - 1
      /\ \A j \in 1..n : j < k => at[j] = obj.at[l][j]
      /\ \A j \in 1..n - 1 : j >= k => at[j] = obj.at[l][j + 1]
  <2> DEFINE s == obj.at[l]
  <2>1. s \in Seq(ElementIds) /\ k \in 1..Len(s)
    BY <1>3, <1>5
  <2> HIDE DEF s
  <2>2. /\ RemoveAt(s, k) \in Seq(ElementIds) /\ Len(RemoveAt(s, k)) = Len(s) - 1
        /\ \A j \in 1..Len(s) : j < k => RemoveAt(s, k)[j] = s[j]
        /\ \A j \in 1..Len(s) - 1 : j >= k => RemoveAt(s, k)[j] = s[j + 1]
    BY ONLY <2>1, RemoveIs
  <2>3. QED
    BY <2>2 DEF s
<1>8. /\ want \in Seq(Nat) /\ Len(want) = n - 1
      /\ \A j \in 1..n : j < k => want[j] = obj.want[l][j]
      /\ \A j \in 1..n - 1 : j >= k => want[j] = obj.want[l][j + 1]
  <2> DEFINE s == obj.want[l]
             Codom == Nat
  <2>1. s \in Seq(Codom) /\ k \in 1..Len(s) /\ Len(s) = n
    BY <1>3, <1>5
  <2> HIDE DEF s, Codom
  <2>2. /\ RemoveAt(s, k) \in Seq(Codom) /\ Len(RemoveAt(s, k)) = Len(s) - 1
        /\ \A j \in 1..Len(s) : j < k => RemoveAt(s, k)[j] = s[j]
        /\ \A j \in 1..Len(s) - 1 : j >= k => RemoveAt(s, k)[j] = s[j + 1]
    BY ONLY <2>1, RemoveIs
  <2>3. QED
    BY <2>1, <2>2 DEF s, Codom
<1> HIDE DEF at, want
<1>9. \A i \in 1..n - 1 : \E j \in 1..n :
        /\ j # k /\ at[i] = obj.at[l][j] /\ want[i] = obj.want[l][j]
        /\ j = IF i < k THEN i ELSE i + 1
  <2>1. ASSUME NEW i \in 1..n - 1, i < k
        PROVE  i \in 1..n /\ i # k /\ at[i] = obj.at[l][i] /\ want[i] = obj.want[l][i]
    BY <1>3, <1>7, <1>8, <2>1
  <2>2. ASSUME NEW i \in 1..n - 1, ~(i < k)
        PROVE  i + 1 \in 1..n /\ i + 1 # k /\ at[i] = obj.at[l][i + 1] /\ want[i] = obj.want[l][i + 1]
    BY <1>3, <1>7, <1>8, <2>2
  <2>3. QED
    BY <2>1, <2>2
<1>10. \A i \in 1..n - 1 :
         /\ at[i] \in obj.heap /\ at[i] # e /\ at[i] \notin obj.lost /\ InList(obj, l, at[i])
         /\ obj.val[at[i]] = want[i]
  <2>1. ASSUME NEW j \in 1..n, j # k
        PROVE  /\ obj.at[l][j] \in obj.heap /\ obj.at[l][j] # e /\ obj.at[l][j] \notin obj.lost
               /\ InList(obj, l, obj.at[l][j]) /\ obj.val[obj.at[l][j]] = obj.want[l][j]
    BY <1>3, <1>5, <2>1 DEF InList, n
  <2>2. QED
    BY <1>9, <2>1
<1>11. \A x : InList(obj, l, x) /\ x # e => \E i \in 1..n - 1 : at[i] = x
  <2>1. ASSUME NEW j \in 1..n, j # k PROVE \E i \in 1..n - 1 : at[i] = obj.at[l][j]
    <3>1. CASE j < k
      BY <1>3, <1>7, <3>1
    <3>2. CASE j > k
      <4>1. j - 1 \in 1..n - 1 /\ j - 1 >= k /\ (j - 1) + 1 = j
        BY <1>3, <3>2
      <4>2. QED
        BY <1>7, <4>1
    <3>3. QED
      BY <1>3, <2>1, <3>1, <3>2
  <2>2. QED
    BY <2>1 DEF InList, n
<1>12. \A i, j \in 1..n - 1 : at[i] = at[j] => i = j
  <2>1. ASSUME NEW i \in 1..n - 1, NEW j \in 1..n - 1, at[i] = at[j] PROVE i = j
    <3>1. PICK fst \in 1..n : at[i] = obj.at[l][fst] /\ fst = IF i < k THEN i ELSE i + 1
      BY <1>9
    <3>2. PICK snd \in 1..n : at[j] = obj.at[l][snd] /\ snd = IF j < k THEN j ELSE j + 1
      BY <1>9
    <3>3. fst = snd
      BY <1>5, <2>1, <3>1, <3>2
    <3>4. QED
      BY <1>3, <3>1, <3>2, <3>3
  <2>2. QED
    BY <2>1
<1> HIDE DEF n
<1>13. OnlyList(obj, l, heap, val, at, obj.lost, want, obj.self)
  <2>1. heap \in SUBSET ElementIds /\ val \in [ElementIds -> Nat] /\ obj.lost \subseteq heap /\ obj.self \in BOOLEAN
    BY <1>2, <1>5, <1>6 DEF ListState
  <2>2. \A x \in Others(obj, l) : x \in heap /\ x \notin obj.lost /\ val[x] = obj.val[x]
    BY <1>5, <1>6 DEF Others
  <2>3. \A i \in 1..Len(at) : at[i] \in heap /\ at[i] \notin obj.lost /\ (at[i] \in obj.heap => InList(obj, l, at[i]))
    BY <1>7, <1>10
  <2>4. \A x \in heap : x \in obj.lost \/ (\E i \in 1..Len(at) : at[i] = x) \/ x \in Others(obj, l)
    BY <1>5, <1>7, <1>11
  <2>5. Len(want) = Len(at) /\ \A i \in 1..Len(at) : val[at[i]] = want[i]
    BY <1>5, <1>7, <1>8, <1>10
  <2>6. \A i, j \in 1..Len(at) : at[i] = at[j] => i = j
    BY <1>7, <1>12
  <2> HIDE DEF heap, val
  <2>7. QED
    BY <1>7, <1>8, <2>1, <2>2, <2>3, <2>4, <2>5, <2>6 DEF OnlyList
<1> HIDE DEF heap, val
<1>14. QED
  <2>1. ListInv(obj) /\ l \in ListIds
    OBVIOUS
  <2>2. QED
    BY ONLY <1>1, <1>4, <1>13, <2>1, OneList

LEMMA ListClearStep ==
  ASSUME ListInv(obj), NEW l \in ListIds, listClear(l)
  PROVE  ListInv(obj')
<1> DEFINE at == <<>>
           want == <<>>
           heap == obj.heap \ Range(obj.at[l])
           val == [x \in DOMAIN obj.val |-> IF x \in Range(obj.at[l]) THEN 0 ELSE obj.val[x]]
           n == Len(obj.at[l])
<1>1. ~obj.self
  BY DEF listClear, ListAt
<1>2. obj \in ListState
  BY DEF ListInv
<1>3. obj' = Relist(obj, l, heap, val, at, obj.lost, want, obj.self)
  BY <1>2 DEF listClear, ListState, Relist
<1>4. /\ obj.at[l] \in Seq(ElementIds)
      /\ obj.heap \subseteq ElementIds /\ obj.val \in [ElementIds -> Nat] /\ obj.lost \subseteq obj.heap
      /\ \A i \in 1..n : obj.at[l][i] \in obj.heap /\ obj.at[l][i] \notin obj.lost
      /\ \A x \in obj.heap : x \in obj.lost \/ InList(obj, l, x) \/ x \in Others(obj, l)
  BY <1>1, OneListIs
<1>5. \A x : x \in Range(obj.at[l]) <=> InList(obj, l, x)
  <2>1. DOMAIN obj.at[l] = 1..n
    BY <1>4
  <2>2. QED
    BY <2>1 DEF Range, InList
<1>6. /\ heap \in SUBSET ElementIds /\ val \in [ElementIds -> Nat] /\ obj.lost \subseteq heap /\ obj.self \in BOOLEAN
  BY <1>2, <1>4, <1>5 DEF InList, ListState
<1>7. \A x \in Others(obj, l) : x \in heap /\ x \notin obj.lost /\ val[x] = obj.val[x]
  BY <1>4, <1>5 DEF Others
<1>8. \A x \in heap : x \in obj.lost \/ x \in Others(obj, l)
  BY <1>4, <1>5
<1>9. at \in Seq(ElementIds) /\ want \in Seq(Nat) /\ Len(at) = 0 /\ Len(want) = 0
  OBVIOUS
<1> HIDE DEF heap, val, at, want
<1>10. OnlyList(obj, l, heap, val, at, obj.lost, want, obj.self)
  BY <1>6, <1>7, <1>8, <1>9 DEF OnlyList
<1>11. ListInv(obj) /\ l \in ListIds
  OBVIOUS
<1>12. QED
  BY ONLY <1>1, <1>3, <1>10, <1>11, OneList

\* An assignment first forgets what the list had.
LEMMA ForgetKeeps ==
  ASSUME NEW o, ListInv(o), ~o.self, NEW l \in ListIds, NEW want \in Seq(Nat), NEW self \in BOOLEAN,
         self \/ want = <<>>,
         NEW p, p = Relist(o, l, o.heap, o.val, <<>>, o.lost \union Range(o.at[l]), want, self)
  PROVE  ListInv(p) /\ p.heap = o.heap
<1> DEFINE at == <<>>
           lost == o.lost \union Range(o.at[l])
           heap == o.heap
           val == o.val
           n == Len(o.at[l])
<1>1. p = Relist(o, l, heap, val, at, lost, want, self)
  OBVIOUS
<1>4. /\ o.at[l] \in Seq(ElementIds)
      /\ o.heap \subseteq ElementIds /\ o.val \in [ElementIds -> Nat] /\ o.lost \subseteq o.heap
      /\ \A i \in 1..n : o.at[l][i] \in o.heap /\ o.at[l][i] \notin o.lost
      /\ \A x \in o.heap : x \in o.lost \/ InList(o, l, x) \/ x \in Others(o, l)
  BY OneListIs
<1>5. \A x : x \in Range(o.at[l]) <=> InList(o, l, x)
  <2>1. DOMAIN o.at[l] = 1..n
    BY <1>4
  <2>2. QED
    BY <2>1 DEF Range, InList
<1>6. /\ heap \in SUBSET ElementIds /\ val \in [ElementIds -> Nat] /\ lost \subseteq heap
  <2>1. ASSUME NEW x \in Range(o.at[l]) PROVE x \in o.heap
    <3>1. PICK i \in 1..n : o.at[l][i] = x
      BY <1>5 DEF InList
    <3>2. QED
      BY <1>4, <3>1
  <2>2. QED
    BY <1>4, <2>1
<1>7. \A x \in Others(o, l) : x \in heap /\ x \notin lost /\ val[x] = o.val[x]
  BY <1>4, <1>5 DEF Others
<1>8. \A x \in heap : x \in lost \/ x \in Others(o, l)
  BY <1>4, <1>5
<1>9. at \in Seq(ElementIds) /\ Len(at) = 0 /\ (~self => Len(want) = 0)
  OBVIOUS
<1> HIDE DEF heap, val, at, lost
<1>10. OnlyList(o, l, heap, val, at, lost, want, self)
  BY <1>6, <1>7, <1>8, <1>9 DEF OnlyList
<1>11. ListInv(o) /\ l \in ListIds /\ ~o.self
  OBVIOUS
<1>12. ListInv(p) /\ p.heap = heap
  BY ONLY <1>1, <1>10, <1>11, OneList
<1>13. QED
  BY <1>12 DEF heap

LEMMA WantedVals ==
  ASSUME ListInv(obj), ~obj.self, NEW m \in ListIds
  PROVE  /\ Vals(m) = obj.want[m] /\ obj.want[m] \in Seq(Nat) /\ Len(obj.want[m]) = Len(obj.at[m])
         /\ \A i \in 1..Len(obj.at[m]) : Vals(m)[i] = obj.val[obj.at[m][i]]
<1> DEFINE want == obj.want[m]
           at == obj.at[m]
<1>1. /\ at \in Seq(ElementIds) /\ want \in Seq(Nat) /\ Len(want) = Len(at)
      /\ \A i \in 1..Len(at) : obj.val[at[i]] = want[i]
  BY OneListIs
<1>2. Vals(m) = [i \in 1..Len(at) |-> obj.val[at[i]]]
  BY <1>1 DEF Vals
<1>3. [i \in 1..Len(at) |-> obj.val[at[i]]] = [i \in 1..Len(want) |-> want[i]]
  BY <1>1
<1>4. [i \in 1..Len(want) |-> want[i]] = want
  <2> HIDE DEF want
  <2>1. want \in [1..Len(want) -> Nat]
    BY <1>1
  <2>2. QED
    BY <2>1
<1>5. QED
  BY <1>1, <1>2, <1>3, <1>4

LEMMA ListAssignStep ==
  ASSUME ListInv(obj), NEW l \in ListIds, NEW m \in ListIds, listAssign(l, m)
  PROVE  ListInv(obj')
<1>1. ~obj.self /\ Cardinality(obj.heap) + Len(obj.at[m]) <= MaxObjects
  BY DEF listAssign, Room, ListAt
<1>2. obj \in ListState
  BY DEF ListInv
<1> DEFINE lost == obj.lost \union Range(obj.at[l])
           want == obj.want[m]
           left == Relist(obj, l, obj.heap, obj.val, <<>>, lost, want, TRUE)
           vals == Vals(m)
<1>3. vals = want /\ want \in Seq(Nat) /\ Len(want) = Len(obj.at[m])
  BY <1>1, WantedVals
<1>4. ListInv(left) /\ left.heap = obj.heap
  <2>1. ListInv(obj) /\ l \in ListIds /\ want \in Seq(Nat)
    BY <1>3
  <2> DEFINE t == TRUE
  <2>2. /\ left = Relist(obj, l, obj.heap, obj.val, <<>>, obj.lost \union Range(obj.at[l]), want, t)
        /\ t /\ t \in BOOLEAN
    OBVIOUS
  <2>3. left.heap = obj.heap
    BY <1>2 DEF Relist, ListState
  <2> HIDE DEF t, want, left
  <2>4. ListInv(left)
    BY ONLY <1>1, <2>1, <2>2, ForgetKeeps
  <2>5. QED
    BY <2>3, <2>4
<1>5. CASE l = m
  <2>1. obj' = left
    BY <1>2, <1>5 DEF listAssign, Relist, ListState
  <2>2. QED
    BY <1>4, <2>1
<1>6. CASE l # m
  <2> DEFINE q == [obj EXCEPT !.at[l] = <<>>, !.lost = lost, !.want[l] = want, !.self = FALSE]
  <2>1. obj' = Pushed(q, l, vals)
    BY <1>1, <1>2, <1>6 DEF listAssign, ListState
  <2>2. [Pushed(q, l, vals) EXCEPT !.want[l] = want] = Pushed(q, l, vals)
    <3> DEFINE new == NewOnes(q, Len(vals))
               heap == obj.heap \union Range(new)
               val == Holders(obj.val, new, vals)
               at0 == [obj.at EXCEPT ![l] = <<>>]
               at == [at0 EXCEPT ![l] = @ \o new]
               wants == [obj.want EXCEPT ![l] = want]
    <3>1. [wants EXCEPT ![l] = want] = wants
      <4> HIDE DEF want
      <4>1. QED
        BY <1>2 DEF ListState
    <3>2. q = [obj EXCEPT !.at = at0, !.lost = lost, !.want = wants, !.self = FALSE]
      BY <1>2 DEF ListState
    <3>3. Pushed(q, l, vals)
            = [q EXCEPT !.heap = @ \union Range(new), !.val = Holders(@, new, vals), !.at[l] = @ \o new]
      BY DEF Pushed
    <3> HIDE DEF new, at0, lost, want, wants, vals, q
    <3>4. q.heap = obj.heap /\ q.val = obj.val /\ q.at = at0
      BY <1>2, <3>2 DEF ListState
    <3>5. Pushed(q, l, vals) = [q EXCEPT !.heap = heap, !.val = val, !.at = at]
      BY <3>3, <3>4
    <3> HIDE DEF heap, val, at
    <3>6. Pushed(q, l, vals) = [obj EXCEPT !.heap = heap, !.val = val, !.at = at, !.lost = lost, !.want = wants,
                                           !.self = FALSE]
      BY <1>2, <3>2, <3>5 DEF ListState
    <3> DEFINE p == Pushed(q, l, vals)
    <3>7. p = [obj EXCEPT !.heap = heap, !.val = val, !.at = at, !.lost = lost, !.want = wants, !.self = FALSE]
      BY <3>6
    <3> HIDE DEF p
    <3>8. p.want = wants
      BY <1>2, <3>7 DEF ListState
    <3>9. [p EXCEPT !.want[l] = want] = [p EXCEPT !.want = wants]
      BY <3>1, <3>8
    <3>10. [p EXCEPT !.want = wants] = p
      BY <1>2, <3>7 DEF ListState
    <3>11. QED
      BY <3>9, <3>10 DEF p
  <2>3. /\ q.heap = left.heap /\ q.val = left.val /\ q.at = left.at /\ q.lost = left.lost /\ q.want = left.want
        /\ q.at[l] = <<>> /\ ~q.self /\ q.val = obj.val
        /\ \A k \in ListIds \ {l} : q.at[k] = obj.at[k] /\ q.want[k] = obj.want[k]
    <3> HIDE DEF lost, want
    <3>1. QED
      BY <1>2 DEF ListState, Relist
  <2>4. left \in ListState /\ Apart(left)
    BY <1>4 DEF ListInv
  <2>5. q \in ListState
    <3> HIDE DEF lost, left
    <3>1. lost \in SUBSET ElementIds
      BY <1>2, <1>3 DEF ListState, Range, lost
    <3>2. [obj.at EXCEPT ![l] = <<>>] \in [ListIds -> Seq(ElementIds)] /\ [obj.want EXCEPT ![l] = want] \in [ListIds -> Seq(Nat)]
      BY <1>2, <1>3 DEF ListState
    <3>3. QED
      BY <1>2, <3>1, <3>2 DEF ListState
  <2> HIDE DEF q, left, vals, want
  <2>6. Apart(q)
    BY <2>3, <2>4 DEF Apart
  <2>7. vals \in Seq(Nat) /\ Cardinality(q.heap) + Len(vals) <= MaxObjects
    BY <1>1, <1>3, <1>4, <2>3
  <2>8. \A k \in ListIds \ {l} :
          Len(q.want[k]) = Len(q.at[k]) /\ \A i \in 1..Len(q.at[k]) : q.val[q.at[k][i]] = q.want[k][i]
    <3>1. AsWanted(obj)
      BY <1>1 DEF ListInv
    <3>2. ASSUME NEW k \in ListIds \ {l}
          PROVE  Len(q.want[k]) = Len(q.at[k]) /\ \A i \in 1..Len(q.at[k]) : q.val[q.at[k][i]] = q.want[k][i]
      <4>1. Len(obj.want[k]) = Len(obj.at[k]) /\ \A i \in 1..Len(obj.at[k]) : obj.val[obj.at[k][i]] = obj.want[k][i]
        BY <3>1 DEF AsWanted
      <4>2. q.at[k] = obj.at[k] /\ q.want[k] = obj.want[k] /\ q.val = obj.val
        BY <2>3
      <4>3. QED
        BY <4>1, <4>2
    <3>3. QED
      BY <3>2
  <2>9. /\ Len(want) = Len(q.at[l]) + Len(vals)
        /\ \A i \in 1..Len(q.at[l]) : q.val[q.at[l][i]] = want[i]
        /\ \A i \in 1..Len(vals) : want[Len(q.at[l]) + i] = vals[i]
    BY <1>3, <2>3
  <2>10. l \in ListIds /\ want \in Seq(Nat) /\ obj' = [Pushed(q, l, vals) EXCEPT !.want[l] = want]
    BY <1>3, <2>1, <2>2
  <2>11. QED
    BY ONLY <2>5, <2>6, <2>7, <2>8, <2>9, <2>10, PushedKeeps
<1>7. QED
  BY <1>5, <1>6

LEMMA ConcatStep ==
  ASSUME ListInv(obj), NEW l \in ListIds, NEW m \in ListIds, listConcat(l, m)
  PROVE  ListInv(obj')
<1> DEFINE vals == Vals(m)
           mine == obj.want[l]
           want == mine \o obj.want[m]
<1>1. ~obj.self /\ Cardinality(obj.heap) + Len(obj.at[m]) <= MaxObjects
  BY DEF listConcat, Room, ListAt
<1>2. obj \in ListState /\ Apart(obj) /\ AsWanted(obj) /\ l \in ListIds
  BY <1>1 DEF ListInv
<1>3. vals = obj.want[m] /\ vals \in Seq(Nat) /\ Len(vals) = Len(obj.at[m])
  BY <1>1, WantedVals
<1>4. /\ mine \in Seq(Nat) /\ Len(mine) = Len(obj.at[l])
      /\ \A i \in 1..Len(obj.at[l]) : obj.val[obj.at[l][i]] = mine[i]
  BY <1>1, OneListIs
<1>5. want = mine \o vals
  BY <1>3
<1>6. obj' = [Pushed(obj, l, vals) EXCEPT !.want[l] = want]
  BY <1>2 DEF listConcat, Pushed, ListState
<1> HIDE DEF vals, mine, want
<1>7. /\ want \in Seq(Nat) /\ Len(want) = Len(mine) + Len(vals)
      /\ \A i \in 1..Len(mine) + Len(vals) : want[i] = IF i <= Len(mine) THEN mine[i] ELSE vals[i - Len(mine)]
  <2> DEFINE Codom == Nat
  <2>1. mine \in Seq(Codom) /\ vals \in Seq(Codom)
    BY <1>3, <1>4
  <2> HIDE DEF Codom
  <2>2. /\ mine \o vals \in Seq(Codom) /\ Len(mine \o vals) = Len(mine) + Len(vals)
        /\ \A i \in 1..Len(mine) + Len(vals) :
             (mine \o vals)[i] = IF i <= Len(mine) THEN mine[i] ELSE vals[i - Len(mine)]
    BY ONLY <2>1, Joined
  <2>3. QED
    BY <1>5, <2>2 DEF Codom
<1>8. /\ Len(mine) \in Nat /\ Len(vals) \in Nat
      /\ \A i \in 1..Len(mine) : want[i] = mine[i]
      /\ \A i \in 1..Len(vals) : want[Len(mine) + i] = vals[i]
  <2>1. Len(mine) \in Nat /\ Len(vals) \in Nat
    BY <1>3, <1>4
  <2>2. ASSUME NEW i \in 1..Len(mine) PROVE want[i] = mine[i]
    BY <1>7, <2>1
  <2>3. ASSUME NEW i \in 1..Len(vals) PROVE want[Len(mine) + i] = vals[i]
    <3>1. Len(mine) + i \in 1..Len(mine) + Len(vals) /\ ~(Len(mine) + i <= Len(mine)) /\ (Len(mine) + i) - Len(mine) = i
      BY <2>1
    <3>2. QED
      BY <1>7, <3>1
  <2>4. QED
    BY <2>1, <2>2, <2>3
<1>9. \A k \in ListIds \ {l} :
        Len(obj.want[k]) = Len(obj.at[k]) /\ \A i \in 1..Len(obj.at[k]) : obj.val[obj.at[k][i]] = obj.want[k][i]
  BY <1>2 DEF AsWanted
<1>10. /\ Len(want) = Len(obj.at[l]) + Len(vals)
       /\ \A i \in 1..Len(obj.at[l]) : obj.val[obj.at[l][i]] = want[i]
       /\ \A i \in 1..Len(vals) : want[Len(obj.at[l]) + i] = vals[i]
  BY <1>4, <1>7, <1>8
<1>11. vals \in Seq(Nat) /\ want \in Seq(Nat) /\ Cardinality(obj.heap) + Len(vals) <= MaxObjects
  BY <1>1, <1>3, <1>7
<1>12. QED
  BY ONLY <1>2, <1>6, <1>9, <1>10, <1>11, PushedKeeps

LEMMA MoveAssignStep ==
  ASSUME ListInv(obj), NEW l \in ListIds, NEW m \in ListIds, listMoveAssign(l, m)
  PROVE  ListInv(obj')
<1> DEFINE at == obj.at[m]
           want == obj.want[m]
           ats == [k \in ListIds |-> IF k = l THEN at ELSE <<>>]
           wants == [k \in ListIds |-> IF k = l THEN want ELSE <<>>]
           lost == obj.lost \union Range(obj.at[l])
<1>1. ~obj.self /\ l # m
  BY DEF listMoveAssign, ListAt
<1>2. obj \in ListState /\ Apart(obj) /\ AsWanted(obj)
  BY <1>1 DEF ListInv
<1>3. \A k \in ListIds : k = l \/ k = m
  BY <1>1 DEF ListIds
<1>4. obj' = [obj EXCEPT !.at = ats, !.lost = lost, !.want = wants]
  BY DEF listMoveAssign
<1>5. /\ at \in Seq(ElementIds) /\ want \in Seq(Nat) /\ Len(want) = Len(at)
      /\ \A i \in 1..Len(at) : obj.val[at[i]] = want[i]
      /\ obj.heap \subseteq ElementIds /\ obj.lost \subseteq obj.heap
  BY <1>1, OneListIs
<1>6. \A x : x \in Range(obj.at[l]) <=> InList(obj, l, x)
  <2>1. DOMAIN obj.at[l] = 1..Len(obj.at[l])
    BY <1>2 DEF ListState
  <2>2. QED
    BY <2>1 DEF Range, InList
<1>7. /\ ats \in [ListIds -> Seq(ElementIds)] /\ wants \in [ListIds -> Seq(Nat)]
      /\ ats[l] = at /\ wants[l] = want /\ ats[m] = <<>> /\ wants[m] = <<>>
  BY <1>1, <1>5
<1>8. lost \subseteq obj.heap
  <2>1. ASSUME NEW x \in Range(obj.at[l]) PROVE x \in obj.heap
    <3>1. PICK i \in 1..Len(obj.at[l]) : obj.at[l][i] = x
      BY <1>6 DEF InList
    <3>2. QED
      BY <1>2, <3>1 DEF Apart
  <2>2. QED
    BY <1>5, <2>1
<1>9. \A i \in 1..Len(at) : at[i] \in obj.heap /\ at[i] \notin lost
  <2>1. ASSUME NEW i \in 1..Len(at) PROVE at[i] \in obj.heap /\ at[i] \notin obj.lost /\ ~InList(obj, l, at[i])
    BY <1>1, <1>2 DEF Apart, InList
  <2>2. QED
    BY <1>6, <2>1
<1>10. \A x \in obj.heap : x \in lost \/ \E i \in 1..Len(at) : at[i] = x
  <2>1. ASSUME NEW x \in obj.heap, x \notin obj.lost PROVE InList(obj, l, x) \/ \E i \in 1..Len(at) : at[i] = x
    <3>1. PICK k \in ListIds : \E i \in 1..Len(obj.at[k]) : obj.at[k][i] = x
      BY <1>2, <2>1 DEF Apart
    <3>2. QED
      BY <1>3, <3>1 DEF InList
  <2>2. QED
    BY <1>6, <2>1
<1>11. \A i, j \in 1..Len(at) : at[i] = at[j] => i = j
  BY <1>2 DEF Apart
<1> HIDE DEF at, want, ats, wants, lost
<1>12. obj' \in ListState
  <2>1. lost \in SUBSET ElementIds
    BY <1>5, <1>8
  <2>2. QED
    BY <1>2, <1>4, <1>7, <2>1 DEF ListState
<1>13. /\ obj'.heap = obj.heap /\ obj'.val = obj.val /\ obj'.at = ats /\ obj'.lost = lost /\ obj'.want = wants
  BY <1>2, <1>4 DEF ListState
<1>14. Len(ats[m]) = 0 /\ Len(wants[m]) = 0
  BY <1>7
<1>15. Apart(obj')
  <2> DEFINE heap == obj.heap
  <2>1. ASSUME NEW k \in ListIds, NEW h \in ListIds, NEW i \in 1..Len(ats[k]), NEW j \in 1..Len(ats[h]),
               ats[k][i] = ats[h][j]
        PROVE  k = h /\ i = j
    <3>1. k = l /\ h = l
      BY <1>3, <1>14
    <3>2. QED
      BY <1>7, <1>11, <2>1, <3>1
  <2>2. ASSUME NEW k \in ListIds, NEW i \in 1..Len(ats[k]) PROVE ats[k][i] \in obj.heap /\ ats[k][i] \notin lost
    <3>1. k = l
      BY <1>3, <1>14
    <3>2. QED
      BY <1>7, <1>9, <3>1
  <2>3. ASSUME NEW x \in obj.heap PROVE x \in lost \/ \E k \in ListIds : \E i \in 1..Len(ats[k]) : ats[k][i] = x
    BY <1>7, <1>10
  <2>4. QED
    BY <1>8, <1>13, <2>1, <2>2, <2>3 DEF Apart
<1>16. AsWanted(obj')
  <2>1. ASSUME NEW k \in ListIds
        PROVE  Len(wants[k]) = Len(ats[k]) /\ \A i \in 1..Len(ats[k]) : obj.val[ats[k][i]] = wants[k][i]
    <3>1. CASE k = l
      BY <1>5, <1>7, <3>1
    <3>2. CASE k = m
      BY <1>14, <3>2
    <3>3. QED
      BY <1>3, <3>1, <3>2
  <2>2. QED
    BY <1>13, <2>1 DEF AsWanted
<1>17. QED
  BY <1>12, <1>15, <1>16 DEF ListInv

LEMMA SwappedIs ==
  ASSUME NEW Codom, NEW s \in Seq(Codom), NEW h \in 1..Len(s), NEW k \in 1..Len(s)
  PROVE  /\ [s EXCEPT ![h] = s[k], ![k] = s[h]] \in Seq(Codom)
         /\ Len([s EXCEPT ![h] = s[k], ![k] = s[h]]) = Len(s)
         /\ \A i \in 1..Len(s) :
              [s EXCEPT ![h] = s[k], ![k] = s[h]][i] = s[IF i = h THEN k ELSE IF i = k THEN h ELSE i]
  OBVIOUS

LEMMA SwapStep ==
  ASSUME ListInv(obj), NEW l \in ListIds, NEW h \in Nat, NEW k \in Nat, listSwap(l, h, k)
  PROVE  ListInv(obj')
<1> DEFINE old == obj.at[l]
           olds == obj.want[l]
           n == Len(old)
           at == [old EXCEPT ![h] = old[k], ![k] = old[h]]
           want == [olds EXCEPT ![h] = olds[k], ![k] = olds[h]]
           twin(i) == IF i = h THEN k ELSE IF i = k THEN h ELSE i
           heap == obj.heap
           val == obj.val
<1>1. ~obj.self
  BY DEF listSwap, ListAt
<1>2. obj \in ListState
  BY DEF ListInv
<1>3. /\ old \in Seq(ElementIds) /\ olds \in Seq(Nat) /\ Len(olds) = n
      /\ heap \subseteq ElementIds /\ val \in [ElementIds -> Nat] /\ obj.lost \subseteq heap
      /\ \A i, j \in 1..n : old[i] = old[j] => i = j
      /\ \A i \in 1..n : old[i] \in heap /\ old[i] \notin obj.lost /\ val[old[i]] = olds[i]
      /\ \A x \in heap : x \in obj.lost \/ InList(obj, l, x) \/ x \in Others(obj, l)
  BY <1>1, OneListIs
<1>4. h \in 1..n /\ k \in 1..n /\ h # k
  <2>1. h \in 1..Len(obj.at[l]) /\ k \in 1..Len(obj.at[l]) /\ h # k
    BY DEF listSwap
  <2>2. QED
    BY <2>1
<1>5. obj' = Relist(obj, l, heap, val, at, obj.lost, want, obj.self)
  BY <1>2 DEF listSwap, ListState, Relist
<1>6. at \in Seq(ElementIds) /\ Len(at) = n /\ \A i \in 1..n : at[i] = old[twin(i)]
  <2> HIDE DEF old
  <2>1. at \in Seq(ElementIds) /\ Len(at) = Len(old) /\ \A i \in 1..Len(old) : at[i] = old[twin(i)]
    BY <1>3, <1>4, SwappedIs
  <2>2. QED
    BY <2>1
<1>7. want \in Seq(Nat) /\ Len(want) = n /\ \A i \in 1..n : want[i] = olds[twin(i)]
  <2> HIDE DEF olds
  <2> DEFINE nat == Nat
  <2>fst. olds \in Seq(nat) /\ h \in 1..Len(olds) /\ k \in 1..Len(olds)
    BY <1>3, <1>4
  <2> HIDE DEF nat
  <2>snd. want \in Seq(nat) /\ Len(want) = Len(olds) /\ \A i \in 1..Len(olds) : want[i] = olds[twin(i)]
    BY <2>fst, SwappedIs
  <2>1. want \in Seq(Nat) /\ Len(want) = Len(olds) /\ \A i \in 1..Len(olds) : want[i] = olds[twin(i)]
    BY <2>snd DEF nat
  <2>2. QED
    BY <1>3, <2>1
<1>8. \A i \in 1..n : twin(i) \in 1..n /\ twin(twin(i)) = i
  BY <1>4
<1>9. \A x : InList(obj, l, x) <=> \E i \in 1..n : old[i] = x
  BY DEF InList
<1> HIDE DEF at, want, old, olds, heap, val, twin, n
<1>10. OnlyList(obj, l, heap, val, at, obj.lost, want, obj.self)
  <2>1. /\ heap \in SUBSET ElementIds /\ val \in [ElementIds -> Nat] /\ at \in Seq(ElementIds)
        /\ obj.lost \subseteq heap /\ want \in Seq(Nat) /\ obj.self \in BOOLEAN
    BY <1>2, <1>3, <1>6, <1>7 DEF ListState
  <2>2. ASSUME NEW i \in 1..Len(at), NEW j \in 1..Len(at), at[i] = at[j] PROVE i = j
    <3>1. old[twin(i)] = old[twin(j)] /\ twin(i) \in 1..n /\ twin(j) \in 1..n
      BY <1>6, <1>8, <2>2
    <3>2. twin(i) = twin(j)
      BY <1>3, <3>1
    <3>3. QED
      BY <1>6, <1>8, <3>2
  <2>3. ASSUME NEW i \in 1..Len(at) PROVE at[i] \in heap /\ at[i] \notin obj.lost /\ InList(obj, l, at[i])
    <3>1. at[i] = old[twin(i)] /\ twin(i) \in 1..n
      BY <1>6, <1>8
    <3>2. QED
      BY <1>3, <1>9, <3>1
  <2>4. \A x \in Others(obj, l) : x \in heap /\ x \notin obj.lost /\ val[x] = obj.val[x]
    BY DEF Others, heap, val
  <2>5. ASSUME NEW x \in heap PROVE x \in obj.lost \/ (\E i \in 1..Len(at) : at[i] = x) \/ x \in Others(obj, l)
    <3>1. ASSUME NEW i \in 1..n PROVE \E j \in 1..Len(at) : at[j] = old[i]
      BY <1>6, <1>8
    <3>2. InList(obj, l, x) => \E i \in 1..Len(at) : at[i] = x
      BY <1>9, <3>1
    <3>3. QED
      BY <1>3, <3>2
  <2>6. Len(want) = Len(at)
    BY <1>6, <1>7
  <2>7. ASSUME NEW i \in 1..Len(at) PROVE val[at[i]] = want[i]
    <3>1. i \in 1..n /\ at[i] = old[twin(i)] /\ want[i] = olds[twin(i)] /\ twin(i) \in 1..n
      BY <1>6, <1>7, <1>8
    <3>2. QED
      BY <1>3, <3>1
  <2>8. QED
    BY <2>1, <2>2, <2>3, <2>4, <2>5, <2>6, <2>7 DEF OnlyList
<1>11. ListInv(obj) /\ l \in ListIds
  OBVIOUS
<1>12. QED
  BY ONLY <1>1, <1>5, <1>10, <1>11, OneList

LEMMA SortStep ==
  ASSUME ListInv(obj), NEW l \in ListIds, listSort(l)
  PROVE  ListInv(obj')
<1> DEFINE at == obj.at[l]
           olds == obj.want[l]
           n == Len(at)
           heap == obj.heap
<1>1. ~obj.self
  BY DEF listSort, ListAt
<1>2. obj \in ListState
  BY DEF ListInv
<1>3. /\ at \in Seq(ElementIds) /\ olds \in Seq(Nat) /\ Len(olds) = n
      /\ heap \subseteq ElementIds /\ obj.val \in [ElementIds -> Nat] /\ obj.lost \subseteq heap
      /\ \A i, j \in 1..n : at[i] = at[j] => i = j
      /\ \A i \in 1..n : at[i] \in heap /\ at[i] \notin obj.lost /\ obj.val[at[i]] = olds[i]
      /\ \A x \in heap : x \in obj.lost \/ InList(obj, l, x) \/ x \in Others(obj, l)
  BY <1>1, OneListIs
<1>4. DOMAIN at = 1..n /\ n \in Nat
  BY <1>3
<1>5. PICK p \in Bijection(1..n, 1..n) :
        obj' = [obj EXCEPT !.val = Holders(@, at, [i \in DOMAIN p |-> Vals(l)[p[i]]]),
                           !.want[l] = [i \in DOMAIN p |-> obj.want[l][p[i]]]]
  BY <1>4 DEF listSort
<1>6. p \in [1..n -> 1..n]
  BY <1>5 DEF Bijection, Injection
<1> DEFINE want == [i \in 1..n |-> olds[p[i]]]
           val == Holders(obj.val, at, want)
<1>7. Vals(l) = olds
  BY <1>1, WantedVals
<1>8. [i \in DOMAIN p |-> Vals(l)[p[i]]] = want /\ [i \in DOMAIN p |-> obj.want[l][p[i]]] = want
  BY <1>6, <1>7
<1>9. obj' = [obj EXCEPT !.val = val, !.want[l] = want]
  BY <1>5, <1>8
<1> HIDE DEF olds
<1>10. want \in [1..n -> Nat]
  <2>1. \A i \in 1..n : olds[i] \in Nat
    BY <1>3
  <2>2. QED
    BY <1>6, <2>1
<1> HIDE DEF want, n
<1>11. want \in Seq(Nat) /\ Len(want) = n
  BY <1>4, <1>10
<1>12. /\ val \in [ElementIds -> Nat]
       /\ \A i \in 1..n : val[at[i]] = want[i]
       /\ \A e \in ElementIds : (\A i \in 1..n : at[i] # e) => val[e] = obj.val[e]
  <2> DEFINE v == obj.val
  <2>1. v \in [ElementIds -> Nat] /\ n = Len(at) /\ at \in Seq(ElementIds)
    BY <1>3 DEF n
  <2>2. \A i, j \in 1..Len(at) : at[i] = at[j] => i = j
    BY <1>3, <2>1
  <2>3. Len(want) = Len(at)
    BY <1>11, <2>1
  <2> HIDE DEF v, at
  <2>4. /\ Holders(v, at, want) \in [ElementIds -> Nat]
        /\ \A i \in 1..Len(at) : Holders(v, at, want)[at[i]] = want[i]
        /\ \A e \in ElementIds : (\A i \in 1..Len(at) : at[i] # e) => Holders(v, at, want)[e] = v[e]
    BY ONLY <1>11, <2>1, <2>2, <2>3, HoldersAre
  <2>5. QED
    BY <2>1, <2>4 DEF v
<1> HIDE DEF val
<1>13. obj' = Relist(obj, l, heap, val, at, obj.lost, want, obj.self)
  BY <1>2, <1>9 DEF ListState, Relist
<1>14. \A x : InList(obj, l, x) <=> \E i \in 1..n : at[i] = x
  BY DEF InList, n
<1>15. n = Len(at)
  BY DEF n
<1> HIDE DEF at, heap
<1>16. OnlyList(obj, l, heap, val, at, obj.lost, want, obj.self)
  <2>1. /\ heap \in SUBSET ElementIds /\ val \in [ElementIds -> Nat] /\ at \in Seq(ElementIds)
        /\ obj.lost \subseteq heap /\ want \in Seq(Nat) /\ obj.self \in BOOLEAN
    BY <1>2, <1>3, <1>11, <1>12 DEF ListState
  <2>2. \A i, j \in 1..Len(at) : at[i] = at[j] => i = j
    BY <1>3, <1>15
  <2>3. \A i \in 1..Len(at) : at[i] \in heap /\ at[i] \notin obj.lost /\ InList(obj, l, at[i])
    BY <1>3, <1>14, <1>15
  <2>4. ASSUME NEW x \in Others(obj, l) PROVE x \in heap /\ x \notin obj.lost /\ val[x] = obj.val[x]
    <3>1. x \in heap /\ x \notin obj.lost /\ ~InList(obj, l, x)
      BY DEF Others, heap
    <3>2. x \in ElementIds /\ \A i \in 1..n : at[i] # x
      BY <1>3, <1>14, <3>1
    <3>3. QED
      BY <1>12, <3>1, <3>2
  <2>5. \A x \in heap : x \in obj.lost \/ (\E i \in 1..Len(at) : at[i] = x) \/ x \in Others(obj, l)
    BY <1>3, <1>14, <1>15
  <2>6. Len(want) = Len(at) /\ \A i \in 1..Len(at) : val[at[i]] = want[i]
    BY <1>11, <1>12, <1>15
  <2>7. QED
    BY <2>1, <2>2, <2>3, <2>4, <2>5, <2>6 DEF OnlyList
<1>17. ListInv(obj) /\ l \in ListIds
  OBVIOUS
<1>18. QED
  BY ONLY <1>1, <1>13, <1>16, <1>17, OneList

LEMMA ListInvStep == ListInv(obj) /\ PtrListNext => ListInv(obj')
<1> SUFFICES ASSUME ListInv(obj), NEW l \in ListIds,
                    \/ \E i \in 0..MaxObjects : \/ \E v \in {1, 2} : listInsert(l, i, v)
                                                \/ listErase(l, i)
                                                \/ \E j \in 1..MaxObjects : listSwap(l, i, j)
                    \/ listClear(l) \/ listSort(l)
                    \/ \E m \in ListIds : listAssign(l, m) \/ listMoveAssign(l, m) \/ listConcat(l, m)
             PROVE  ListInv(obj')
  BY DEF PtrListNext
<1>1. MaxObjects \in Nat
  BY BuffersAssumption
<1>2. ASSUME NEW i \in 0..MaxObjects, NEW v \in {1, 2}, listInsert(l, i, v) PROVE ListInv(obj')
  <2>1. i \in Nat /\ v \in Nat
    BY <1>1
  <2>2. QED
    BY <1>2, <2>1, InsertStep
<1>3. ASSUME NEW i \in 0..MaxObjects, listErase(l, i) PROVE ListInv(obj')
  <2>1. i \in Nat
    BY <1>1
  <2>2. QED
    BY <1>3, <2>1, EraseStep
<1>4. ASSUME NEW i \in 0..MaxObjects, NEW j \in 1..MaxObjects, listSwap(l, i, j) PROVE ListInv(obj')
  <2>1. i \in Nat /\ j \in Nat
    BY <1>1
  <2>2. QED
    BY <1>4, <2>1, SwapStep
<1>5. CASE listClear(l)
  BY <1>5, ListClearStep
<1>6. CASE listSort(l)
  BY <1>6, SortStep
<1>7. ASSUME NEW m \in ListIds, listAssign(l, m) PROVE ListInv(obj')
  BY <1>7, ListAssignStep
<1>8. ASSUME NEW m \in ListIds, listMoveAssign(l, m) PROVE ListInv(obj')
  BY <1>8, MoveAssignStep
<1>9. ASSUME NEW m \in ListIds, listConcat(l, m) PROVE ListInv(obj')
  BY <1>9, ConcatStep
<1>10. QED
  BY <1>2, <1>3, <1>4, <1>5, <1>6, <1>7, <1>8, <1>9

-----------------------------------------------------------------------------
(* AdoConnection.  What the connection has kept of a data base is of the    *)
(* one it is connected to, unless it was assigned another.                  *)
AdoNames == [letter : {"", "t", "u", "v", "w"}, capital : BOOLEAN]
AdoKeys == {"k", "l"}
AdoInfos == [name : AdoNames, schema : {"", "me", "you"}, keys : SUBSET AdoKeys, columns : BOOLEAN]
AdoProperties == [oracle : BOOLEAN, usage : {0, 1}]
PropertiesOf(db) == [oracle |-> db.oracle, usage |-> db.usage]
AdoState ==
  [db : Databases, cached : SUBSET AdoProperties, exact : BOOLEAN, given : BOOLEAN, stale : BOOLEAN,
   asked : AdoNames, one : AdoInfos, names : SUBSET AdoNames, all : SUBSET AdoInfos, calls : Nat]
TablesOf(db) == {t \in db.tables : t.type = "TABLE" /\ (db.oracle => t.schema = "me")}
AllFit(o) ==
  /\ o.names = {t.name : t \in TablesOf(o.db)} /\ {i.name : i \in o.all} = o.names
  /\ \A i \in o.all : \E t \in TablesOf(o.db) : t.name = i.name /\ t.schema = i.schema /\ t.keys = i.keys
OneFits(o) ==
  /\ o.one # NoTableInfo =>
       \E t \in TablesOf(o.db) : t.name = o.one.name /\ t.schema = o.one.schema /\ t.keys = o.one.keys
  /\ o.one = NoTableInfo <=>
       ~\E t \in TablesOf(o.db) : ToUpper(t.name) = ToUpper(o.asked) /\ (o.exact => t.name.capital)
  /\ o.one.columns <=> o.one # NoTableInfo /\ o.asked.capital
Fresh(o) == ~o.stale => \A c \in o.cached : c = PropertiesOf(o.db)
AdoInv(o) ==
  /\ o \in AdoState /\ Fresh(o)
  /\ o.given /\ ~o.stale => IF o.asked = NoName THEN AllFit(o) ELSE OneFits(o)

LEMMA AdoHeld == AdoInv(obj) => AdoExact
<1> SUFFICES ASSUME AdoInv(obj), obj.given, ~obj.stale PROVE AdoExact
  BY DEF AdoExact
<1>1. TablesOf(obj.db) = {t \in obj.db.tables : t.type = "TABLE" /\ (obj.db.oracle => t.schema = "me")}
  BY DEF TablesOf
<1>2. CASE obj.asked = NoName
  <2>1. AllFit(obj)
    BY <1>2 DEF AdoInv
  <2>2. QED
    BY <1>1, <1>2, <2>1 DEF AllFit, AdoExact
<1>3. CASE obj.asked # NoName
  <2>1. OneFits(obj)
    BY <1>3 DEF AdoInv
  <2>2. QED
    BY <1>1, <1>3, <2>1 DEF OneFits, AdoExact
<1>4. QED
  BY <1>2, <1>3

\* The tables there are.
LEMMA TableFields ==
  ASSUME NEW schema, NEW name, NEW type, NEW keys
  PROVE  /\ AdoTable(schema, name, type, keys).schema = schema /\ AdoTable(schema, name, type, keys).name = name
         /\ AdoTable(schema, name, type, keys).type = type /\ AdoTable(schema, name, type, keys).keys = keys
  BY DEF AdoTable

LEMMA TableIs ==
  ASSUME NEW t \in AdoTables
  PROVE  /\ t.name \in AdoNames /\ t.name.letter \in {"t", "u", "v"} /\ t.schema \in {"me", "you"}
         /\ t.keys \in SUBSET AdoKeys /\ t.type \in {"TABLE", "VIEW"}
<1>1. \A c \in BOOLEAN, l \in {"t", "u", "v"} : TableName(l, c) \in AdoNames /\ TableName(l, c).letter = l
  BY DEF TableName, AdoNames
<1>2. PICK schema \in {"me", "you"}, l \in {"t", "u", "v"}, c \in BOOLEAN, type \in {"TABLE", "VIEW"}, keys \in SUBSET AdoKeys :
        t = AdoTable(schema, TableName(l, c), type, keys)
  BY DEF AdoTables, AdoKeys
<1>3. /\ t.schema = schema /\ t.name = TableName(l, c) /\ t.type = type /\ t.keys = keys
  BY <1>2, TableFields
<1>4. QED
  BY <1>1, <1>3

LEMMA TableOnce ==
  ASSUME NEW t \in AdoTables, NEW u \in AdoTables, t.name = u.name, t.schema = u.schema
  PROVE  t = u
  BY DEF AdoTables, AdoTable, TableName

LEMMA DatabaseIs ==
  ASSUME NEW db \in Databases
  PROVE  /\ db.oracle \in BOOLEAN /\ db.usage \in {0, 1} /\ db.tables \subseteq AdoTables
         /\ (db.usage > 0 <=> db.oracle)
<1>1. db = Database(TRUE, 1, AdoTables) \/ db = Database(FALSE, 0, {u \in AdoTables : u.schema = "me"})
  BY DEF Databases
<1>2. db.tables = AdoTables \/ db.tables = {u \in AdoTables : u.schema = "me"}
  BY <1>1 DEF Database
<1>3. db.tables \subseteq AdoTables
  BY <1>2
<1>4. (db.oracle = TRUE /\ db.usage = 1) \/ (db.oracle = FALSE /\ db.usage = 0)
  BY <1>1 DEF Database
<1>5. CASE db.oracle = TRUE /\ db.usage = 1
  <2>1. db.oracle /\ db.oracle \in BOOLEAN
    BY <1>5
  <2>2. db.usage > 0 /\ db.usage \in {0, 1}
    BY <1>5
  <2>3. QED
    BY <1>3, <2>1, <2>2
<1>6. CASE db.oracle = FALSE /\ db.usage = 0
  <2>1. ~db.oracle /\ db.oracle \in BOOLEAN
    BY <1>6
  <2>2. ~(db.usage > 0) /\ db.usage \in {0, 1}
    BY <1>6
  <2>3. QED
    BY <1>3, <2>1, <2>2
<1>7. QED
  BY <1>4, <1>5, <1>6

LEMMA UpperIs ==
  ASSUME NEW n \in AdoNames
  PROVE  /\ ToUpper(n) \in AdoNames /\ ToUpper(n).letter = n.letter /\ ToUpper(n).capital
         /\ (ToUpper(n) = n <=> n.capital) /\ ToUpper(ToUpper(n)) = ToUpper(n)
<1>1. ToUpper(n) \in AdoNames
  BY DEF ToUpper, AdoNames
<1>2. ToUpper(n).letter = n.letter
  BY DEF ToUpper, AdoNames
<1>3. ToUpper(n).capital = TRUE
  BY DEF ToUpper, AdoNames
<1>4. n.capital => ToUpper(n) = n
  <2>1. SUFFICES ASSUME n.capital PROVE ToUpper(n) = n
    OBVIOUS
  <2>2. n.capital = TRUE
    BY <2>1 DEF AdoNames
  <2>3. QED
    BY <2>2 DEF ToUpper, AdoNames
<1>5. ToUpper(n) = n => n.capital
  BY <1>3
<1>6. ToUpper(ToUpper(n)) = ToUpper(n)
  BY DEF ToUpper, AdoNames
<1>7. QED
  BY <1>1, <1>2, <1>3, <1>4, <1>5, <1>6

LEMMA NoNameIs == NoName \in AdoNames /\ NoName.letter = "" /\ NoTableInfo \in AdoInfos /\ NoTableInfo.name = NoName
  BY DEF NoName, TableName, AdoNames, NoTableInfo, AdoInfos

\* What the provider gives, of a data base it knows.
LEMMA RowsAre ==
  ASSUME NEW o \in AdoState, Fresh(o), ~o.stale
  PROVE  {t \in Rows(o) : t.type = "TABLE"} = TablesOf(o.db)
<1>1. o.db \in Databases
  BY DEF AdoState
<1>2. \A c \in Properties(o) : c = PropertiesOf(o.db)
  BY DEF Properties, Fresh, PropertiesOf
<1>3. Properties(o) # {}
  BY DEF Properties
<1>4. PropertiesOf(o.db).oracle = o.db.oracle /\ PropertiesOf(o.db).usage = o.db.usage
  BY DEF PropertiesOf
<1>5. ByUser(o) <=> o.db.oracle /\ o.db.usage > 0
  BY <1>2, <1>3, <1>4 DEF ByUser
<1>6. ByUser(o) <=> o.db.oracle
  BY <1>1, <1>5, DatabaseIs
<1>7. QED
  BY <1>6 DEF Rows, TablesOf

LEMMA KeptProperties ==
  ASSUME NEW o \in AdoState, Fresh(o)
  PROVE  Properties(o) \in SUBSET AdoProperties /\ (~o.stale => \A c \in Properties(o) : c = PropertiesOf(o.db))
<1>1. o.db \in Databases /\ o.cached \in SUBSET AdoProperties
  BY DEF AdoState
<1>2. PropertiesOf(o.db) \in AdoProperties
  BY <1>1, DatabaseIs DEF PropertiesOf, AdoProperties
<1>3. QED
  BY <1>1, <1>2 DEF Properties, Fresh, PropertiesOf

LEMMA KeysOfTable ==
  ASSUME NEW o \in AdoState, NEW t \in o.db.tables
  PROVE  getPrimaryKeys(o, t) = t.keys
<1>1. o.db.tables \subseteq AdoTables
  BY DatabaseIs DEF AdoState
<1>2. {u \in o.db.tables : u.name = t.name /\ u.schema = t.schema} = {t}
  BY <1>1, TableOnce
<1>3. {u.keys : u \in {t}} = {t.keys}
  OBVIOUS
<1>4. getPrimaryKeys(o, t) = UNION {t.keys}
  BY <1>2, <1>3 DEF getPrimaryKeys
<1>5. QED
  BY <1>4

LEMMA InfoIs ==
  ASSUME NEW o \in AdoState, NEW t \in o.db.tables, NEW columns \in BOOLEAN
  PROVE  /\ InfoOf(o, t, columns) \in AdoInfos
         /\ InfoOf(o, t, columns).name = t.name /\ InfoOf(o, t, columns).schema = t.schema
         /\ InfoOf(o, t, columns).keys = t.keys /\ (InfoOf(o, t, columns).columns <=> columns)
         /\ InfoOf(o, t, columns) # NoTableInfo
<1>1. t \in AdoTables
  BY DatabaseIs DEF AdoState
<1>2. InfoOf(o, t, columns) = [name |-> t.name, schema |-> t.schema, keys |-> t.keys, columns |-> columns]
  BY KeysOfTable DEF InfoOf
<1>3. /\ t.name \in AdoNames /\ t.name.letter \in {"t", "u", "v"} /\ t.schema \in {"me", "you"}
      /\ t.keys \in SUBSET AdoKeys
  BY <1>1, TableIs
<1>4. InfoOf(o, t, columns) \in AdoInfos
  <2>1. t.schema \in {"", "me", "you"}
    BY <1>3
  <2>2. ASSUME NEW name \in AdoNames, NEW schema \in {"", "me", "you"}, NEW keys \in SUBSET AdoKeys
        PROVE  [name |-> name, schema |-> schema, keys |-> keys, columns |-> columns] \in AdoInfos
    BY DEF AdoInfos
  <2>3. QED
    BY <1>2, <1>3, <2>1, <2>2
<1>5. t.name # NoName
  BY <1>3, NoNameIs
<1>6. InfoOf(o, t, columns) # NoTableInfo
  <2>1. InfoOf(o, t, columns).name = t.name
    BY <1>2
  <2>2. QED
    BY <1>5, <2>1, NoNameIs
<1>7. InfoOf(o, t, columns).columns <=> columns
  BY <1>2
<1>8. QED
  BY <1>2, <1>4, <1>6, <1>7

LEMMA AdoInvInit == AdoInit => AdoInv(obj)
<1> SUFFICES ASSUME NEW db \in Databases, NEW exact \in BOOLEAN,
                    obj = [db |-> db, cached |-> {}, exact |-> exact, given |-> FALSE, stale |-> FALSE,
                           asked |-> NoName, one |-> NoTableInfo, names |-> {}, all |-> {}, calls |-> 0]
             PROVE  AdoInv(obj)
  BY DEF AdoInit
<1>1. obj \in AdoState
  BY NoNameIs DEF AdoState
<1>2. obj.cached = {} /\ ~obj.given
  OBVIOUS
<1>3. QED
  BY <1>1, <1>2 DEF AdoInv, Fresh

LEMMA AdoStep == AdoInv(obj) /\ AdoNext => AdoInv(obj')
<1> SUFFICES ASSUME AdoInv(obj), AdoNext PROVE AdoInv(obj')
  OBVIOUS
<1>1. obj \in AdoState /\ Fresh(obj) /\ obj.calls + 1 \in Nat
  BY DEF AdoInv, AdoState
<1>2. CASE adoOpen
  <2>1. PICK db \in Databases :
          obj' = [obj EXCEPT !.db = db, !.cached = {}, !.given = FALSE, !.stale = FALSE, !.calls = @ + 1]
    BY <1>2 DEF adoOpen
  <2>2. obj' \in AdoState
    BY <1>1, <2>1 DEF AdoState
  <2>3. obj'.cached = {} /\ ~obj'.given
    BY <1>1, <2>1 DEF AdoState
  <2>4. QED
    BY <2>2, <2>3 DEF AdoInv, Fresh
<1>3. CASE adoAssign
  <2>1. PICK db \in Databases :
          obj' = [obj EXCEPT !.db = db, !.given = FALSE, !.calls = @ + 1,
                             !.stale = \E c \in obj.cached : [oracle |-> db.oracle, usage |-> db.usage] # c]
    BY <1>3 DEF adoAssign
  <2> DEFINE stale == \E c \in obj.cached : PropertiesOf(db) # c
  <2>2. obj' = [obj EXCEPT !.db = db, !.given = FALSE, !.calls = @ + 1, !.stale = stale]
    BY <2>1 DEF PropertiesOf
  <2>3. stale \in BOOLEAN /\ (~stale => \A c \in obj.cached : c = PropertiesOf(db))
    OBVIOUS
  <2> HIDE DEF stale
  <2>4. obj' \in AdoState
    BY <1>1, <2>2, <2>3 DEF AdoState
  <2>5. obj'.cached = obj.cached /\ ~obj'.given /\ obj'.db = db
    BY <1>1, <2>2 DEF AdoState
  <2>6. obj'.stale <=> stale
    BY <1>1, <2>2, <2>3 DEF AdoState
  <2>7. QED
    BY <2>3, <2>4, <2>5, <2>6 DEF AdoInv, Fresh
<1>4. CASE adoTables
  <2>1. PICK pick \in Chosen(obj) :
          obj' = [obj EXCEPT !.cached = Properties(obj), !.given = TRUE, !.calls = @ + 1, !.asked = NoName,
                             !.one = NoTableInfo, !.names = getTableNames(obj),
                             !.all = {InfoOf(obj, pick[n], FALSE) : n \in DOMAIN pick}]
    BY <1>4 DEF adoTables
  <2> DEFINE names == getTableNames(obj)
             all == {InfoOf(obj, pick[n], FALSE) : n \in DOMAIN pick}
             props == Properties(obj)
  <2>2. /\ DOMAIN pick = names
        /\ \A n \in names : pick[n] \in Rows(obj) /\ pick[n].name = n /\ pick[n].type = "TABLE"
    BY DEF Chosen
  <2>3. Rows(obj) \subseteq obj.db.tables /\ obj.db.tables \subseteq AdoTables
    BY <1>1, DatabaseIs DEF Rows, AdoState
  <2>4. names \in SUBSET AdoNames
    BY <2>3, TableIs DEF getTableNames
  <2>5. \A n \in names : /\ InfoOf(obj, pick[n], FALSE) \in AdoInfos /\ InfoOf(obj, pick[n], FALSE).name = n
                         /\ InfoOf(obj, pick[n], FALSE).schema = pick[n].schema
                         /\ InfoOf(obj, pick[n], FALSE).keys = pick[n].keys
    <3> SUFFICES ASSUME NEW n \in names
                 PROVE  /\ InfoOf(obj, pick[n], FALSE) \in AdoInfos /\ InfoOf(obj, pick[n], FALSE).name = n
                        /\ InfoOf(obj, pick[n], FALSE).schema = pick[n].schema
                        /\ InfoOf(obj, pick[n], FALSE).keys = pick[n].keys
      OBVIOUS
    <3> DEFINE u == pick[n]
    <3>1. u \in obj.db.tables /\ u.name = n
      BY <2>2, <2>3
    <3> HIDE DEF u
    <3>2. /\ InfoOf(obj, u, FALSE) \in AdoInfos /\ InfoOf(obj, u, FALSE).name = u.name
          /\ InfoOf(obj, u, FALSE).schema = u.schema /\ InfoOf(obj, u, FALSE).keys = u.keys
      BY <1>1, <3>1, InfoIs
    <3>3. QED
      BY <3>1, <3>2 DEF u
  <2>6. all \in SUBSET AdoInfos /\ {i.name : i \in all} = names
    <3> DEFINE info(n) == InfoOf(obj, pick[n], FALSE)
    <3>1. \A n \in names : info(n) \in AdoInfos /\ info(n).name = n
      BY <2>5
    <3>2. all = {info(n) : n \in names}
      BY <2>2
    <3> HIDE DEF info, names, all
    <3>3. all \in SUBSET AdoInfos
      BY <3>1, <3>2
    <3>4. \A i \in all : i.name \in names
      BY <3>1, <3>2
    <3>5. \A n \in names : info(n) \in all /\ info(n).name = n
      BY <3>1, <3>2
    <3>6. QED
      BY <3>3, <3>4, <3>5
  <2>7. props \in SUBSET AdoProperties /\ (~obj.stale => \A c \in props : c = PropertiesOf(obj.db))
    BY <1>1, KeptProperties
  <2>8. ASSUME ~obj.stale
        PROVE  /\ names = {t.name : t \in TablesOf(obj.db)}
               /\ \A i \in all : \E t \in TablesOf(obj.db) : t.name = i.name /\ t.schema = i.schema /\ t.keys = i.keys
    <3>1. {t \in Rows(obj) : t.type = "TABLE"} = TablesOf(obj.db)
      BY <1>1, <2>8, RowsAre
    <3>2. names = {t.name : t \in TablesOf(obj.db)}
      BY <3>1 DEF getTableNames
    <3>3. \A n \in names : pick[n] \in TablesOf(obj.db)
      BY <2>2, <3>1
    <3>4. ASSUME NEW i \in all
          PROVE  \E t \in TablesOf(obj.db) : t.name = i.name /\ t.schema = i.schema /\ t.keys = i.keys
      <4>1. PICK n \in names : i = InfoOf(obj, pick[n], FALSE)
        BY <2>2
      <4>2. i.name = n /\ i.schema = pick[n].schema /\ i.keys = pick[n].keys
        BY <2>5, <4>1
      <4>3. pick[n] \in TablesOf(obj.db) /\ pick[n].name = n
        BY <2>2, <3>3
      <4>4. QED
        BY <4>2, <4>3
    <3>5. QED
      BY <3>2, <3>4
  <2> HIDE DEF names, all, props
  <2>9. obj' = [obj EXCEPT !.cached = props, !.given = TRUE, !.calls = @ + 1, !.asked = NoName,
                           !.one = NoTableInfo, !.names = names, !.all = all]
    BY <2>1 DEF names, all, props
  <2>10. obj' \in AdoState
    BY <1>1, <2>4, <2>6, <2>7, <2>9, NoNameIs DEF AdoState
  <2>11. /\ obj'.db = obj.db /\ obj'.cached = props /\ obj'.asked = NoName /\ obj'.names = names /\ obj'.all = all
    BY <1>1, <2>9 DEF AdoState
  <2>12. obj'.stale <=> obj.stale
    BY <1>1, <2>9 DEF AdoState
  <2>13. ~obj'.stale => AllFit(obj')
    BY <2>6, <2>8, <2>11, <2>12 DEF AllFit
  <2>14. Fresh(obj')
    BY <2>7, <2>11, <2>12 DEF Fresh
  <2>15. QED
    BY <2>10, <2>11, <2>13, <2>14 DEF AdoInv
<1>5. CASE adoTable
  <2>1. PICK letter \in {"t", "u", "v", "w"}, capital \in BOOLEAN :
          LET name == TableName(letter, capital)
              found == {t \in RowsNamed(obj, ToUpper(name)) : t.type = "TABLE"}
          IN \E one \in {InfoNamed(obj, name, t) : t \in found} \union (IF found = {} THEN {NoTableInfo} ELSE {}) :
               obj' = [obj EXCEPT !.cached = Properties(obj), !.given = TRUE, !.calls = @ + 1, !.asked = name,
                                  !.one = one, !.names = {}, !.all = {}]
    BY <1>5 DEF adoTable
  <2> DEFINE name == TableName(letter, capital)
             found == {t \in RowsNamed(obj, ToUpper(name)) : t.type = "TABLE"}
             props == Properties(obj)
  <2>2. PICK one \in {InfoNamed(obj, name, t) : t \in found} \union (IF found = {} THEN {NoTableInfo} ELSE {}) :
          obj' = [obj EXCEPT !.cached = props, !.given = TRUE, !.calls = @ + 1, !.asked = name,
                             !.one = one, !.names = {}, !.all = {}]
    BY <2>1
  <2>3. name \in AdoNames /\ name # NoName
    BY DEF TableName, AdoNames, NoName
  <2>4. found \subseteq obj.db.tables /\ obj.db.tables \subseteq AdoTables
    BY <1>1, DatabaseIs DEF RowsNamed, Rows, AdoState
  <2>5. \A t : t \in found <=> /\ t \in Rows(obj) /\ t.type = "TABLE"
                              /\ IF obj.exact THEN t.name = ToUpper(name) ELSE ToUpper(t.name) = ToUpper(ToUpper(name))
    BY DEF RowsNamed
  <2>6. props \in SUBSET AdoProperties /\ (~obj.stale => \A c \in props : c = PropertiesOf(obj.db))
    BY <1>1, KeptProperties
  <2> HIDE DEF name, found, props
  <2>7. \/ found = {} /\ one = NoTableInfo
        \/ \E t \in found : one = InfoOf(obj, t, ToUpper(t.name) = name)
    BY DEF InfoNamed
  <2>8. ASSUME NEW t \in found
        PROVE  /\ InfoOf(obj, t, ToUpper(t.name) = name) \in AdoInfos /\ InfoOf(obj, t, ToUpper(t.name) = name) # NoTableInfo
               /\ InfoOf(obj, t, ToUpper(t.name) = name).name = t.name
               /\ InfoOf(obj, t, ToUpper(t.name) = name).schema = t.schema
               /\ InfoOf(obj, t, ToUpper(t.name) = name).keys = t.keys
               /\ (InfoOf(obj, t, ToUpper(t.name) = name).columns <=> ToUpper(t.name) = name)
    <3> DEFINE columns == ToUpper(t.name) = name
    <3>1. columns \in BOOLEAN /\ t \in obj.db.tables
      BY <2>4
    <3> HIDE DEF columns
    <3>2. /\ InfoOf(obj, t, columns) \in AdoInfos /\ InfoOf(obj, t, columns) # NoTableInfo
          /\ InfoOf(obj, t, columns).name = t.name
          /\ InfoOf(obj, t, columns).schema = t.schema
          /\ InfoOf(obj, t, columns).keys = t.keys
          /\ (InfoOf(obj, t, columns).columns <=> columns)
      BY <1>1, <3>1, InfoIs
    <3>3. QED
      BY <3>2 DEF columns
  <2>9. one \in AdoInfos
    BY <2>7, <2>8, NoNameIs
  <2>10. obj' \in AdoState
    BY <1>1, <2>2, <2>3, <2>6, <2>9 DEF AdoState
  <2>11. obj'.db = obj.db /\ obj'.cached = props /\ obj'.asked = name /\ obj'.one = one
    BY <1>1, <2>2 DEF AdoState
  <2>12. (obj'.stale <=> obj.stale) /\ (obj'.exact <=> obj.exact)
    BY <1>1, <2>2 DEF AdoState
  <2>13. Fresh(obj')
    BY <2>6, <2>11, <2>12 DEF Fresh
  <2>14. ASSUME ~obj.stale PROVE OneFits(obj')
    <3>1. {t \in Rows(obj) : t.type = "TABLE"} = TablesOf(obj.db)
      BY <1>1, <2>14, RowsAre
    <3>2. /\ ToUpper(name) \in AdoNames /\ ToUpper(name).letter = name.letter /\ ToUpper(name).capital
          /\ (ToUpper(name) = name <=> name.capital) /\ ToUpper(ToUpper(name)) = ToUpper(name)
      BY <2>3, UpperIs
    <3>3. ASSUME NEW t \in TablesOf(obj.db)
          PROVE  t \in found <=> ToUpper(t.name) = ToUpper(name) /\ (obj.exact => t.name.capital)
      <4>1. t.name \in AdoNames
        BY <2>4, TableIs DEF TablesOf
      <4>2. (ToUpper(t.name) = t.name <=> t.name.capital) /\ ToUpper(ToUpper(t.name)) = ToUpper(t.name)
        BY <4>1, UpperIs
      <4>3. t.name = ToUpper(name) <=> ToUpper(t.name) = ToUpper(name) /\ t.name.capital
        BY <3>2, <4>2
      <4>4. QED
        BY <2>5, <3>1, <3>2, <4>3
    <3>4. \A t \in found : t \in TablesOf(obj.db)
      BY <2>5, <3>1
    <3>5. one = NoTableInfo <=> found = {}
      BY <2>7, <2>8
    <3>6. one = NoTableInfo <=> ~\E t \in TablesOf(obj.db) : ToUpper(t.name) = ToUpper(name) /\ (obj.exact => t.name.capital)
      BY <3>3, <3>4, <3>5
    <3>7. one # NoTableInfo =>
            \E t \in TablesOf(obj.db) : t.name = one.name /\ t.schema = one.schema /\ t.keys = one.keys
      BY <2>7, <2>8, <3>4
    <3>8. one.columns <=> one # NoTableInfo /\ name.capital
      <4>1. CASE one = NoTableInfo
        BY <4>1 DEF NoTableInfo
      <4>2. CASE one # NoTableInfo
        <5>1. PICK t \in found : one = InfoOf(obj, t, ToUpper(t.name) = name)
          BY <2>7, <4>2
        <5>2. one.columns <=> ToUpper(t.name) = name
          BY <2>8, <5>1
        <5>3. ToUpper(t.name) = ToUpper(name)
          BY <3>3, <3>4
        <5>4. QED
          BY <3>2, <4>2, <5>2, <5>3
      <4>3. QED
        BY <4>1, <4>2
    <3>9. QED
      BY <2>11, <2>12, <3>6, <3>7, <3>8 DEF OneFits
  <2>15. QED
    BY <2>3, <2>10, <2>11, <2>12, <2>13, <2>14 DEF AdoInv
<1>6. QED
  BY <1>2, <1>3, <1>4, <1>5 DEF AdoNext
=============================================================================
