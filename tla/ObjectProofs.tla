---------------------------- MODULE ObjectProofs ----------------------------
(***************************************************************************)
(* The theorems about all classes of MCObjects.  HandlesExactAlways: what  *)
(* belongs to the operating system is in one pair of hands; LocalProofs    *)
(* has seven of the invariants, here are serial ports, child processes and *)
(* connections to a data base.  DataExactAlways: data is neither lost nor  *)
(* made up on the way; DataProofs has the invariants.  A behaviour is      *)
(* about one class, so each invariant says of a class what has to hold     *)
(* while it is that class.                                                 *)
(***************************************************************************)
EXTENDS MCObjects, LocalProofs, DataProofs

(* Serial.  The port is at what the object has set, or at what it was.      *)
PortSettings == [baud : Nat, bits : Nat, parity : {"NONE", "ODD"},
                 stop : {"_1", "_1P5", "_2"}]
SerialFds == {Closed0, 0, 1}
SerialState ==
  [windows : BOOLEAN, fd : SerialFds, at : [{0, 1} -> SerialFds],
   set : [{0, 1} -> PortSettings], want : PortSettings, prior : PortSettings,
   old : PortSettings, new : PortSettings, threw : BOOLEAN, raw : BOOLEAN, leaked : BOOLEAN]

WindowsPort(o) ==
  /\ o.fd # 0 /\ o.set[0] = Start /\ ~o.leaked
  /\ o.fd = 1 => o.at[1] = 1
  /\ o.fd = 1 /\ ~o.threw => o.set[1] = o.want

\* On Linux, as long as nobody has lost the descriptor of the port.
OnPort(o) == o.fd # Closed0 /\ o.at[o.fd] = 1
LinuxPort(o) ==
  /\ o.at[1] # 0
  /\ o.fd # Closed0 => o.at[o.fd] # Closed0
  /\ \A f \in {0, 1} : o.at[f] = 1 => o.fd = f
  /\ ~OnPort(o) => o.set[1] = o.prior
  /\ OnPort(o) => /\ o.old = o.prior /\ o.new.baud = o.set[1].baud
                  /\ o.set[1].baud = 4800 => o.prior.baud = 4800
  /\ o.set[1].baud # 1200 /\ o.prior.baud # 1200
  /\ o.fd = 1 /\ ~o.threw => o.set[1] = o.want
  /\ o.set[0] # Start \/ o.at[0] # 0 => o.raw

SerialInv ==
  /\ class = "serial" /\ obj \in SerialState /\ PortAsSet
  /\ obj.windows => WindowsPort(obj)
  /\ ~obj.windows /\ ~obj.leaked => LinuxPort(obj)

LEMMA StartIs ==
  /\ Start \in PortSettings /\ Unread \in PortSettings
  /\ Closed0 \notin {0, 1} /\ Start.baud = 9600
<1>1. 9600 \in Nat /\ 8 \in Nat /\ 0 \in Nat /\ 5 \in Nat /\ "NONE" \in {"NONE", "ODD"}
  OBVIOUS
<1>2. Start \in PortSettings
  BY <1>1 DEF Start, PortSettings
<1>3. Unread \in PortSettings
  BY <1>1 DEF Unread, PortSettings
<1>4. Closed0 \notin {0, 1}
  BY DEF Closed0
<1>5. QED
  BY <1>2, <1>3, <1>4 DEF Start

LEMMA ClosedIs == Closed0 \notin {0, 1}
  BY DEF Closed0

\* What PortAsSet says of obj.
PortSaid(o) ==
  LET open == IF o.windows THEN o.fd # Closed0 ELSE o.fd > 0
      rate == IF o.new.baud \notin {1200, 4800} THEN o.new.baud ELSE 0
  IN /\ open /\ ~o.threw => o.set[1] = o.want
     /\ ~o.windows /\ open /\ ~o.threw =>
          rate = (IF o.set[1].baud = 4800 /\ o.prior.baud = 4800 THEN 0 ELSE o.set[1].baud)
     /\ ~o.windows /\ o.at[0] # 1 /\ o.at[1] = Closed0 => o.set[1] = o.prior
     /\ (o.set[0] # Start \/ (o.at[0] # 0 /\ ~o.windows)) => o.raw

\* The two invariants say it.
LEMMA PortHeld ==
  ASSUME NEW o \in SerialState, o.windows => WindowsPort(o), ~o.windows => LinuxPort(o)
  PROVE  PortSaid(o)
<1> USE StartIs
<1>1. CASE o.windows
  BY <1>1 DEF PortSaid, WindowsPort, SerialState, SerialFds
<1>2. CASE ~o.windows
  <2>1. o.fd > 0 <=> o.fd = 1
    BY DEF SerialState, SerialFds, Closed0
  <2>2. ASSUME o.fd = 1
        PROVE  (IF o.new.baud \notin {1200, 4800} THEN o.new.baud ELSE 0)
                 = (IF o.set[1].baud = 4800 /\ o.prior.baud = 4800 THEN 0 ELSE o.set[1].baud)
    <3>1. OnPort(o)
      BY <1>2, <2>2 DEF LinuxPort, OnPort, SerialState, SerialFds
    <3>2. QED
      BY <1>2, <3>1 DEF LinuxPort
  <2>3. ASSUME o.at[0] # 1, o.at[1] = Closed0 PROVE o.set[1] = o.prior
    BY <1>2, <2>3 DEF LinuxPort, OnPort, SerialState, SerialFds
  <2>4. QED
    BY <1>2, <2>1, <2>2, <2>3 DEF PortSaid, LinuxPort
<1>3. QED
  BY <1>1, <1>2

LEMMA SerialInvInit == SerialInit => SerialInv
<1> USE StartIs
<1> SUFFICES ASSUME SerialInit PROVE SerialInv
  OBVIOUS
<1>1. class = "serial"
  BY DEF SerialInit
<1>2. PICK windows \in BOOLEAN, junk \in {Start, Unread}, rate \in {9600, 4800} :
        obj = SerialObj(windows, junk, [Start EXCEPT !.baud = rate])
  BY DEF SerialInit, Start
<1> DEFINE now == [Start EXCEPT !.baud = rate]
<1>3. now \in PortSettings /\ now.baud = rate
  BY DEF PortSettings, Start
<1>4. obj = SerialObj(windows, junk, now)
  BY <1>2
<1> HIDE DEF now
<1> USE DEF SerialObj
<1>5. obj \in SerialState
  BY <1>3, <1>4 DEF SerialState, SerialFds
<1>6. obj.windows => WindowsPort(obj)
  BY <1>3, <1>4 DEF WindowsPort
<1>7. ~obj.windows => LinuxPort(obj)
  BY <1>3, <1>4 DEF LinuxPort, OnPort
<1>8. PortSaid(obj)
  BY <1>5, <1>6, <1>7, PortHeld
<1>9. PortAsSet
  BY <1>8 DEF PortAsSet, PortSaid, SerialOpen, getBaudrate, Baudrate
<1>10. QED
  BY <1>1, <1>5, <1>6, <1>7, <1>9 DEF SerialInv

\* A step that keeps the two invariants keeps all.
LEMMA SerialKept ==
  ASSUME class' = "serial", obj' \in SerialState,
         obj'.windows => WindowsPort(obj'), ~obj'.windows => LinuxPort(obj')
  PROVE  SerialInv'
<1>1. PortSaid(obj')
  BY PortHeld
<1>2. PortAsSet'
  BY <1>1 DEF PortAsSet, PortSaid, SerialOpen, getBaudrate, Baudrate
<1>3. QED
  BY <1>2 DEF SerialInv

LEMMA SerialOpenStep ==
  ASSUME SerialInv, serialOpen
  PROVE  SerialInv'
<1>1. /\ obj \in SerialState /\ class' = "serial" /\ ~obj.leaked /\ ~SerialOpen
      /\ obj.windows => WindowsPort(obj)
      /\ ~obj.windows => LinuxPort(obj)
  BY DEF SerialInv, serialOpen, SerialAt, Stay
<1>2. CASE obj.windows
  <2>1. obj' = [obj EXCEPT !.fd = 1, !.at = [@ EXCEPT ![1] = 1], !.set = [@ EXCEPT ![1] = obj.new],
                           !.want = obj.new, !.threw = FALSE]
    BY <1>2 DEF serialOpen
  <2>2. /\ [obj.at EXCEPT ![1] = 1] \in [{0, 1} -> SerialFds]
        /\ [obj.set EXCEPT ![1] = obj.new] \in [{0, 1} -> PortSettings]
    BY <1>1 DEF SerialState, SerialFds
  <2> DEFINE ats == [obj.at EXCEPT ![1] = 1]
             sets == [obj.set EXCEPT ![1] = obj.new]
  <2> HIDE DEF ats, sets
  <2>3. /\ obj' \in SerialState /\ obj'.windows = obj.windows /\ obj'.fd = 1
        /\ obj'.want = obj.new /\ obj'.at = ats /\ obj'.set = sets /\ obj'.leaked = obj.leaked
    <3>1. obj' = [obj EXCEPT !.fd = 1, !.at = ats, !.set = sets, !.want = obj.new, !.threw = FALSE]
      BY <2>1 DEF ats, sets
    <3>2. ats \in [{0, 1} -> SerialFds] /\ sets \in [{0, 1} -> PortSettings]
      BY <2>2 DEF ats, sets
    <3>a. 1 \in SerialFds /\ obj.new \in PortSettings
      BY <1>1 DEF SerialState, SerialFds
    <3>3. obj' \in SerialState
      BY <1>1, <3>1, <3>2, <3>a DEF SerialState, SerialFds
    <3>4. /\ obj'.windows = obj.windows /\ obj'.fd = 1 /\ obj'.want = obj.new /\ obj'.at = ats
          /\ obj'.set = sets /\ obj'.leaked = obj.leaked
      BY <1>1, <3>1 DEF SerialState
    <3>5. QED
      BY <3>3, <3>4
  <2>4. WindowsPort(obj')
    BY <1>1, <1>2, <2>3 DEF WindowsPort, SerialState, ats, sets
  <2>5. QED
    BY <1>1, <1>2, <2>3, <2>4, SerialKept
<1>3. CASE ~obj.windows
  <2>1. LinuxPort(obj) /\ obj.fd \in {Closed0, 0}
    BY <1>1, <1>3 DEF SerialOpen, SerialState, SerialFds
  <2>2. CASE obj' = [obj EXCEPT !.fd = Closed0, !.leaked = obj.fd = 0 /\ obj.at[0] = 1]
    <3> DEFINE lost == obj.fd = 0 /\ obj.at[0] = 1
    <3>a. lost \in BOOLEAN /\ obj' = [obj EXCEPT !.fd = Closed0, !.leaked = lost]
      BY <2>2
    <3> HIDE DEF lost
    <3>b. /\ obj' \in SerialState /\ obj'.windows = obj.windows /\ obj'.fd = Closed0
          /\ obj'.at = obj.at /\ obj'.set = obj.set /\ obj'.prior = obj.prior
          /\ obj'.raw = obj.raw /\ obj'.leaked = lost
      <4>1. obj' \in SerialState
        BY <1>1, <3>a DEF SerialState, SerialFds
      <4>2. /\ obj'.windows = obj.windows /\ obj'.fd = Closed0 /\ obj'.at = obj.at
            /\ obj'.set = obj.set /\ obj'.prior = obj.prior /\ obj'.raw = obj.raw
        BY <1>1, <3>a DEF SerialState
      <4>3. obj'.leaked = lost
        BY <1>1, <3>a DEF SerialState
      <4>4. QED
        BY <4>1, <4>2, <4>3
    <3>1. /\ obj' \in SerialState /\ ~obj'.windows /\ obj'.fd = Closed0 /\ obj'.at = obj.at
          /\ obj'.set = obj.set /\ obj'.prior = obj.prior /\ obj'.raw = obj.raw
          /\ obj'.leaked <=> obj.fd = 0 /\ obj.at[0] = 1
      <4>1. obj'.leaked <=> lost
        BY <3>b
      <4>2. lost <=> obj.fd = 0 /\ obj.at[0] = 1
        BY DEF lost
      <4>3. QED
        BY <1>1, <1>3, <3>b, <4>1, <4>2
    <3>2. PortSaid(obj')
      <4>1. ~(obj'.fd > 0)
        BY <3>1 DEF Closed0
      <4>2. obj.at[0] # 1 /\ obj.at[1] = Closed0 => obj.set[1] = obj.prior
        BY <1>1, <2>1 DEF LinuxPort, OnPort, SerialState, SerialFds
      <4>3. QED
        BY ClosedIs, <2>1, <3>1, <4>1, <4>2 DEF PortSaid, LinuxPort
    <3>3. ~obj'.leaked => LinuxPort(obj')
      <4>1. ASSUME ~obj'.leaked PROVE \A f \in {0, 1} : obj.at[f] # 1
        BY ClosedIs, <2>1, <3>1, <4>1 DEF LinuxPort
      <4>2. ASSUME ~obj'.leaked PROVE ~OnPort(obj) /\ ~OnPort(obj')
        BY <2>1, <3>1, <4>1, <4>2 DEF OnPort
      <4>3. QED
        BY ClosedIs, <2>1, <3>1, <4>1, <4>2 DEF LinuxPort
    <3>4. PortAsSet'
      BY <3>2 DEF PortAsSet, PortSaid, SerialOpen, getBaudrate, Baudrate
    <3>5. QED
      BY <1>1, <3>1, <3>3, <3>4 DEF SerialInv
  <2>3. CASE /\ obj.at[FreeFd] = Closed0
             /\ obj' = [obj EXCEPT !.fd = FreeFd, !.at[FreeFd] = 1, !.old = obj.set[1],
                          !.new = obj.set[1], !.want = obj.set[1], !.prior = obj.set[1],
                          !.threw = FALSE, !.leaked = obj.fd = 0 /\ obj.at[0] = 1]
    <3> DEFINE f == FreeFd
               ats == [obj.at EXCEPT ![f] = 1]
    <3>1. /\ f \in {0, 1} /\ obj.at[f] = Closed0 /\ (f = 0 <=> obj.at[0] = Closed0)
          /\ obj' = [obj EXCEPT !.fd = f, !.at = ats, !.old = obj.set[1],
                          !.new = obj.set[1], !.want = obj.set[1], !.prior = obj.set[1],
                          !.threw = FALSE, !.leaked = obj.fd = 0 /\ obj.at[0] = 1]
      BY <2>3 DEF FreeFd
    <3> HIDE DEF f
    <3>2. ats \in [{0, 1} -> SerialFds] /\ \A g \in {0, 1} : ats[g] = IF g = f THEN 1 ELSE obj.at[g]
      BY <1>1, <3>1 DEF SerialState, SerialFds
    <3> DEFINE lost == obj.fd = 0 /\ obj.at[0] = 1
    <3> HIDE DEF ats
    <3>a. /\ lost \in BOOLEAN
          /\ obj' = [obj EXCEPT !.fd = f, !.at = ats, !.old = obj.set[1],
                          !.new = obj.set[1], !.want = obj.set[1], !.prior = obj.set[1],
                          !.threw = FALSE, !.leaked = lost]
      BY <3>1
    <3> HIDE DEF lost
    <3>b. obj.set[1] \in PortSettings
      BY <1>1 DEF SerialState
    <3>c. /\ obj' \in SerialState /\ obj'.windows = obj.windows /\ obj'.fd = f /\ obj'.at = ats
          /\ obj'.set = obj.set /\ obj'.prior = obj.set[1] /\ obj'.raw = obj.raw
          /\ obj'.want = obj.set[1] /\ obj'.new = obj.set[1] /\ obj'.old = obj.set[1]
          /\ obj'.leaked = lost
      <4>1. obj' \in SerialState
        BY <1>1, <3>1, <3>2, <3>a, <3>b DEF SerialState, SerialFds
      <4>2. /\ obj'.windows = obj.windows /\ obj'.fd = f /\ obj'.at = ats /\ obj'.set = obj.set
            /\ obj'.prior = obj.set[1] /\ obj'.raw = obj.raw
            /\ obj'.want = obj.set[1] /\ obj'.new = obj.set[1] /\ obj'.old = obj.set[1]
        BY <1>1, <3>a DEF SerialState
      <4>3. obj'.leaked = lost
        BY <1>1, <3>a DEF SerialState
      <4>4. QED
        BY <4>1, <4>2, <4>3
    <3>3. /\ obj' \in SerialState /\ ~obj'.windows /\ obj'.fd = f /\ obj'.at = ats
          /\ obj'.set = obj.set /\ obj'.prior = obj.set[1] /\ obj'.raw = obj.raw
          /\ obj'.want = obj.set[1] /\ obj'.new = obj.set[1] /\ obj'.old = obj.set[1]
          /\ obj'.leaked <=> obj.fd = 0 /\ obj.at[0] = 1
      <4>1. obj'.leaked <=> lost
        BY <3>c
      <4>2. lost <=> obj.fd = 0 /\ obj.at[0] = 1
        BY DEF lost
      <4>3. QED
        BY <1>1, <1>3, <3>c, <4>1, <4>2
    <3>4. PortSaid(obj')
      <4>1. obj.set[1].baud # 1200 /\ (obj.at[0] # 0 => obj.raw) /\ (obj.set[0] # Start => obj.raw)
        BY <2>1 DEF LinuxPort
      <4>2. (ats[0] # 0 => obj.raw)
        BY ClosedIs, <3>1, <3>2, <4>1
      <4>3. QED
        BY <3>3, <4>1, <4>2 DEF PortSaid
    <3>5. ~obj'.leaked => LinuxPort(obj')
      <4>1. ASSUME ~obj'.leaked PROVE \A g \in {0, 1} : obj.at[g] # 1
        BY ClosedIs, <2>1, <3>3, <4>1 DEF LinuxPort
      <4>2. OnPort(obj')
        BY ClosedIs, <3>1, <3>2, <3>3 DEF OnPort
      <4>3. ats[1] # 0 /\ ats[f] = 1 /\ obj.set[1].baud # 1200
        BY <2>1, <3>1, <3>2 DEF LinuxPort
      <4>4. obj.set[0] # Start \/ ats[0] # 0 => obj.raw
        BY ClosedIs, <2>1, <3>1, <3>2 DEF LinuxPort
      <4>5. ASSUME ~obj'.leaked PROVE \A g \in {0, 1} : ats[g] = 1 => f = g
        BY <3>2, <4>1, <4>5
      <4>6. QED
        BY ClosedIs, <3>1, <3>3, <4>2, <4>3, <4>4, <4>5 DEF LinuxPort
    <3>6. PortAsSet'
      BY <3>4 DEF PortAsSet, PortSaid, SerialOpen, getBaudrate, Baudrate
    <3>7. QED
      BY <1>1, <3>3, <3>5, <3>6 DEF SerialInv
  <2>4. QED
    BY <1>3, <2>2, <2>3 DEF serialOpen
<1>4. QED
  BY <1>2, <1>3

LEMMA SerialCloseStep ==
  ASSUME SerialInv, serialClose
  PROVE  SerialInv'
<1> DEFINE o == IF obj.windows THEN obj ELSE Tcset(obj, obj.fd, obj.old)
           bad == obj.raw \/ (obj.fd = 0 /\ obj.at[0] = 0)
           ats == IF obj.fd = Closed0 THEN obj.at ELSE [obj.at EXCEPT ![obj.fd] = Closed0]
<1>1. /\ obj \in SerialState /\ class' = "serial" /\ ~obj.leaked
      /\ obj.windows => WindowsPort(obj)
      /\ ~obj.windows => LinuxPort(obj)
  BY DEF SerialInv, serialClose, SerialAt, Stay
<1>2. /\ ats \in [{0, 1} -> SerialFds]
      /\ \A g \in {0, 1} : ats[g] = IF g = obj.fd THEN Closed0 ELSE obj.at[g]
  BY ClosedIs, <1>1 DEF SerialState, SerialFds
<1>3. CASE obj.windows
  <2>1. bad \in BOOLEAN /\ obj' = [obj EXCEPT !.fd = Closed0, !.raw = bad, !.at = ats]
    BY <1>1, <1>3 DEF serialClose, SerialState
  <2> HIDE DEF ats, bad
  <2>2. /\ obj' \in SerialState /\ obj'.windows = obj.windows /\ obj'.fd = Closed0
        /\ obj'.set = obj.set /\ obj'.leaked = obj.leaked
    <3>1. obj' \in SerialState
      BY <1>1, <1>2, <2>1 DEF SerialState, SerialFds
    <3>2. /\ obj'.windows = obj.windows /\ obj'.fd = Closed0 /\ obj'.set = obj.set
          /\ obj'.leaked = obj.leaked
      BY <1>1, <2>1 DEF SerialState
    <3>3. QED
      BY <3>1, <3>2
  <2>3. WindowsPort(obj')
    BY ClosedIs, <1>1, <1>3, <2>2 DEF WindowsPort
  <2>4. QED
    BY <1>1, <1>3, <2>2, <2>3, SerialKept
<1>4. CASE ~obj.windows
  <2> DEFINE sets == IF obj.fd = Closed0 THEN obj.set ELSE [obj.set EXCEPT ![obj.at[obj.fd]] = obj.old]
  <2>1. LinuxPort(obj)
    BY <1>1, <1>4
  <2>2. o = [obj EXCEPT !.set = sets]
    BY <1>1, <1>4, <2>1 DEF Tcset, LinuxPort, SerialState
  <2>3. /\ obj' = [o EXCEPT !.fd = Closed0, !.raw = @ \/ (obj.fd = 0 /\ obj.at[0] = 0), !.at = ats]
        /\ bad \in BOOLEAN
    <3>1. obj' = [o EXCEPT !.fd = Closed0, !.raw = @ \/ (obj.fd = 0 /\ obj.at[0] = 0),
                           !.at = IF obj.fd = Closed0 THEN @ ELSE [@ EXCEPT ![obj.fd] = Closed0]]
      BY DEF serialClose
    <3>a. o.at = obj.at
      BY <1>1, <2>2 DEF SerialState
    <3>2. bad \in BOOLEAN
      BY <1>1 DEF SerialState
    <3>3. QED
      BY <3>1, <3>2, <3>a
  <2>4. /\ sets \in [{0, 1} -> PortSettings]
        /\ obj.fd = Closed0 => sets = obj.set
        /\ obj.fd # Closed0 =>
             /\ obj.fd \in {0, 1} /\ obj.at[obj.fd] \in {0, 1}
             /\ \A g \in {0, 1} : sets[g] = IF g = obj.at[obj.fd] THEN obj.old ELSE obj.set[g]
    BY <1>1, <2>1 DEF SerialState, SerialFds, LinuxPort
  <2> HIDE DEF sets, ats, o
  <2>a. o.raw = obj.raw
    BY <1>1, <2>2 DEF SerialState
  <2>b. obj' = [o EXCEPT !.fd = Closed0, !.raw = bad, !.at = ats]
    BY <2>3, <2>a
  <2> HIDE DEF bad
  <2>5. obj' = [obj EXCEPT !.set = sets, !.fd = Closed0, !.raw = bad, !.at = ats]
    BY <1>1, <2>2, <2>b DEF SerialState
  <2>c. /\ obj' \in SerialState /\ obj'.windows = obj.windows /\ obj'.fd = Closed0
        /\ obj'.set = sets /\ obj'.at = ats /\ obj'.prior = obj.prior
        /\ obj'.leaked = obj.leaked /\ obj'.raw = bad
    <3>1. obj' \in SerialState
      BY <1>1, <1>2, <2>3, <2>4, <2>5 DEF SerialState, SerialFds
    <3>2. /\ obj'.windows = obj.windows /\ obj'.fd = Closed0 /\ obj'.set = sets /\ obj'.at = ats
          /\ obj'.prior = obj.prior /\ obj'.leaked = obj.leaked
      BY <1>1, <2>5 DEF SerialState
    <3>3. obj'.raw = bad
      BY <1>1, <2>5 DEF SerialState
    <3>4. QED
      BY <3>1, <3>2, <3>3
  <2>6. /\ obj' \in SerialState /\ ~obj'.windows /\ obj'.fd = Closed0 /\ obj'.set = sets
        /\ obj'.at = ats /\ obj'.prior = obj.prior /\ ~obj'.leaked
        /\ obj'.raw <=> obj.raw \/ (obj.fd = 0 /\ obj.at[0] = 0)
    <3>1. obj'.raw <=> bad
      BY <2>c
    <3>2. bad <=> obj.raw \/ (obj.fd = 0 /\ obj.at[0] = 0)
      BY DEF bad
    <3>3. QED
      BY <1>1, <1>4, <2>c, <3>1, <3>2
  <2>7. sets[1] = obj.prior
    <3>1. CASE obj.fd = Closed0
      BY <2>1, <2>4, <3>1 DEF LinuxPort, OnPort
    <3>2. CASE obj.fd # Closed0 /\ obj.at[obj.fd] = 1
      BY <2>1, <2>4, <3>2 DEF LinuxPort, OnPort
    <3>3. CASE obj.fd # Closed0 /\ obj.at[obj.fd] = 0
      BY <2>1, <2>4, <3>3 DEF LinuxPort, OnPort
    <3>4. QED
      BY <2>4, <3>1, <3>2, <3>3
  <2>8. sets[0] # Start \/ ats[0] # 0 => obj.raw \/ (obj.fd = 0 /\ obj.at[0] = 0)
    <3>1. CASE obj.fd = Closed0
      BY <1>2, <2>1, <2>4, <3>1 DEF LinuxPort
    <3>2. CASE obj.fd = 0
      BY <2>1, <3>2 DEF LinuxPort
    <3>3. CASE obj.fd = 1
      BY <1>2, <2>1, <2>4, <3>3 DEF LinuxPort
    <3>4. QED
      BY <2>4, <3>1, <3>2, <3>3
  <2>9. ats[1] # 0 /\ \A f \in {0, 1} : ats[f] # 1
    BY ClosedIs, <1>2, <2>1 DEF LinuxPort
  <2>10. LinuxPort(obj')
    BY ClosedIs, <2>1, <2>6, <2>7, <2>8, <2>9 DEF LinuxPort, OnPort
  <2>11. QED
    BY <1>1, <2>6, <2>10, SerialKept
<1>5. QED
  BY <1>3, <1>4

\* What a setter is given: a rate that the tables have, or the rate there was.
LEMMA SetterStep ==
  ASSUME SerialInv, NEW now \in PortSettings, NEW kept \in PortSettings, NEW valid \in BOOLEAN,
         now.baud = obj.new.baud \/ (valid => now.baud \notin {1200, 4800}),
         kept.baud = obj.new.baud,
         Setter(now, kept, valid)
  PROVE  SerialInv'
<1>1. /\ obj \in SerialState /\ class' = "serial" /\ ~obj.leaked
      /\ obj.windows => WindowsPort(obj)
      /\ ~obj.windows => LinuxPort(obj)
  BY DEF SerialInv, Setter, SerialAt, Stay
<1>2. CASE obj.windows
  <2> DEFINE takes == SerialOpen /\ now.bits \in 5..8
             sets == IF takes THEN [obj.set EXCEPT ![1] = now] ELSE obj.set
             threw == obj.threw \/ (SerialOpen /\ ~takes)
  <2>1. SerialOpen <=> obj.fd = 1
    BY <1>1, <1>2 DEF SerialOpen, WindowsPort, SerialState, SerialFds, Closed0
  <2>2. takes => Tcset(obj, obj.fd, now) = [obj EXCEPT !.set = sets]
    BY <1>1, <1>2, <2>1, ClosedIs DEF Tcset, WindowsPort, SerialState
  <2>3. sets \in [{0, 1} -> PortSettings] /\ threw \in BOOLEAN
    BY <1>1 DEF SerialState
  <2>4. /\ takes => sets[1] = now /\ sets[0] = obj.set[0]
        /\ ~takes => sets = obj.set
    BY <1>1 DEF SerialState
  <2>5. obj' = [(IF takes THEN Tcset(obj, obj.fd, now) ELSE obj)
                 EXCEPT !.new = now, !.want = IF takes THEN now ELSE @,
                        !.threw = @ \/ (SerialOpen /\ ~takes)]
    BY <1>2 DEF Setter
  <2>6. (IF takes THEN Tcset(obj, obj.fd, now) ELSE obj) = [obj EXCEPT !.set = sets]
    BY <1>1, <2>2, <2>4 DEF SerialState
  <2> DEFINE want == IF takes THEN now ELSE obj.want
  <2>7. want \in PortSettings
    BY <1>1 DEF SerialState
  <2>8. /\ (IF takes THEN Tcset(obj, obj.fd, now) ELSE obj).want = obj.want
        /\ (IF takes THEN Tcset(obj, obj.fd, now) ELSE obj).threw = obj.threw
    BY <1>1, <2>6 DEF SerialState
  <2> HIDE DEF sets
  <2>9. obj' = [(IF takes THEN Tcset(obj, obj.fd, now) ELSE obj)
                 EXCEPT !.new = now, !.want = want, !.threw = threw]
    BY <2>5, <2>8
  <2> HIDE DEF takes, threw, want
  <2>10. obj' = [obj EXCEPT !.set = sets, !.new = now, !.want = want, !.threw = threw]
    BY <1>1, <2>6, <2>9 DEF SerialState
  <2>11. obj' \in SerialState
    BY <1>1, <2>3, <2>7, <2>10 DEF SerialState
  <2>12. /\ obj'.windows = obj.windows /\ obj'.fd = obj.fd /\ obj'.at = obj.at /\ obj'.set = sets
         /\ obj'.want = want /\ obj'.leaked = obj.leaked
    BY <1>1, <2>10 DEF SerialState
  <2>13. obj'.threw = threw
    BY <1>1, <2>10 DEF SerialState
  <2>14. WindowsPort(obj')
    <3>1. CASE takes
      <4>1. sets[1] = now /\ sets[0] = obj.set[0] /\ want = now
        BY <2>4, <3>1 DEF want
      <4>2. QED
        BY <1>1, <1>2, <2>12, <4>1 DEF WindowsPort
    <3>2. CASE ~takes
      <4>1. sets = obj.set /\ want = obj.want /\ (obj.fd = 1 => threw) /\ (~threw => ~obj.threw)
        BY <2>1, <2>4, <3>2 DEF threw, want
      <4>2. QED
        BY <1>1, <1>2, <2>12, <2>13, <4>1 DEF WindowsPort
    <3>3. QED
      BY <3>1, <3>2
  <2>15. QED
    BY <1>1, <1>2, <2>11, <2>12, <2>14, SerialKept
<1>3. CASE ~obj.windows
  <2> DEFINE fails == ~valid \/ obj.fd = Closed0 \/ obj.at[obj.fd] = Closed0
             o == IF fails THEN [obj EXCEPT !.threw = TRUE] ELSE Tcset(obj, obj.fd, now)
             new == IF valid THEN now ELSE kept
             bad == obj.raw \/ (~fails /\ obj.at[obj.fd] = 0)
             want == IF fails THEN obj.want ELSE now
  <2>1. obj' = [o EXCEPT !.new = new, !.want = IF fails THEN @ ELSE now,
                         !.raw = @ \/ (~fails /\ obj.at[obj.fd] = 0)]
    BY <1>3 DEF Setter
  <2>2. LinuxPort(obj) /\ new \in PortSettings /\ want \in PortSettings /\ bad \in BOOLEAN
    BY <1>1, <1>3 DEF SerialState
  <2>3. CASE fails
    <3>1. o = [obj EXCEPT !.threw = TRUE] /\ o.raw = obj.raw /\ o.want = obj.want
      BY <1>1, <2>3 DEF SerialState
    <3>2. want = obj.want /\ (bad <=> obj.raw)
      BY <2>3
    <3>3. bad = obj.raw
      BY <1>1, <2>2, <3>2 DEF SerialState
    <3>5. new.baud = obj.new.baud \/ ~OnPort(obj)
      BY <2>3, ClosedIs DEF OnPort
    <3> HIDE DEF o
    <3>4. obj' = [o EXCEPT !.new = new, !.want = want, !.raw = bad]
      BY <2>1, <3>1, <2>3
    <3> HIDE DEF new, bad, want, fails
    <3>6. obj' = [obj EXCEPT !.threw = TRUE, !.new = new, !.want = want, !.raw = bad]
      BY <1>1, <3>1, <3>4 DEF SerialState
    <3>7. obj' \in SerialState
      BY <1>1, <2>2, <3>6 DEF SerialState
    <3>8. /\ obj'.windows = obj.windows /\ obj'.fd = obj.fd /\ obj'.at = obj.at /\ obj'.set = obj.set
          /\ obj'.new = new /\ obj'.old = obj.old /\ obj'.prior = obj.prior
      BY <1>1, <3>6 DEF SerialState
    <3>9. obj'.threw = TRUE /\ obj'.raw = bad
      BY <1>1, <3>6 DEF SerialState
    <3>10. OnPort(obj') <=> OnPort(obj)
      BY <3>8 DEF OnPort
    <3>11. obj'.threw /\ (obj'.raw <=> obj.raw)
      BY <3>3, <3>9
    <3>12. LinuxPort(obj')
      BY <2>2, <3>5, <3>8, <3>10, <3>11 DEF LinuxPort
    <3>13. QED
      BY <1>1, <1>3, <3>7, <3>8, <3>12, SerialKept
  <2>4. CASE ~fails
    <3> DEFINE p == obj.at[obj.fd]
               sets == [obj.set EXCEPT ![p] = now]
    <3>1. valid /\ obj.fd \in {0, 1} /\ p \in {0, 1}
      BY <1>1, <2>4 DEF SerialState, SerialFds
    <3>2. o = [obj EXCEPT !.set = sets]
      BY <1>1, <2>4, <3>1, ClosedIs DEF Tcset, SerialState
    <3>3. /\ sets \in [{0, 1} -> PortSettings]
          /\ \A g \in {0, 1} : sets[g] = IF g = p THEN now ELSE obj.set[g]
      BY <1>1, <3>1 DEF SerialState
    <3>4. new = now /\ want = now /\ (bad <=> obj.raw \/ p = 0)
      BY <2>4, <3>1
    <3>5. o.raw = obj.raw
      BY <1>1, <3>2 DEF SerialState
    <3> HIDE DEF o
    <3>6. obj' = [o EXCEPT !.new = now, !.want = now, !.raw = bad]
      <4>1. obj' = [o EXCEPT !.new = new, !.want = want, !.raw = bad]
        BY <2>1, <2>4, <3>5
      <4> HIDE DEF new, want, bad
      <4>2. QED
        BY <3>4, <4>1
    <3>7. p = 1 <=> OnPort(obj)
      BY <3>1, ClosedIs DEF OnPort
    <3>8. valid => now.baud = obj.new.baud \/ now.baud \notin {1200, 4800}
      OBVIOUS
    <3> HIDE DEF o, new, bad, want, fails, sets, p
    <3>9. obj' = [obj EXCEPT !.set = sets, !.new = now, !.want = now, !.raw = bad]
      BY <1>1, <3>2, <3>6 DEF SerialState
    <3>10. obj' \in SerialState
      BY <1>1, <2>2, <3>3, <3>9 DEF SerialState
    <3>11. /\ obj'.windows = obj.windows /\ obj'.fd = obj.fd /\ obj'.at = obj.at /\ obj'.set = sets
           /\ obj'.new = now /\ obj'.old = obj.old /\ obj'.prior = obj.prior /\ obj'.want = now
      BY <1>1, <3>9 DEF SerialState
    <3>12. obj'.raw = bad
      BY <1>1, <3>9 DEF SerialState
    <3>13. OnPort(obj') <=> OnPort(obj)
      BY <3>11 DEF OnPort
    <3>14. obj'.raw <=> obj.raw \/ p = 0
      BY <3>4, <3>12
    <3>15. CASE p = 1
      <4>1. sets[1] = now /\ sets[0] = obj.set[0] /\ OnPort(obj)
        BY <3>3, <3>7, <3>15
      <4>2. now.baud # 1200 /\ (now.baud = 4800 => obj.prior.baud = 4800)
        BY <2>2, <3>1, <3>8, <4>1 DEF LinuxPort
      <4>3. QED
        <5>1. LinuxPort(obj')
          BY <2>2, <3>11, <3>13, <3>14, <4>1, <4>2 DEF LinuxPort
        <5>2. QED
          BY <1>1, <1>3, <3>10, <3>11, <5>1, SerialKept
    <3>16. CASE p = 0
      <4>1. sets[1] = obj.set[1] /\ obj'.raw /\ ~OnPort(obj) /\ obj.fd # 1
        BY <2>2, <3>3, <3>7, <3>14, <3>16 DEF LinuxPort, p
      <4>2. LinuxPort(obj')
        BY <2>2, <3>11, <3>13, <4>1 DEF LinuxPort
      <4>3. QED
        BY <1>1, <1>3, <3>10, <3>11, <4>2, SerialKept
    <3>17. QED
      BY <3>1, <3>15, <3>16
  <2>5. QED
    BY <2>3, <2>4
<1>4. QED
  BY <1>2, <1>3

LEMMA SerialStep == SerialInv /\ SerialNext => SerialInv'
<1> SUFFICES ASSUME SerialInv, SerialNext PROVE SerialInv'
  OBVIOUS
<1> DEFINE t == obj.new
<1>1. t \in PortSettings
  BY DEF SerialInv, SerialState
<1> HIDE DEF t
<1>2. ASSUME NEW rate \in {1200, 2400}, setBaudrate(rate) PROVE SerialInv'
  <2> DEFINE n == [t EXCEPT !.baud = rate]
  <2>1. Setter(n, t, Baudrate(rate))
    BY <1>2 DEF setBaudrate, t
  <2>2. Baudrate(rate) \in BOOLEAN /\ (Baudrate(rate) => rate \notin {1200, 4800})
    BY DEF Baudrate
  <2>3. n \in PortSettings /\ n.baud = rate
    BY <1>1 DEF PortSettings
  <2> HIDE DEF n
  <2>4. QED
    BY <1>1, <2>1, <2>2, <2>3, SetterStep DEF t
<1>3. ASSUME NEW bits \in {7, 9}, setDatabit(bits) PROVE SerialInv'
  <2> DEFINE n == [t EXCEPT !.bits = bits]
             k == [t EXCEPT !.bits = 5]
             valid == bits \in 5..8
  <2>1. Setter(n, k, valid) /\ valid \in BOOLEAN
    BY <1>3 DEF setDatabit, t
  <2>2. n \in PortSettings /\ n.baud = t.baud /\ k \in PortSettings /\ k.baud = t.baud
    BY <1>1 DEF PortSettings
  <2> HIDE DEF n, k, valid
  <2>3. QED
    BY <2>1, <2>2, SetterStep DEF t
<1>4. ASSUME setParity("ODD") PROVE SerialInv'
  <2> DEFINE n == [t EXCEPT !.parity = "ODD"]
             valid == TRUE
  <2>1. Setter(n, t, valid) /\ valid \in BOOLEAN
    BY <1>4 DEF setParity, t
  <2>2. n \in PortSettings /\ n.baud = t.baud
    BY <1>1 DEF PortSettings
  <2> HIDE DEF n, valid
  <2>3. QED
    BY <1>1, <2>1, <2>2, SetterStep DEF t
<1>5. ASSUME NEW stop \in {"_1P5", "_2"}, setStopBit(stop) PROVE SerialInv'
  <2> DEFINE s == IF stop = "_1P5" /\ ~obj.windows THEN "_1" ELSE stop
             n == [t EXCEPT !.stop = s]
             valid == TRUE
  <2>1. Setter(n, t, valid) /\ valid \in BOOLEAN /\ s \in {"_1", "_1P5", "_2"}
    BY <1>5 DEF setStopBit, t
  <2> HIDE DEF s
  <2>2. n \in PortSettings /\ n.baud = t.baud
    BY <1>1, <2>1 DEF PortSettings
  <2> HIDE DEF n, valid
  <2>3. QED
    BY <1>1, <2>1, <2>2, SetterStep DEF t
<1>6. QED
  BY <1>2, <1>3, <1>4, <1>5, SerialOpenStep, SerialCloseStep DEF SerialNext

-----------------------------------------------------------------------------
(* Process.  Whom a number belongs to, whose child runs and when, and who   *)
(* can still write to a pipe.                                               *)
Owners == Parents \union {"none", "stranger"}
ProcStages == {"idle", "pipe", "fork", "close", "kill", "join"}
ProcState ==
  [windows : BOOLEAN, owner : [Pids -> Owners], dead : SUBSET Pids, starts : Nat,
   pid : [Parents -> Pids \union {NoPid, Failed}], open : [Parents -> BOOLEAN],
   held : SUBSET (Parents \X Pids), reader : [Parents -> {"none", "reads", "ended"}],
   next : [Parents -> {"idle", "pipe"}], async : [Parents -> BOOLEAN],
   waited : SUBSET Parents, struck : SUBSET Parents, bare : SUBSET Parents]

Lives(o, p) == o.owner[p] # "none" /\ p \notin o.dead
ChildrenKnown(o) ==
  /\ \A p \in o.dead : o.owner[p] \in Parents
  /\ \A h \in o.held : Lives(o, h[2])
  /\ \A t \in Parents : o.pid[t] \in Pids /\ t \notin o.waited => o.owner[o.pid[t]] = t
  /\ \A t \in Parents : o.pid[t] = Failed => t \in o.bare
Mistaken(o, q) ==
  /\ o.windows => o.waited = {} /\ o.bare = {}
  /\ \A t \in o.struck : q[t] = "join" /\ t \in o.waited \union o.bare
ReadersKnown(o, q) ==
  \A t \in Parents :
    /\ o.reader[t] = "reads" => ~o.open[t] /\ q[t] \in {"idle", "kill", "join"} /\ o.pid[t] # NoPid
    /\ q[t] \in {"close", "kill", "join"} => o.pid[t] # NoPid
ChildrenRun(o, q) ==
  \A p \in Pids : o.owner[p] \in Parents /\ p \notin o.dead =>
    o.pid[o.owner[p]] = p /\ q[o.owner[p]] \in {"close", "idle", "kill"}
ProcInv ==
  /\ obj \in ProcState /\ pc \in [Parents -> ProcStages]
  /\ ChildrenKnown(obj) /\ Mistaken(obj, pc) /\ ReadersKnown(obj, pc) /\ ChildrenRun(obj, pc)

\* What ProcInv says, taken apart.
LEMMA ProcTypes ==
  ASSUME NEW o \in ProcState
  PROVE  /\ o.owner \in [Pids -> Owners] /\ o.dead \in SUBSET Pids
         /\ o.pid \in [Parents -> Pids \union {NoPid, Failed}] /\ o.open \in [Parents -> BOOLEAN]
         /\ o.held \in SUBSET (Parents \X Pids)
         /\ o.reader \in [Parents -> {"none", "reads", "ended"}]
         /\ o.next \in [Parents -> {"idle", "pipe"}] /\ o.async \in [Parents -> BOOLEAN]
         /\ o.waited \in SUBSET Parents /\ o.struck \in SUBSET Parents /\ o.bare \in SUBSET Parents
         /\ o.starts \in Nat /\ o.windows \in BOOLEAN
BY DEF ProcState

LEMMA PidsAre == NoPid \notin Pids /\ Failed \notin Pids /\ NoPid # Failed
BY ProcessesAssumption DEF NoPid, Failed, Pids

LEMMA OwnersAre == Parents \subseteq Owners /\ "none" \in Owners /\ "stranger" \in Owners
                   /\ "none" \notin Parents /\ "stranger" \notin Parents
BY DEF Owners, Parents

LEMMA ProcInvInit == ProcessInit => ProcInv
<1> SUFFICES ASSUME ProcessInit PROVE ProcInv
  OBVIOUS
<1>1. pc \in [Parents -> ProcStages] /\ \A t \in Parents : pc[t] = "idle"
  BY DEF ProcessInit, ProcStages
<1>2. obj \in ProcState
  BY DEF ProcessInit, ProcState, Owners
<1>3. /\ obj.dead = {} /\ obj.held = {} /\ obj.waited = {} /\ obj.struck = {} /\ obj.bare = {}
      /\ \A t \in Parents : obj.pid[t] = NoPid /\ obj.reader[t] = "none"
      /\ \A p \in Pids : obj.owner[p] = "none"
  BY DEF ProcessInit
<1>4. ChildrenKnown(obj)
  BY <1>3, PidsAre DEF ChildrenKnown
<1>5. Mistaken(obj, pc)
  BY <1>3 DEF Mistaken
<1>6. ReadersKnown(obj, pc) /\ ChildrenRun(obj, pc)
  BY <1>1, <1>3, OwnersAre DEF ReadersKnown, ChildrenRun
<1>7. QED
  BY <1>1, <1>2, <1>4, <1>5, <1>6 DEF ProcInv

\* Where nothing changes but the stage of one that is no child's.
LEMMA StageStep ==
  ASSUME ProcInv, NEW t \in Parents, NEW l \in ProcStages,
         obj' \in ProcState, pc' = [pc EXCEPT ![t] = l],
         obj'.owner = obj.owner, obj'.dead = obj.dead, obj'.held = obj.held, obj'.pid = obj.pid,
         obj'.waited = obj.waited, obj'.bare = obj.bare, obj'.struck = obj.struck,
         obj'.reader = obj.reader, obj'.windows <=> obj.windows,
         \A u \in Parents : obj'.reader[u] = "reads" => (obj'.open[u] => obj.open[u]),
         pc[t] \notin {"join"} \/ l = "join",
         l \in {"idle", "kill"} \/ (l \in {"pipe", "fork"} /\ (pc[t] \in {"pipe", "fork"} \/ obj.pid[t] = NoPid)),
         l = "kill" => obj.pid[t] # NoPid
  PROVE  ProcInv'
<1>1. /\ obj \in ProcState /\ pc \in [Parents -> ProcStages]
      /\ ChildrenKnown(obj) /\ Mistaken(obj, pc) /\ ReadersKnown(obj, pc) /\ ChildrenRun(obj, pc)
  BY DEF ProcInv
<1>2. pc' \in [Parents -> ProcStages] /\ \A u \in Parents : pc'[u] = IF u = t THEN l ELSE pc[u]
  BY <1>1
<1>3. ChildrenKnown(obj')
  BY <1>1 DEF ChildrenKnown, Lives
<1>4. Mistaken(obj', pc')
  BY <1>1, <1>2 DEF Mistaken
<1>5. ReadersKnown(obj', pc')
  <2> SUFFICES ASSUME NEW u \in Parents
               PROVE  /\ obj'.reader[u] = "reads" => /\ ~obj'.open[u] /\ pc'[u] \in {"idle", "kill", "join"}
                                                    /\ obj'.pid[u] # NoPid
                      /\ pc'[u] \in {"close", "kill", "join"} => obj'.pid[u] # NoPid
    BY DEF ReadersKnown
  <2>1. /\ obj.reader[u] = "reads" => ~obj.open[u] /\ pc[u] \in {"idle", "kill", "join"} /\ obj.pid[u] # NoPid
        /\ pc[u] \in {"close", "kill", "join"} => obj.pid[u] # NoPid
    BY <1>1 DEF ReadersKnown
  <2>2. QED
    BY <1>2, <2>1
<1>6. ChildrenRun(obj', pc')
  <2> SUFFICES ASSUME NEW p \in Pids, obj.owner[p] \in Parents, p \notin obj.dead
               PROVE  obj.pid[obj.owner[p]] = p /\ pc'[obj.owner[p]] \in {"close", "idle", "kill"}
    BY DEF ChildrenRun
  <2>1. obj.pid[obj.owner[p]] = p /\ pc[obj.owner[p]] \in {"close", "idle", "kill"}
    BY <1>1 DEF ChildrenRun
  <2>2. QED
    BY <1>2, <2>1, PidsAre
<1>7. QED
  BY <1>2, <1>3, <1>4, <1>5, <1>6 DEF ProcInv

LEMMA StartStep ==
  ASSUME ProcInv, NEW t \in Parents, procStart(t) \/ procStop(t)
  PROVE  ProcInv'
<1>1. obj \in ProcState /\ pc \in [Parents -> ProcStages]
  BY DEF ProcInv
<1>2. pc[t] = "idle"
  BY DEF procStart, procStop, At
<1>3. PICK l \in {"pipe", "kill"} : /\ pc' = [pc EXCEPT ![t] = l]
                                    /\ l = "kill" <=> obj.pid[t] # NoPid
  BY DEF procStart, procStop, Go
<1>4. \/ obj' = [obj EXCEPT !.starts = @ + 1, !.next[t] = "pipe"]
      \/ obj' = [obj EXCEPT !.next[t] = "idle"]
  BY DEF procStart, procStop
<1>5. obj' \in ProcState
  <2>1. ASSUME obj' = [obj EXCEPT !.starts = @ + 1, !.next[t] = "pipe"] PROVE obj' \in ProcState
    <3> DEFINE n == obj.starts + 1
               next == [obj.next EXCEPT ![t] = "pipe"]
    <3>1. n \in Nat /\ next \in [Parents -> {"idle", "pipe"}]
      BY <1>1, ProcTypes
    <3>2. obj' = [obj EXCEPT !.starts = n, !.next = next]
      BY <1>1, <2>1 DEF ProcState
    <3> HIDE DEF n, next
    <3>3. QED
      BY <1>1, <3>1, <3>2 DEF ProcState
  <2>2. ASSUME obj' = [obj EXCEPT !.next[t] = "idle"] PROVE obj' \in ProcState
    BY <1>1, <2>2 DEF ProcState
  <2>3. QED
    BY <1>4, <2>1, <2>2
<1>6. /\ obj'.owner = obj.owner /\ obj'.dead = obj.dead /\ obj'.held = obj.held /\ obj'.pid = obj.pid
      /\ obj'.waited = obj.waited /\ obj'.bare = obj.bare /\ obj'.struck = obj.struck
      /\ obj'.reader = obj.reader /\ obj'.open = obj.open
  BY <1>1, <1>4 DEF ProcState
<1>7. obj'.windows <=> obj.windows
  BY <1>1, <1>4 DEF ProcState
<1>8. l \in ProcStages
  BY DEF ProcStages
<1>9. QED
  BY <1>2, <1>3, <1>5, <1>6, <1>7, <1>8, StageStep

LEMMA AsyncStep ==
  ASSUME ProcInv, NEW t \in Parents, procSetAsyncRead(t)
  PROVE  ProcInv'
<1>1. obj \in ProcState /\ pc \in [Parents -> ProcStages]
  BY DEF ProcInv
<1>2. pc[t] = "idle" /\ pc' = [pc EXCEPT ![t] = "idle"]
  BY <1>1 DEF procSetAsyncRead, At, Stay
<1>3. obj' = [obj EXCEPT !.async[t] = ~@]
  BY DEF procSetAsyncRead
<1>4. obj' \in ProcState
  BY <1>1, <1>3 DEF ProcState
<1>5. /\ obj'.owner = obj.owner /\ obj'.dead = obj.dead /\ obj'.held = obj.held /\ obj'.pid = obj.pid
      /\ obj'.waited = obj.waited /\ obj'.bare = obj.bare /\ obj'.struck = obj.struck
      /\ obj'.reader = obj.reader /\ obj'.open = obj.open
  BY <1>1, <1>3 DEF ProcState
<1>6. obj'.windows <=> obj.windows
  BY <1>1, <1>3 DEF ProcState
<1>7. QED
  BY <1>2, <1>4, <1>5, <1>6, StageStep DEF ProcStages

(* What Died(o, P) is.                                                      *)
DiedFrom(o, P, d) ==
  /\ d.dead = o.dead \union {p \in P : o.owner[p] \in Parents}
  /\ \A p \in Pids : d.owner[p] = IF p \in P /\ o.owner[p] = "stranger" THEN "none" ELSE o.owner[p]
  /\ d.held = {h \in o.held : h[2] \notin P}
  /\ d.pid = o.pid /\ d.waited = o.waited /\ d.bare = o.bare /\ d.reader = o.reader /\ d.open = o.open
  /\ d.windows <=> o.windows

LEMMA DiedIs ==
  ASSUME NEW o \in ProcState, NEW P \in SUBSET Pids
  PROVE  /\ Died(o, P) \in ProcState /\ DiedFrom(o, P, Died(o, P))
         /\ Died(o, P).struck = o.struck
<1> DEFINE dead == o.dead \union {p \in P : o.owner[p] \in Parents}
           owner == [p \in Pids |-> IF p \in P /\ o.owner[p] = "stranger" THEN "none" ELSE o.owner[p]]
           held == {h \in o.held : h[2] \notin P}
           d == [o EXCEPT !.dead = dead, !.owner = owner, !.held = held]
<1>1. /\ o.owner \in [Pids -> Owners] /\ o.dead \in SUBSET Pids /\ o.held \in SUBSET (Parents \X Pids)
  BY ProcTypes
<1>2. Died(o, P) = d
  BY DEF Died, ProcState
<1>3. dead \in SUBSET Pids /\ held \in SUBSET (Parents \X Pids)
  BY <1>1
<1>4. owner \in [Pids -> Owners]
  <2>1. ASSUME NEW p \in Pids
        PROVE  (IF p \in P /\ o.owner[p] = "stranger" THEN "none" ELSE o.owner[p]) \in Owners
    BY <1>1, OwnersAre
  <2>2. QED
    BY <2>1
<1>5. \A p \in Pids : owner[p] = IF p \in P /\ o.owner[p] = "stranger" THEN "none" ELSE o.owner[p]
  OBVIOUS
<1> HIDE DEF dead, owner, held
<1>6. d \in ProcState
  BY <1>3, <1>4 DEF ProcState
<1>7. /\ d.dead = dead /\ d.owner = owner /\ d.held = held /\ d.struck = o.struck
      /\ d.pid = o.pid /\ d.waited = o.waited /\ d.bare = o.bare /\ d.reader = o.reader /\ d.open = o.open
  BY DEF ProcState
<1>8. d.windows <=> o.windows
  BY DEF ProcState
<1> HIDE DEF d
<1>9. DiedFrom(o, P, d)
  BY <1>5, <1>7, <1>8 DEF DiedFrom, dead, held
<1>10. QED
  BY <1>2, <1>6, <1>7, <1>9

\* The end of processes that live keeps what is known of children.
LEMMA DiedKnown ==
  ASSUME NEW o \in ProcState, NEW d \in ProcState, NEW P \in SUBSET Pids, NEW q,
         \A p \in P : Lives(o, p), DiedFrom(o, P, d), ChildrenKnown(o), ChildrenRun(o, q)
  PROVE  ChildrenKnown(d) /\ ChildrenRun(d, q)
<1>1. /\ o.owner \in [Pids -> Owners] /\ o.dead \in SUBSET Pids /\ o.held \in SUBSET (Parents \X Pids)
      /\ o.pid \in [Parents -> Pids \union {NoPid, Failed}] /\ d.dead \in SUBSET Pids
  BY ProcTypes
<1>2. \A p \in Pids : o.owner[p] \in Parents => d.owner[p] = o.owner[p]
  BY OwnersAre DEF DiedFrom
<1>3. \A p \in Pids \ P : d.owner[p] = o.owner[p]
  BY DEF DiedFrom
<1>4. d.pid = o.pid /\ d.waited = o.waited /\ d.bare = o.bare /\ d.held = {h \in o.held : h[2] \notin P}
      /\ d.dead = o.dead \union {p \in P : o.owner[p] \in Parents}
  BY DEF DiedFrom
<1>5. \A p \in d.dead : d.owner[p] \in Parents
  BY <1>1, <1>2, <1>4 DEF ChildrenKnown
<1>6. \A h \in d.held : Lives(d, h[2])
  <2> SUFFICES ASSUME NEW h \in o.held, h[2] \notin P PROVE d.owner[h[2]] # "none" /\ h[2] \notin d.dead
    BY <1>4 DEF Lives
  <2>1. h[2] \in Pids /\ o.owner[h[2]] # "none" /\ h[2] \notin o.dead
    BY <1>1 DEF ChildrenKnown, Lives
  <2>2. QED
    BY <1>3, <1>4, <2>1
<1>7. \A t \in Parents : d.pid[t] \in Pids /\ t \notin d.waited => d.owner[d.pid[t]] = t
  BY <1>2, <1>4 DEF ChildrenKnown
<1>8. ChildrenKnown(d)
  BY <1>4, <1>5, <1>6, <1>7 DEF ChildrenKnown
<1>9. ASSUME NEW p \in Pids, d.owner[p] \in Parents, p \notin d.dead
      PROVE  d.owner[p] = o.owner[p] /\ o.owner[p] \in Parents /\ p \notin o.dead
  BY <1>4, <1>9, OwnersAre DEF DiedFrom
<1>10. ChildrenRun(d, q)
  BY <1>4, <1>9 DEF ChildrenRun
<1>11. QED
  BY <1>8, <1>10

\* A child ends by itself, or another process does.
LEMMA EndsStep ==
  ASSUME ProcInv, NEW p \in Pids, childEnds(p)
  PROVE  ProcInv'
<1>1. /\ obj \in ProcState /\ pc \in [Parents -> ProcStages]
      /\ ChildrenKnown(obj) /\ Mistaken(obj, pc) /\ ReadersKnown(obj, pc) /\ ChildrenRun(obj, pc)
  BY DEF ProcInv
<1>2. obj' = Died(obj, {p}) /\ pc' = pc /\ Lives(obj, p)
  BY DEF childEnds, Stay, Alive, Lives
<1>3. obj' \in ProcState /\ DiedFrom(obj, {p}, obj') /\ obj'.struck = obj.struck
  BY <1>1, <1>2, DiedIs
<1>4. ChildrenKnown(obj') /\ ChildrenRun(obj', pc)
  <2>1. {p} \in SUBSET Pids /\ \A r \in {p} : Lives(obj, r)
    BY <1>2
  <2>2. QED
    BY <1>1, <1>3, <2>1, DiedKnown
<1>5. Mistaken(obj', pc)
  BY <1>1, <1>3 DEF Mistaken, DiedFrom
<1>6. ReadersKnown(obj', pc)
  BY <1>1, <1>3 DEF ReadersKnown, DiedFrom
<1>7. QED
  BY <1>1, <1>2, <1>3, <1>4, <1>5, <1>6 DEF ProcInv

\* kill() ends the child, if it has one, and by mistake others.
LEMMA KillStep ==
  ASSUME ProcInv, NEW t \in Parents, procKill(t)
  PROVE  ProcInv'
<1> DEFINE hit == IF obj.pid[t] = Failed THEN {p \in Pids : Alive(p)}
                  ELSE {p \in {obj.pid[t]} : Alive(p)}
           d == Died(obj, hit)
           struck == IF \E p \in hit : obj.owner[p] # t THEN d.struck \union {t} ELSE d.struck
<1>1. /\ obj \in ProcState /\ pc \in [Parents -> ProcStages]
      /\ ChildrenKnown(obj) /\ Mistaken(obj, pc) /\ ReadersKnown(obj, pc) /\ ChildrenRun(obj, pc)
  BY DEF ProcInv
<1>2. /\ obj.pid \in [Parents -> Pids \union {NoPid, Failed}] /\ obj.struck \in SUBSET Parents
  BY <1>1, ProcTypes
<1>3. pc[t] = "kill" /\ obj.pid[t] # NoPid
  BY <1>1 DEF procKill, At, ReadersKnown
<1>4. pc' \in [Parents -> ProcStages] /\ \A u \in Parents : pc'[u] = IF u = t THEN "join" ELSE pc[u]
  BY <1>1 DEF procKill, Go, ProcStages
<1>5. hit \in SUBSET Pids /\ \A p \in hit : Lives(obj, p)
  BY <1>2, <1>3 DEF Alive, Lives
<1>6. obj.pid[t] \in Pids => obj.pid[t] \in hit \/ ~Lives(obj, obj.pid[t])
  BY PidsAre DEF Alive, Lives
<1>7. (\E p \in hit : obj.owner[p] # t) => t \in obj.waited \union obj.bare
  BY <1>1, <1>2, <1>3 DEF ChildrenKnown
<1>8. obj' = [d EXCEPT !.struck = struck]
  <2>1. d \in ProcState
    BY <1>1, <1>5, DiedIs
  <2>2. obj' = [d EXCEPT !.struck = IF \E p \in hit : obj.owner[p] # t THEN @ \union {t} ELSE @]
    BY DEF procKill
  <2> HIDE DEF d
  <2>3. QED
    BY <2>1, <2>2 DEF ProcState
<1> HIDE DEF hit
<1>9. d \in ProcState /\ DiedFrom(obj, hit, d) /\ d.struck = obj.struck
  BY <1>1, <1>5, DiedIs
<1> HIDE DEF d
<1>10. struck \in SUBSET Parents /\ \A u \in struck : u \in obj.struck \/ (u = t /\ t \in obj.waited \union obj.bare)
  BY <1>2, <1>7, <1>9
<1> HIDE DEF struck
<1>11. obj' \in ProcState
  BY <1>8, <1>9, <1>10 DEF ProcState
<1>12. /\ obj'.owner = d.owner /\ obj'.dead = d.dead /\ obj'.held = d.held /\ obj'.pid = d.pid
       /\ obj'.waited = d.waited /\ obj'.bare = d.bare /\ obj'.struck = struck
       /\ obj'.reader = d.reader /\ obj'.open = d.open
  BY <1>8, <1>9 DEF ProcState
<1>13. obj'.windows <=> d.windows
  BY <1>8, <1>9 DEF ProcState
<1>14. DiedFrom(obj, hit, obj')
  BY <1>9, <1>12, <1>13 DEF DiedFrom
<1>15. ChildrenKnown(obj') /\ ChildrenRun(obj', pc)
  BY <1>1, <1>5, <1>11, <1>14, DiedKnown
<1>16. Mistaken(obj', pc')
  BY <1>1, <1>4, <1>10, <1>12, <1>14 DEF Mistaken, DiedFrom
<1>17. ReadersKnown(obj', pc')
  BY <1>1, <1>3, <1>4, <1>14 DEF ReadersKnown, DiedFrom
<1>18. ChildrenRun(obj', pc')
  <2> SUFFICES ASSUME NEW p \in Pids, obj'.owner[p] \in Parents, p \notin obj'.dead
               PROVE  /\ obj'.pid[obj'.owner[p]] = p
                      /\ pc'[obj'.owner[p]] \in {"close", "idle", "kill"}
    BY DEF ChildrenRun
  <2>1. obj'.pid[obj'.owner[p]] = p /\ pc[obj'.owner[p]] \in {"close", "idle", "kill"}
    BY <1>15 DEF ChildrenRun
  <2>2. obj'.owner[p] # t
    <3>1. SUFFICES ASSUME obj'.owner[p] = t PROVE FALSE
      OBVIOUS
    <3>2. obj.pid[t] = p /\ obj.owner[p] = t /\ p \notin obj.dead
      BY <1>14, <2>1, <3>1, OwnersAre DEF DiedFrom
    <3>3. p \in hit
      BY <1>6, <3>2, OwnersAre DEF Lives
    <3>4. QED
      BY <1>14, <3>2, <3>3 DEF DiedFrom
  <2>3. QED
    BY <1>4, <2>1, <2>2
<1>19. QED
  BY <1>4, <1>11, <1>15, <1>16, <1>17, <1>18 DEF ProcInv

\* join() forgets the child, which was killed before; on Windows it is over.
LEMMA JoinStep ==
  ASSUME ProcInv, NEW t \in Parents, procJoin(t)
  PROVE  ProcInv'
<1> DEFINE i == obj.pid[t]
           pid == [obj.pid EXCEPT ![t] = NoPid]
           reader == [obj.reader EXCEPT ![t] = "none"]
           open == [obj.open EXCEPT ![t] = FALSE]
           owner == IF obj.windows THEN [obj.owner EXCEPT ![i] = "none"] ELSE obj.owner
           dead == IF obj.windows THEN obj.dead \ {i} ELSE obj.dead
           waited == obj.waited \ {t}
           bare == obj.bare \ {t}
           struck == obj.struck \ {t}
<1>1. /\ obj \in ProcState /\ pc \in [Parents -> ProcStages]
      /\ ChildrenKnown(obj) /\ Mistaken(obj, pc) /\ ReadersKnown(obj, pc) /\ ChildrenRun(obj, pc)
  BY DEF ProcInv
<1>2. /\ obj.owner \in [Pids -> Owners] /\ obj.dead \in SUBSET Pids
      /\ obj.pid \in [Parents -> Pids \union {NoPid, Failed}] /\ obj.open \in [Parents -> BOOLEAN]
      /\ obj.held \in SUBSET (Parents \X Pids)
      /\ obj.reader \in [Parents -> {"none", "reads", "ended"}]
      /\ obj.next \in [Parents -> {"idle", "pipe"}]
      /\ obj.waited \in SUBSET Parents /\ obj.struck \in SUBSET Parents /\ obj.bare \in SUBSET Parents
  BY <1>1, ProcTypes
<1>3. pc[t] = "join" /\ i # NoPid /\ obj.reader[t] # "reads"
  BY <1>1 DEF procJoin, At, ReadersKnown
<1> DEFINE l == obj.next[t]
<1>4. /\ l \in {"idle", "pipe"} /\ pc' \in [Parents -> ProcStages]
      /\ \A u \in Parents : pc'[u] = IF u = t THEN l ELSE pc[u]
  BY <1>1, <1>2 DEF procJoin, Go, ProcStages
<1>5. obj' = [obj EXCEPT !.pid = pid, !.reader = reader, !.open = open, !.waited = waited, !.bare = bare,
                         !.struck = struck, !.owner = owner, !.dead = dead]
  BY <1>1 DEF procJoin, ProcState
<1>6. /\ pid \in [Parents -> Pids \union {NoPid, Failed}] /\ reader \in [Parents -> {"none", "reads", "ended"}]
      /\ open \in [Parents -> BOOLEAN] /\ dead \in SUBSET Pids
      /\ waited \in SUBSET Parents /\ struck \in SUBSET Parents /\ bare \in SUBSET Parents
  BY <1>2
<1>7. owner \in [Pids -> Owners]
  BY <1>2, OwnersAre
<1>8. /\ \A u \in Parents : pid[u] = IF u = t THEN NoPid ELSE obj.pid[u]
      /\ \A u \in Parents : reader[u] = IF u = t THEN "none" ELSE obj.reader[u]
      /\ \A p \in Pids : owner[p] = IF obj.windows /\ p = i THEN "none" ELSE obj.owner[p]
      /\ \A p \in Pids : p \in dead <=> p \in obj.dead /\ ~(obj.windows /\ p = i)
  BY <1>2
<1>9. \A u \in Parents : open[u] => obj.open[u]
  BY <1>2
<1>10. waited = obj.waited \ {t} /\ bare = obj.bare \ {t} /\ struck = obj.struck \ {t}
  OBVIOUS
<1> HIDE DEF pid, reader, open, owner, dead, waited, bare, struck
<1>11. obj' \in ProcState
  BY <1>1, <1>5, <1>6, <1>7 DEF ProcState
<1>12. /\ obj'.pid = pid /\ obj'.reader = reader /\ obj'.open = open /\ obj'.waited = waited
       /\ obj'.bare = bare /\ obj'.struck = struck /\ obj'.owner = owner /\ obj'.dead = dead
       /\ obj'.held = obj.held
  BY <1>1, <1>5 DEF ProcState
<1>13. obj'.windows <=> obj.windows
  BY <1>1, <1>5 DEF ProcState
<1>14. \A p \in Pids : ~(obj.owner[p] = t /\ p \notin obj.dead)
  BY <1>1, <1>3 DEF ChildrenRun
<1>15. obj.windows /\ i \in Pids => obj.owner[i] = t /\ i \in obj.dead
  <2>1. obj.windows => t \notin obj.waited
    BY <1>1 DEF Mistaken
  <2>2. obj.windows /\ i \in Pids => obj.owner[i] = t
    BY <1>1, <2>1 DEF ChildrenKnown
  <2>3. QED
    BY <1>14, <2>2
<1>16. ChildrenKnown(obj')
  <2>1. \A p \in dead : owner[p] \in Parents
    BY <1>1, <1>6, <1>8 DEF ChildrenKnown
  <2>2. \A h \in obj.held : owner[h[2]] # "none" /\ h[2] \notin dead
    <3> SUFFICES ASSUME NEW h \in obj.held PROVE owner[h[2]] # "none" /\ h[2] \notin dead
      OBVIOUS
    <3>1. h[2] \in Pids /\ obj.owner[h[2]] # "none" /\ h[2] \notin obj.dead
      BY <1>1, <1>2 DEF ChildrenKnown, Lives
    <3>2. ~(obj.windows /\ h[2] = i)
      BY <1>15, <3>1
    <3>3. QED
      BY <1>8, <3>1, <3>2
  <2>3. ASSUME NEW u \in Parents, pid[u] \in Pids, u \notin waited PROVE owner[pid[u]] = u
    <3>1. u # t /\ pid[u] = obj.pid[u] /\ u \notin obj.waited
      BY <1>8, <1>10, <2>3, PidsAre
    <3>2. obj.owner[pid[u]] = u
      BY <1>1, <2>3, <3>1 DEF ChildrenKnown
    <3>3. ~(obj.windows /\ pid[u] = i)
      BY <1>15, <2>3, <3>1, <3>2
    <3>4. QED
      BY <1>8, <2>3, <3>2, <3>3
  <2>4. \A u \in Parents : pid[u] = Failed => u \in bare
    BY <1>1, <1>8, <1>10, PidsAre DEF ChildrenKnown
  <2>5. QED
    BY <1>12, <2>1, <2>2, <2>3, <2>4 DEF ChildrenKnown, Lives
<1>17. Mistaken(obj', pc')
  BY <1>1, <1>2, <1>4, <1>10, <1>12, <1>13 DEF Mistaken
<1>18. ReadersKnown(obj', pc')
  <2> SUFFICES ASSUME NEW u \in Parents
               PROVE  /\ reader[u] = "reads" => ~open[u] /\ pc'[u] \in {"idle", "kill", "join"} /\ pid[u] # NoPid
                      /\ pc'[u] \in {"close", "kill", "join"} => pid[u] # NoPid
    BY <1>12 DEF ReadersKnown
  <2>1. CASE u = t
    BY <1>4, <1>8, <2>1
  <2>2. CASE u # t
    BY <1>1, <1>4, <1>8, <1>9, <2>2 DEF ReadersKnown
  <2>3. QED
    BY <2>1, <2>2
<1>19. ChildrenRun(obj', pc')
  <2> SUFFICES ASSUME NEW p \in Pids, owner[p] \in Parents, p \notin dead
               PROVE  pid[owner[p]] = p /\ pc'[owner[p]] \in {"close", "idle", "kill"}
    BY <1>12 DEF ChildrenRun
  <2>1. owner[p] = obj.owner[p] /\ p \notin obj.dead /\ obj.owner[p] \in Parents
    BY <1>8, OwnersAre
  <2>2. obj.owner[p] # t
    BY <1>14, <2>1
  <2>3. obj.pid[obj.owner[p]] = p /\ pc[obj.owner[p]] \in {"close", "idle", "kill"}
    BY <1>1, <2>1 DEF ChildrenRun
  <2>4. QED
    BY <1>4, <1>8, <2>1, <2>2, <2>3
<1>20. QED
  BY <1>4, <1>11, <1>16, <1>17, <1>18, <1>19 DEF ProcInv

\* pipe() is for an object without a child and without a reader.
LEMMA PipeStep ==
  ASSUME ProcInv, NEW t \in Parents, procPipe(t)
  PROVE  ProcInv'
<1> DEFINE open == [obj.open EXCEPT ![t] = TRUE]
           held == {h \in obj.held : h[1] # t}
<1>1. /\ obj \in ProcState /\ pc \in [Parents -> ProcStages]
      /\ ChildrenKnown(obj) /\ Mistaken(obj, pc) /\ ReadersKnown(obj, pc) /\ ChildrenRun(obj, pc)
  BY DEF ProcInv
<1>2. /\ obj.open \in [Parents -> BOOLEAN] /\ obj.held \in SUBSET (Parents \X Pids)
  BY <1>1, ProcTypes
<1>3. pc[t] = "pipe" /\ obj.reader[t] # "reads"
  BY <1>1 DEF procPipe, At, ReadersKnown
<1>4. PICK l \in {"idle", "fork"} : pc' = [pc EXCEPT ![t] = l]
  BY DEF procPipe, Go
<1>5. pc' \in [Parents -> ProcStages] /\ \A u \in Parents : pc'[u] = IF u = t THEN l ELSE pc[u]
  BY <1>1, <1>4 DEF ProcStages
<1>6. obj' = obj \/ obj' = [obj EXCEPT !.open = open, !.held = held]
  BY <1>1 DEF procPipe, ProcState
<1>7. /\ open \in [Parents -> BOOLEAN] /\ held \in SUBSET (Parents \X Pids) /\ held \subseteq obj.held
      /\ \A u \in Parents : u # t => (open[u] <=> obj.open[u])
  BY <1>2
<1> HIDE DEF open, held
<1>8. obj' \in ProcState
  BY <1>1, <1>6, <1>7 DEF ProcState
<1>9. /\ obj'.owner = obj.owner /\ obj'.dead = obj.dead /\ obj'.pid = obj.pid
      /\ obj'.waited = obj.waited /\ obj'.bare = obj.bare /\ obj'.struck = obj.struck
      /\ obj'.reader = obj.reader /\ obj'.open \in {obj.open, open} /\ obj'.held \in {obj.held, held}
  BY <1>1, <1>6 DEF ProcState
<1>10. obj'.windows <=> obj.windows
  BY <1>1, <1>6 DEF ProcState
<1>11. \A u \in Parents : u # t => (obj'.open[u] <=> obj.open[u])
  BY <1>7, <1>9
<1>12. ChildrenKnown(obj')
  <2>1. obj'.held \subseteq obj.held
    BY <1>7, <1>9
  <2>2. QED
    BY <1>1, <1>9, <2>1 DEF ChildrenKnown, Lives
<1>13. Mistaken(obj', pc')
  <2>1. obj'.windows => obj.waited = {} /\ obj.bare = {}
    BY <1>1, <1>10 DEF Mistaken
  <2>2. \A u \in obj.struck : pc'[u] = "join" /\ u \in obj.waited \union obj.bare
    <3>1. obj.struck \in SUBSET Parents
      BY <1>1, ProcTypes
    <3>2. QED
      BY <1>1, <1>3, <1>5, <3>1 DEF Mistaken
  <2>3. QED
    BY <1>9, <2>1, <2>2 DEF Mistaken
<1>14. ReadersKnown(obj', pc')
  <2> SUFFICES ASSUME NEW u \in Parents
               PROVE  /\ obj.reader[u] = "reads" => ~obj'.open[u] /\ pc'[u] \in {"idle", "kill", "join"} /\ obj.pid[u] # NoPid
                      /\ pc'[u] \in {"close", "kill", "join"} => obj.pid[u] # NoPid
    BY <1>9 DEF ReadersKnown
  <2>1. CASE u = t
    BY <1>3, <1>5, <2>1
  <2>2. CASE u # t
    BY <1>1, <1>5, <1>11, <2>2 DEF ReadersKnown
  <2>3. QED
    BY <2>1, <2>2
<1>15. ChildrenRun(obj', pc')
  BY <1>1, <1>3, <1>5, <1>9 DEF ChildrenRun
<1>16. QED
  BY <1>5, <1>8, <1>12, <1>13, <1>14, <1>15 DEF ProcInv

\* fork() makes a child, which is the only one.
LEMMA ForkStep ==
  ASSUME ProcInv, NEW t \in Parents, procFork(t)
  PROVE  ProcInv'
<1>1. /\ obj \in ProcState /\ pc \in [Parents -> ProcStages]
      /\ ChildrenKnown(obj) /\ Mistaken(obj, pc) /\ ReadersKnown(obj, pc) /\ ChildrenRun(obj, pc)
  BY DEF ProcInv
<1>2. /\ obj.owner \in [Pids -> Owners] /\ obj.dead \in SUBSET Pids
      /\ obj.pid \in [Parents -> Pids \union {NoPid, Failed}]
      /\ obj.held \in SUBSET (Parents \X Pids) /\ obj.bare \in SUBSET Parents
  BY <1>1, ProcTypes
<1>3. pc[t] = "fork" /\ obj.reader[t] # "reads"
  BY <1>1 DEF procFork, At, ReadersKnown
<1>4. ASSUME NEW p \in Pids, obj.owner[p] = "none", pc' = [pc EXCEPT ![t] = "close"],
             obj' = [obj EXCEPT !.owner[p] = t, !.pid[t] = p,
                                !.held = @ \union {<<u, p>> : u \in {u \in Parents : obj.open[u]}}]
      PROVE  ProcInv'
  <2> DEFINE owner == [obj.owner EXCEPT ![p] = t]
             pid == [obj.pid EXCEPT ![t] = p]
             held == obj.held \union {<<u, p>> : u \in {u \in Parents : obj.open[u]}}
  <2>1. obj' = [obj EXCEPT !.owner = owner, !.pid = pid, !.held = held]
    BY <1>1, <1>4 DEF ProcState
  <2>2. /\ owner \in [Pids -> Owners] /\ pid \in [Parents -> Pids \union {NoPid, Failed}]
        /\ held \in SUBSET (Parents \X Pids)
    BY <1>2, OwnersAre
  <2>3. /\ \A q \in Pids : owner[q] = IF q = p THEN t ELSE obj.owner[q]
        /\ \A u \in Parents : pid[u] = IF u = t THEN p ELSE obj.pid[u]
        /\ \A h \in held : h \in obj.held \/ h[2] = p
    BY <1>2
  <2>4. pc' \in [Parents -> ProcStages] /\ \A u \in Parents : pc'[u] = IF u = t THEN "close" ELSE pc[u]
    BY <1>1, <1>4 DEF ProcStages
  <2> HIDE DEF owner, pid, held
  <2>5. obj' \in ProcState
    BY <1>1, <2>1, <2>2 DEF ProcState
  <2>6. /\ obj'.owner = owner /\ obj'.pid = pid /\ obj'.held = held /\ obj'.dead = obj.dead
        /\ obj'.waited = obj.waited /\ obj'.bare = obj.bare /\ obj'.struck = obj.struck
        /\ obj'.reader = obj.reader /\ obj'.open = obj.open
    BY <1>1, <2>1 DEF ProcState
  <2>7. obj'.windows <=> obj.windows
    BY <1>1, <2>1 DEF ProcState
  <2>8. p \notin obj.dead
    BY <1>1, <1>4, OwnersAre DEF ChildrenKnown
  <2>9. ChildrenKnown(obj')
    <3>1. \A q \in obj.dead : owner[q] \in Parents
      BY <1>1, <1>2, <2>3 DEF ChildrenKnown
    <3>2. \A h \in held : owner[h[2]] # "none" /\ h[2] \notin obj.dead
      <4> SUFFICES ASSUME NEW h \in held PROVE owner[h[2]] # "none" /\ h[2] \notin obj.dead
        OBVIOUS
      <4>1. CASE h[2] = p
        BY <2>3, <2>8, <4>1, OwnersAre
      <4>2. CASE h \in obj.held
        BY <1>1, <1>2, <2>3, <4>2, OwnersAre DEF ChildrenKnown, Lives
      <4>3. QED
        BY <2>3, <4>1, <4>2
    <3>3. ASSUME NEW u \in Parents, pid[u] \in Pids, u \notin obj.waited PROVE owner[pid[u]] = u
      BY <1>1, <1>4, <2>3, <3>3, OwnersAre DEF ChildrenKnown
    <3>4. \A u \in Parents : pid[u] = Failed => u \in obj.bare
      BY <1>1, <2>3, PidsAre DEF ChildrenKnown
    <3>5. QED
      BY <2>6, <3>1, <3>2, <3>3, <3>4 DEF ChildrenKnown, Lives
  <2>10. Mistaken(obj', pc')
    <3>1. obj'.windows => obj.waited = {} /\ obj.bare = {}
      BY <1>1, <2>7 DEF Mistaken
    <3>2. \A u \in obj.struck : pc'[u] = "join" /\ u \in obj.waited \union obj.bare
      <4>1. obj.struck \in SUBSET Parents
        BY <1>1, ProcTypes
      <4>2. QED
        BY <1>1, <1>3, <2>4, <4>1 DEF Mistaken
    <3>3. QED
      BY <2>6, <3>1, <3>2 DEF Mistaken
  <2>11. ReadersKnown(obj', pc')
    BY <1>1, <1>3, <2>3, <2>4, <2>6, PidsAre DEF ReadersKnown
  <2>12. ChildrenRun(obj', pc')
    <3> SUFFICES ASSUME NEW q \in Pids, owner[q] \in Parents, q \notin obj.dead
                 PROVE  pid[owner[q]] = q /\ pc'[owner[q]] \in {"close", "idle", "kill"}
      BY <2>6 DEF ChildrenRun
    <3>1. CASE q = p
      BY <2>3, <2>4, <3>1
    <3>2. CASE q # p
      <4>1. owner[q] = obj.owner[q]
        BY <2>3, <3>2
      <4>2. obj.pid[owner[q]] = q /\ pc[owner[q]] \in {"close", "idle", "kill"}
        BY <1>1, <4>1 DEF ChildrenRun
      <4>3. QED
        BY <1>3, <2>3, <2>4, <4>2
    <3>3. QED
      BY <3>1, <3>2
  <2>13. QED
    BY <2>4, <2>5, <2>9, <2>10, <2>11, <2>12 DEF ProcInv
<1>5. ASSUME obj.windows, pc' = [pc EXCEPT ![t] = "idle"], obj' = obj
      PROVE  ProcInv'
  <2>1. "idle" \in ProcStages /\ obj.reader[t] # "reads"
    BY <1>3 DEF ProcStages
  <2>2. QED
    BY <1>1, <1>3, <1>5, <2>1, StageStep
<1>6. ASSUME ~obj.windows, pc' = [pc EXCEPT ![t] = "close"],
             obj' = [obj EXCEPT !.pid[t] = Failed, !.bare = @ \union {t}]
      PROVE  ProcInv'
  <2> DEFINE pid == [obj.pid EXCEPT ![t] = Failed]
             bare == obj.bare \union {t}
  <2>1. obj' = [obj EXCEPT !.pid = pid, !.bare = bare]
    BY <1>1, <1>6 DEF ProcState
  <2>2. /\ pid \in [Parents -> Pids \union {NoPid, Failed}] /\ bare \in SUBSET Parents
        /\ \A u \in Parents : pid[u] = IF u = t THEN Failed ELSE obj.pid[u]
    BY <1>2
  <2>3. pc' \in [Parents -> ProcStages] /\ \A u \in Parents : pc'[u] = IF u = t THEN "close" ELSE pc[u]
    BY <1>1, <1>6 DEF ProcStages
  <2>4. bare = obj.bare \union {t}
    OBVIOUS
  <2> HIDE DEF pid, bare
  <2>5. obj' \in ProcState
    BY <1>1, <2>1, <2>2 DEF ProcState
  <2>6. /\ obj'.owner = obj.owner /\ obj'.pid = pid /\ obj'.held = obj.held /\ obj'.dead = obj.dead
        /\ obj'.waited = obj.waited /\ obj'.bare = bare /\ obj'.struck = obj.struck
        /\ obj'.reader = obj.reader /\ obj'.open = obj.open
    BY <1>1, <2>1 DEF ProcState
  <2>7. obj'.windows <=> obj.windows
    BY <1>1, <2>1 DEF ProcState
  <2>8. ChildrenKnown(obj')
    BY <1>1, <2>2, <2>4, <2>6, PidsAre DEF ChildrenKnown, Lives
  <2>9. Mistaken(obj', pc')
    BY <1>1, <1>3, <1>6, <2>3, <2>4, <2>6, <2>7 DEF Mistaken
  <2>10. ReadersKnown(obj', pc')
    BY <1>1, <1>3, <2>2, <2>3, <2>6, PidsAre DEF ReadersKnown
  <2>11. ChildrenRun(obj', pc')
    BY <1>1, <1>3, <2>2, <2>3, <2>6 DEF ChildrenRun
  <2>12. QED
    BY <2>3, <2>5, <2>8, <2>9, <2>10, <2>11 DEF ProcInv
<1>7. QED
  BY <1>4, <1>5, <1>6 DEF procFork, Go

\* What the parent kept is closed, and a reader begins.
LEMMA ProcCloseStep ==
  ASSUME ProcInv, NEW t \in Parents, procClose(t)
  PROVE  ProcInv'
<1> DEFINE open == [obj.open EXCEPT ![t] = FALSE]
           x == Reading(t)
           reader == [obj.reader EXCEPT ![t] = x]
<1>1. /\ obj \in ProcState /\ pc \in [Parents -> ProcStages]
      /\ ChildrenKnown(obj) /\ Mistaken(obj, pc) /\ ReadersKnown(obj, pc) /\ ChildrenRun(obj, pc)
  BY DEF ProcInv
<1>2. /\ obj.open \in [Parents -> BOOLEAN] /\ obj.reader \in [Parents -> {"none", "reads", "ended"}]
      /\ obj.struck \in SUBSET Parents
  BY <1>1, ProcTypes
<1>3. pc[t] = "close" /\ obj.pid[t] # NoPid
  BY <1>1 DEF procClose, At, ReadersKnown
<1>4. pc' \in [Parents -> ProcStages] /\ \A u \in Parents : pc'[u] = IF u = t THEN "idle" ELSE pc[u]
  BY <1>1 DEF procClose, Go, ProcStages
<1>5. obj' = [obj EXCEPT !.open = open, !.reader = reader]
  BY <1>1 DEF procClose, ProcState
<1>6. x \in {"none", "reads", "ended"}
  BY DEF Reading
<1> HIDE DEF x
<1>7. /\ open \in [Parents -> BOOLEAN] /\ reader \in [Parents -> {"none", "reads", "ended"}]
      /\ \A u \in Parents : u # t => reader[u] = obj.reader[u]
  BY <1>2, <1>6
<1>8. ~open[t] /\ \A u \in Parents : u # t => (open[u] <=> obj.open[u])
  BY <1>2
<1> HIDE DEF open, reader
<1>9. obj' \in ProcState
  BY <1>1, <1>5, <1>7 DEF ProcState
<1>10. /\ obj'.owner = obj.owner /\ obj'.pid = obj.pid /\ obj'.held = obj.held /\ obj'.dead = obj.dead
       /\ obj'.waited = obj.waited /\ obj'.bare = obj.bare /\ obj'.struck = obj.struck
       /\ obj'.reader = reader /\ obj'.open = open
  BY <1>1, <1>5 DEF ProcState
<1>11. obj'.windows <=> obj.windows
  BY <1>1, <1>5 DEF ProcState
<1>12. ChildrenKnown(obj')
  BY <1>1, <1>10 DEF ChildrenKnown, Lives
<1>13. Mistaken(obj', pc')
  <2>1. obj'.windows => obj.waited = {} /\ obj.bare = {}
    BY <1>1, <1>11 DEF Mistaken
  <2>2. \A u \in obj.struck : pc'[u] = "join" /\ u \in obj.waited \union obj.bare
    BY <1>1, <1>2, <1>3, <1>4 DEF Mistaken
  <2>3. QED
    BY <1>10, <2>1, <2>2 DEF Mistaken
<1>14. ReadersKnown(obj', pc')
  <2> SUFFICES ASSUME NEW u \in Parents
               PROVE  /\ reader[u] = "reads" => ~open[u] /\ pc'[u] \in {"idle", "kill", "join"} /\ obj.pid[u] # NoPid
                      /\ pc'[u] \in {"close", "kill", "join"} => obj.pid[u] # NoPid
    BY <1>10 DEF ReadersKnown
  <2>1. CASE u = t
    BY <1>3, <1>4, <1>8, <2>1
  <2>2. CASE u # t
    BY <1>1, <1>4, <1>7, <1>8, <2>2 DEF ReadersKnown
  <2>3. QED
    BY <2>1, <2>2
<1>15. ChildrenRun(obj', pc')
  <2> SUFFICES ASSUME NEW p \in Pids, obj.owner[p] \in Parents, p \notin obj.dead
               PROVE  obj.pid[obj.owner[p]] = p /\ pc'[obj.owner[p]] \in {"close", "idle", "kill"}
    BY <1>10 DEF ChildrenRun
  <2>1. obj.pid[obj.owner[p]] = p /\ pc[obj.owner[p]] \in {"close", "idle", "kill"}
    BY <1>1 DEF ChildrenRun
  <2>2. QED
    BY <1>4, <2>1
<1>16. QED
  BY <1>4, <1>9, <1>12, <1>13, <1>14, <1>15 DEF ProcInv

\* A reader ends.
LEMMA ReaderEndsStep ==
  ASSUME ProcInv, NEW t \in Parents, procReaderEnds(t)
  PROVE  ProcInv'
<1> DEFINE reader == [obj.reader EXCEPT ![t] = "ended"]
<1>1. /\ obj \in ProcState /\ pc \in [Parents -> ProcStages]
      /\ ChildrenKnown(obj) /\ Mistaken(obj, pc) /\ ReadersKnown(obj, pc) /\ ChildrenRun(obj, pc)
  BY DEF ProcInv
<1>2. obj.reader \in [Parents -> {"none", "reads", "ended"}]
  BY <1>1, ProcTypes
<1>3. obj' = [obj EXCEPT !.reader = reader] /\ pc' = pc
  BY <1>1 DEF procReaderEnds, Stay, ProcState
<1>4. /\ reader \in [Parents -> {"none", "reads", "ended"}]
      /\ \A u \in Parents : reader[u] = "reads" => obj.reader[u] = "reads"
  BY <1>2
<1> HIDE DEF reader
<1>5. obj' \in ProcState
  BY <1>1, <1>3, <1>4 DEF ProcState
<1>6. /\ obj'.owner = obj.owner /\ obj'.pid = obj.pid /\ obj'.held = obj.held /\ obj'.dead = obj.dead
      /\ obj'.waited = obj.waited /\ obj'.bare = obj.bare /\ obj'.struck = obj.struck
      /\ obj'.reader = reader /\ obj'.open = obj.open
  BY <1>1, <1>3 DEF ProcState
<1>7. obj'.windows <=> obj.windows
  BY <1>1, <1>3 DEF ProcState
<1>8. ChildrenKnown(obj') /\ ChildrenRun(obj', pc)
  BY <1>1, <1>6 DEF ChildrenKnown, ChildrenRun, Lives
<1>9. Mistaken(obj', pc)
  <2>1. obj'.windows => obj.waited = {} /\ obj.bare = {}
    BY <1>1, <1>7 DEF Mistaken
  <2>2. QED
    BY <1>1, <1>6, <2>1 DEF Mistaken
<1>10. ReadersKnown(obj', pc)
  BY <1>1, <1>4, <1>6 DEF ReadersKnown
<1>11. QED
  BY <1>1, <1>3, <1>5, <1>8, <1>9, <1>10 DEF ProcInv

\* A child that ended is waited for, and its number is free.
LEMMA WaitStep ==
  ASSUME ProcInv, NEW t \in Parents, procWait(t)
  PROVE  ProcInv'
<1>1. /\ obj \in ProcState /\ pc \in [Parents -> ProcStages]
      /\ ChildrenKnown(obj) /\ Mistaken(obj, pc) /\ ReadersKnown(obj, pc) /\ ChildrenRun(obj, pc)
  BY DEF ProcInv
<1>2. /\ obj.owner \in [Pids -> Owners] /\ obj.dead \in SUBSET Pids
      /\ obj.held \in SUBSET (Parents \X Pids)
      /\ obj.waited \in SUBSET Parents
  BY <1>1, ProcTypes
<1>3. PICK p \in obj.dead : obj' = IF obj.windows THEN obj
                                   ELSE [obj EXCEPT !.dead = @ \ {p}, !.owner[p] = "none",
                                                    !.waited = @ \union {t, obj.owner[p]}]
  BY DEF procWait
<1>4. p \in Pids /\ obj.owner[p] \in Parents /\ pc' = pc
  BY <1>1, <1>2 DEF ChildrenKnown, procWait, Stay
<1>5. CASE obj.windows
  <2>1. obj' = obj
    BY <1>3, <1>5
  <2>2. QED
    BY <1>1, <1>4, <2>1 DEF ProcInv
<1>6. CASE ~obj.windows
  <2> DEFINE dead == obj.dead \ {p}
             owner == [obj.owner EXCEPT ![p] = "none"]
             waited == obj.waited \union {t, obj.owner[p]}
  <2>1. obj' = [obj EXCEPT !.dead = dead, !.owner = owner, !.waited = waited]
    BY <1>1, <1>3, <1>6 DEF ProcState
  <2>2. /\ dead \in SUBSET Pids /\ owner \in [Pids -> Owners] /\ waited \in SUBSET Parents
        /\ \A q \in Pids : owner[q] = IF q = p THEN "none" ELSE obj.owner[q]
        /\ obj.waited \subseteq waited /\ obj.owner[p] \in waited
        /\ \A q : q \in dead <=> q \in obj.dead /\ q # p
    BY <1>2, <1>4, OwnersAre
  <2> HIDE DEF dead, owner, waited
  <2>3. obj' \in ProcState
    BY <1>1, <2>1, <2>2 DEF ProcState
  <2>4. /\ obj'.owner = owner /\ obj'.pid = obj.pid /\ obj'.held = obj.held /\ obj'.dead = dead
        /\ obj'.waited = waited /\ obj'.bare = obj.bare /\ obj'.struck = obj.struck
        /\ obj'.reader = obj.reader /\ obj'.open = obj.open
    BY <1>1, <2>1 DEF ProcState
  <2>5. ~obj'.windows
    BY <1>1, <1>6, <2>1 DEF ProcState
  <2>6. ChildrenKnown(obj')
    <3>1. \A q \in dead : owner[q] \in Parents
      BY <1>1, <1>2, <2>2 DEF ChildrenKnown
    <3>2. \A h \in obj.held : owner[h[2]] # "none" /\ h[2] \notin dead
      <4> SUFFICES ASSUME NEW h \in obj.held PROVE owner[h[2]] # "none" /\ h[2] \notin dead
        OBVIOUS
      <4>1. h[2] \in Pids /\ obj.owner[h[2]] # "none" /\ h[2] \notin obj.dead
        BY <1>1, <1>2 DEF ChildrenKnown, Lives
      <4>2. QED
        BY <2>2, <4>1
    <3>3. ASSUME NEW u \in Parents, obj.pid[u] \in Pids, u \notin waited PROVE owner[obj.pid[u]] = u
      BY <1>1, <2>2, <3>3 DEF ChildrenKnown
    <3>4. \A u \in Parents : obj.pid[u] = Failed => u \in obj.bare
      BY <1>1 DEF ChildrenKnown
    <3>5. QED
      BY <2>4, <3>1, <3>2, <3>3, <3>4 DEF ChildrenKnown, Lives
  <2>7. Mistaken(obj', pc)
    <3>1. \A u \in obj.struck : pc[u] = "join" /\ u \in waited \union obj.bare
      BY <1>1, <2>2 DEF Mistaken
    <3>2. QED
      BY <2>4, <2>5, <3>1 DEF Mistaken
  <2>8. ReadersKnown(obj', pc)
    BY <1>1, <2>4 DEF ReadersKnown
  <2>9. ChildrenRun(obj', pc)
    <3> SUFFICES ASSUME NEW q \in Pids, owner[q] \in Parents, q \notin dead
                 PROVE  obj.pid[owner[q]] = q /\ pc[owner[q]] \in {"close", "idle", "kill"}
      BY <2>4 DEF ChildrenRun
    <3>1. q # p /\ owner[q] = obj.owner[q] /\ q \notin obj.dead
      BY <2>2, OwnersAre
    <3>2. QED
      BY <1>1, <3>1 DEF ChildrenRun
  <2>10. QED
    BY <1>1, <1>4, <2>3, <2>6, <2>7, <2>8, <2>9 DEF ProcInv
<1>7. QED
  BY <1>5, <1>6

\* A number that is free may be a stranger's.
LEMMA StrangerStep ==
  ASSUME ProcInv, NEW p \in Pids, strangerStarts(p)
  PROVE  ProcInv'
<1> DEFINE owner == [obj.owner EXCEPT ![p] = "stranger"]
<1>1. /\ obj \in ProcState /\ pc \in [Parents -> ProcStages]
      /\ ChildrenKnown(obj) /\ Mistaken(obj, pc) /\ ReadersKnown(obj, pc) /\ ChildrenRun(obj, pc)
  BY DEF ProcInv
<1>2. /\ obj.owner \in [Pids -> Owners] /\ obj.dead \in SUBSET Pids
      /\ obj.held \in SUBSET (Parents \X Pids)
  BY <1>1, ProcTypes
<1>3. obj' = [obj EXCEPT !.owner = owner] /\ pc' = pc /\ obj.owner[p] = "none"
  BY <1>1 DEF strangerStarts, Stay, ProcState
<1>4. owner \in [Pids -> Owners] /\ \A q \in Pids : owner[q] = IF q = p THEN "stranger" ELSE obj.owner[q]
  BY <1>2, OwnersAre
<1> HIDE DEF owner
<1>5. obj' \in ProcState
  BY <1>1, <1>3, <1>4 DEF ProcState
<1>6. /\ obj'.owner = owner /\ obj'.pid = obj.pid /\ obj'.held = obj.held /\ obj'.dead = obj.dead
      /\ obj'.waited = obj.waited /\ obj'.bare = obj.bare /\ obj'.struck = obj.struck
      /\ obj'.reader = obj.reader /\ obj'.open = obj.open
  BY <1>1, <1>3 DEF ProcState
<1>7. obj'.windows <=> obj.windows
  BY <1>1, <1>3 DEF ProcState
<1>8. ChildrenKnown(obj')
  <2>1. \A q \in obj.dead : owner[q] \in Parents
    BY <1>1, <1>2, <1>3, <1>4, OwnersAre DEF ChildrenKnown
  <2>2. \A h \in obj.held : owner[h[2]] # "none" /\ h[2] \notin obj.dead
    BY <1>1, <1>2, <1>4 DEF ChildrenKnown, Lives
  <2>3. ASSUME NEW u \in Parents, obj.pid[u] \in Pids, u \notin obj.waited PROVE owner[obj.pid[u]] = u
    BY <1>1, <1>3, <1>4, <2>3, OwnersAre DEF ChildrenKnown
  <2>4. \A u \in Parents : obj.pid[u] = Failed => u \in obj.bare
    BY <1>1 DEF ChildrenKnown
  <2>5. QED
    BY <1>6, <2>1, <2>2, <2>3, <2>4 DEF ChildrenKnown, Lives
<1>9. Mistaken(obj', pc)
  <2>1. obj'.windows => obj.waited = {} /\ obj.bare = {}
    BY <1>1, <1>7 DEF Mistaken
  <2>2. QED
    BY <1>1, <1>6, <2>1 DEF Mistaken
<1>10. ReadersKnown(obj', pc)
  BY <1>1, <1>6 DEF ReadersKnown
<1>11. ChildrenRun(obj', pc)
  <2> SUFFICES ASSUME NEW q \in Pids, owner[q] \in Parents, q \notin obj.dead
               PROVE  obj.pid[owner[q]] = q /\ pc[owner[q]] \in {"close", "idle", "kill"}
    BY <1>6 DEF ChildrenRun
  <2>1. owner[q] = obj.owner[q]
    BY <1>4, OwnersAre
  <2>2. QED
    BY <1>1, <2>1 DEF ChildrenRun
<1>12. QED
  BY <1>1, <1>3, <1>5, <1>8, <1>9, <1>10, <1>11 DEF ProcInv

\* Every step of Process keeps it.
LEMMA ProcStep == ProcInv /\ ProcessNext => ProcInv'
BY StartStep, AsyncStep, KillStep, JoinStep, PipeStep, ForkStep, ProcCloseStep, ReaderEndsStep, WaitStep,
   EndsStep, StrangerStep DEF ProcessNext

\* A reader whose pipe is still open waits for a child that lives and is not
\* of its object, whose own is dead.
LEMMA ProcHeld == ProcInv => OwnChildStopped
<1> SUFFICES ASSUME ProcInv PROVE OwnChildStopped
  OBVIOUS
<1>1. /\ obj \in ProcState /\ pc \in [Parents -> ProcStages]
      /\ ChildrenKnown(obj) /\ Mistaken(obj, pc) /\ ReadersKnown(obj, pc) /\ ChildrenRun(obj, pc)
  BY DEF ProcInv
<1>2. obj.held \in SUBSET (Parents \X Pids)
  BY <1>1, ProcTypes
<1>3. \A t \in Parents : At(t, "join") /\ t \in obj.struck => t \in obj.waited \union obj.bare
  BY <1>1 DEF Mistaken
<1>4. ASSUME NEW t \in Parents, At(t, "join"), obj.reader[t] = "reads", ~CanEnd(t)
      PROVE  \E h \in obj.held : h[1] = t /\ Alive(h[2]) /\ obj.owner[h[2]] # t
  <2>1. PICK h \in obj.held : h[1] = t
    BY <1>1, <1>4 DEF ReadersKnown, CanEnd
  <2>2. h[2] \in Pids /\ Alive(h[2])
    BY <1>1, <1>2 DEF ChildrenKnown, Lives, Alive
  <2>3. obj.owner[h[2]] # t
    BY <1>1, <1>4, <2>2 DEF ChildrenRun, Alive, At
  <2>4. QED
    BY <2>1, <2>2, <2>3
<1>5. obj.windows => obj.struck = {}
  <2>1. obj.windows => obj.waited = {} /\ obj.bare = {}
    BY <1>1 DEF Mistaken
  <2>2. \A t \in obj.struck : t \in obj.waited \union obj.bare
    BY <1>1 DEF Mistaken
  <2>3. QED
    BY <2>1, <2>2
<1>6. QED
  BY <1>3, <1>4, <1>5 DEF OwnChildStopped

-----------------------------------------------------------------------------
(* Sqlite3DataBase.  Connections are numbered as they are opened, and       *)
(* statements as they are prepared.                                         *)
ConnStates == {"open", "closed", "kept"}
Statements == [conn : Nat, finalized : BOOLEAN]
SqliteState ==
  [db : Nat, conns : Seq(ConnStates), lost : SUBSET Nat, stmts : Seq(Statements),
   slot : [Variables -> Nat], copied : SUBSET Nat, twice : BOOLEAN, calls : Nat]

Numbered(o) ==
  /\ o.db \in 0..Len(o.conns) /\ o.lost \subseteq 1..Len(o.conns) /\ o.db \notin o.lost
  /\ \A i \in 1..Len(o.stmts) : o.stmts[i].conn \in 1..Len(o.conns)
  /\ \A s \in Variables : o.slot[s] \in 0..Len(o.stmts)
Live(o, c) == \E i \in 1..Len(o.stmts) : o.stmts[i].conn = c /\ ~o.stmts[i].finalized
ConnsOwned(o) ==
  \A c \in 1..Len(o.conns) : /\ o.conns[c] = "open" <=> c = o.db \/ c \in o.lost
                             /\ o.conns[c] = "kept" => Live(o, c)
StmtsOwned(o) ==
  \A i \in 1..Len(o.stmts) : i \notin o.copied =>
    /\ o.stmts[i].finalized <=> \A s \in Variables : o.slot[s] # i
    /\ \A s, r \in Variables : o.slot[s] = i /\ o.slot[r] = i => s = r

SqliteInv ==
  /\ obj \in SqliteState /\ Numbered(obj) /\ ConnsOwned(obj) /\ StmtsOwned(obj)
  /\ obj.twice => obj.copied # {}

LEMMA SqliteInvInit == SqliteInit => SqliteInv
<1> SUFFICES ASSUME SqliteInit PROVE SqliteInv
  OBVIOUS
<1>1. Len(<<>>) = 0 /\ <<>> \in Seq(ConnStates) /\ <<>> \in Seq(Statements)
  OBVIOUS
<1>2. obj \in SqliteState
  BY <1>1 DEF SqliteInit, SqliteState
<1>3. QED
  BY <1>1, <1>2 DEF SqliteInit, SqliteInv, Numbered, ConnsOwned, StmtsOwned

\* The calls are counted, and nothing is said of the count.
LEMMA CallCounted ==
  ASSUME NEW o \in SqliteState, SqliteDid(o), Numbered(o), ConnsOwned(o), StmtsOwned(o),
         o.twice => o.copied # {}
  PROVE  SqliteInv'
<1>1. obj' = [o EXCEPT !.calls = @ + 1]
  BY DEF SqliteDid, SqliteState
<1>2. obj' \in SqliteState
  BY <1>1 DEF SqliteState
<1>3. /\ obj'.db = o.db /\ obj'.conns = o.conns /\ obj'.lost = o.lost /\ obj'.stmts = o.stmts
      /\ obj'.slot = o.slot /\ obj'.copied = o.copied
  BY <1>1 DEF SqliteState
<1>4. obj'.twice = o.twice
  BY <1>1 DEF SqliteState
<1>5. Numbered(obj') /\ ConnsOwned(obj') /\ StmtsOwned(obj')
  BY <1>3 DEF Numbered, ConnsOwned, StmtsOwned, Live
<1>6. obj'.twice => obj'.copied # {}
  <2>1. obj'.twice <=> o.twice
    BY <1>4
  <2>2. QED
    BY <1>3, <2>1
<1>7. QED
  BY <1>2, <1>5, <1>6 DEF SqliteInv

\* open() appends a connection; the one there was, or the new one, is lost.
LEMMA OpenDbStep ==
  ASSUME SqliteInv, openDb
  PROVE  SqliteInv'
<1> DEFINE new == Len(obj.conns) + 1
           conns == Append(obj.conns, "open")
           lost == obj.lost \union ({obj.db} \ {0})
           o == [obj EXCEPT !.conns = conns, !.lost = lost]
<1>1. /\ obj \in SqliteState /\ Numbered(obj) /\ ConnsOwned(obj) /\ StmtsOwned(obj)
      /\ obj.twice => obj.copied # {}
  BY DEF SqliteInv
<1>2. obj.conns \in Seq(ConnStates) /\ Len(obj.conns) \in Nat /\ obj.db \in Nat
      /\ obj.stmts \in Seq(Statements) /\ Len(obj.stmts) \in Nat
  BY <1>1 DEF SqliteState
<1>3. /\ conns \in Seq(ConnStates) /\ Len(conns) = new /\ conns[new] = "open"
      /\ \A c \in 1..Len(obj.conns) : conns[c] = obj.conns[c]
  BY <1>2 DEF ConnStates
<1>4. lost \subseteq 1..Len(obj.conns) /\ lost \in SUBSET Nat /\ new \in Nat
  BY <1>1, <1>2 DEF Numbered
<1>5. SqliteDid([o EXCEPT !.db = new]) \/ SqliteDid([o EXCEPT !.db = 0, !.lost = @ \union {new}])
  BY DEF openDb
<1>6. \A c \in 1..Len(obj.conns) : c \in lost <=> c = obj.db \/ c \in obj.lost
  BY <1>2
<1> HIDE DEF conns, lost
<1>7. ASSUME NEW p \in SqliteState, p.conns = conns, p.stmts = obj.stmts, p.slot = obj.slot,
             p.copied = obj.copied, p.twice = obj.twice, SqliteDid(p),
             \/ p.db = new /\ p.lost = lost
             \/ p.db = 0 /\ p.lost = lost \union {new}
      PROVE  SqliteInv'
  <2>1. Numbered(p)
    <3>1. new \notin lost /\ 0 \notin lost \union {new}
      BY <1>2, <1>4
    <3>2. p.db \in 0..new /\ p.lost \subseteq 1..new /\ p.db \notin p.lost
      <4>1. 1..Len(obj.conns) \subseteq 1..new /\ new \in 1..new /\ 0 \in 0..new /\ new \in 0..new
        BY <1>2
      <4>2. lost \subseteq 1..new /\ lost \union {new} \subseteq 1..new
        BY <1>4, <4>1
      <4>3. QED
        BY <1>7, <3>1, <4>1, <4>2
    <3>3. \A i \in 1..Len(obj.stmts) : obj.stmts[i].conn \in 1..new
      BY <1>1, <1>2 DEF Numbered
    <3>4. QED
      BY <1>1, <1>3, <1>7, <3>2, <3>3 DEF Numbered
  <2>2. StmtsOwned(p)
    BY <1>1, <1>7 DEF StmtsOwned
  <2>3. ConnsOwned(p)
    <3>1. \A c : Live(p, c) <=> Live(obj, c)
      BY <1>7 DEF Live
    <3>2. ASSUME NEW c \in 1..Len(obj.conns)
          PROVE  /\ p.conns[c] = "open" <=> c = p.db \/ c \in p.lost
                 /\ p.conns[c] = "kept" => Live(p, c)
      <4>1. c # new /\ c # 0 /\ conns[c] = obj.conns[c]
        BY <1>2, <1>3
      <4>2. c = p.db \/ c \in p.lost <=> c = obj.db \/ c \in obj.lost
        BY <1>6, <1>7, <4>1
      <4>3. QED
        BY <1>1, <1>7, <3>1, <4>1, <4>2 DEF ConnsOwned
    <3>3. p.conns[new] = "open" /\ (new = p.db \/ new \in p.lost)
      BY <1>3, <1>7
    <3>4. \A c \in 1..Len(conns) : c \in 1..Len(obj.conns) \/ c = new
      BY <1>2, <1>3
    <3>5. QED
      BY <1>7, <3>2, <3>3, <3>4 DEF ConnsOwned
  <2>4. QED
    BY <1>1, <1>7, <2>1, <2>2, <2>3, CallCounted
<1>8. CASE SqliteDid([o EXCEPT !.db = new])
  <2> DEFINE p == [obj EXCEPT !.conns = conns, !.lost = lost, !.db = new]
  <2>1. SqliteDid(p)
    BY <1>8
  <2>2. p \in SqliteState
    BY <1>1, <1>3, <1>4 DEF SqliteState
  <2>3. /\ p.conns = conns /\ p.stmts = obj.stmts /\ p.slot = obj.slot /\ p.copied = obj.copied
        /\ p.db = new /\ p.lost = lost
    BY <1>1 DEF SqliteState
  <2>4. p.twice = obj.twice
    BY <1>1 DEF SqliteState
  <2> HIDE DEF p
  <2>5. QED
    BY <1>7, <2>1, <2>2, <2>3, <2>4
<1>9. CASE SqliteDid([o EXCEPT !.db = 0, !.lost = @ \union {new}])
  <2> DEFINE l == lost \union {new}
             p == [obj EXCEPT !.conns = conns, !.lost = l, !.db = 0]
  <2>1. SqliteDid(p)
    BY <1>1, <1>9 DEF SqliteState
  <2>2. l \in SUBSET Nat
    BY <1>2, <1>4
  <2> HIDE DEF l
  <2>3. p \in SqliteState
    BY <1>1, <1>2, <1>3, <2>2 DEF SqliteState
  <2>4. /\ p.conns = conns /\ p.stmts = obj.stmts /\ p.slot = obj.slot /\ p.copied = obj.copied
        /\ p.db = 0 /\ p.lost = l
    BY <1>1 DEF SqliteState
  <2>5. p.twice = obj.twice
    BY <1>1 DEF SqliteState
  <2> HIDE DEF p
  <2>6. QED
    BY <1>7, <2>1, <2>3, <2>4, <2>5 DEF l
<1>10. QED
  BY <1>5, <1>8, <1>9

\* close() leaves a connection whose statements live to them.
LEMMA CloseDbStep ==
  ASSUME SqliteInv, closeDb
  PROVE  SqliteInv'
<1> DEFINE d == obj.db
           x == IF LiveStatements(obj, d) = {} THEN "closed" ELSE "kept"
           conns == [obj.conns EXCEPT ![d] = x]
           p == [obj EXCEPT !.db = 0, !.conns = conns]
<1>1. /\ obj \in SqliteState /\ Numbered(obj) /\ ConnsOwned(obj) /\ StmtsOwned(obj)
      /\ obj.twice => obj.copied # {}
  BY DEF SqliteInv
<1>2. obj.conns \in Seq(ConnStates) /\ Len(obj.conns) \in Nat /\ d \in 1..Len(obj.conns)
      /\ obj.stmts \in Seq(Statements)
  BY <1>1 DEF SqliteState, Numbered, closeDb
<1>3. x \in ConnStates /\ x # "open" /\ (x = "kept" => Live(obj, d))
  BY <1>2 DEF ConnStates, LiveStatements, Live
<1>4. SqliteDid(p)
  BY DEF closeDb
<1> HIDE DEF x, d
<1>5. /\ conns \in Seq(ConnStates) /\ Len(conns) = Len(obj.conns)
      /\ \A c \in 1..Len(obj.conns) : conns[c] = IF c = d THEN x ELSE obj.conns[c]
  BY <1>2, <1>3, ExceptSeq
<1> HIDE DEF conns
<1>6. p \in SqliteState
  BY <1>1, <1>5 DEF SqliteState
<1>7. /\ p.conns = conns /\ p.stmts = obj.stmts /\ p.slot = obj.slot /\ p.copied = obj.copied
      /\ p.db = 0 /\ p.lost = obj.lost
  BY <1>1 DEF SqliteState
<1>8. p.twice = obj.twice
  BY <1>1 DEF SqliteState
<1> HIDE DEF p
<1>9. Numbered(p)
  BY <1>1, <1>2, <1>5, <1>7 DEF Numbered
<1>10. StmtsOwned(p)
  BY <1>1, <1>7 DEF StmtsOwned
<1>11. ConnsOwned(p)
  <2>1. \A c : Live(p, c) <=> Live(obj, c)
    BY <1>7 DEF Live
  <2>2. ASSUME NEW c \in 1..Len(obj.conns)
        PROVE  /\ p.conns[c] = "open" <=> c = p.db \/ c \in p.lost
               /\ p.conns[c] = "kept" => Live(p, c)
    <3>1. c # 0 /\ d \notin obj.lost
      BY <1>1, <1>2 DEF Numbered, d
    <3>2. CASE c = d
      BY <1>2, <1>3, <1>5, <1>7, <2>1, <3>1, <3>2
    <3>3. CASE c # d
      <4>1. obj.conns[c] = "open" <=> c = d \/ c \in obj.lost
        BY <1>1 DEF ConnsOwned, d
      <4>2. obj.conns[c] = "kept" => Live(obj, c)
        BY <1>1 DEF ConnsOwned
      <4>3. QED
        BY <1>5, <1>7, <2>1, <3>1, <3>3, <4>1, <4>2
    <3>4. QED
      BY <3>2, <3>3
  <2>3. QED
    BY <1>5, <1>7, <2>2 DEF ConnsOwned
<1>12. QED
  BY <1>1, <1>4, <1>6, <1>7, <1>8, <1>9, <1>10, <1>11, CallCounted

\* A variable that goes finalizes its statement, and with the last statement
\* a connection that was left to it.
LEMMA DestroyStep ==
  ASSUME SqliteInv, NEW s \in Variables, destroyStatment(s)
  PROVE  SqliteInv'
<1> DEFINE i == obj.slot[s]
           c == obj.stmts[i].conn
           slots == [obj.slot EXCEPT ![s] = 0]
<1>1. /\ obj \in SqliteState /\ Numbered(obj) /\ ConnsOwned(obj) /\ StmtsOwned(obj)
      /\ obj.twice => obj.copied # {}
  BY DEF SqliteInv
<1>2. /\ obj.conns \in Seq(ConnStates) /\ Len(obj.conns) \in Nat /\ obj.stmts \in Seq(Statements)
      /\ Len(obj.stmts) \in Nat /\ obj.slot \in [Variables -> Nat]
  BY <1>1 DEF SqliteState
<1>3. i \in 1..Len(obj.stmts) /\ c \in 1..Len(obj.conns) /\ i # 0
  BY <1>1, <1>2 DEF Numbered, destroyStatment
<1>4. SqliteDid(Ended(obj, s))
  BY DEF destroyStatment
<1>5. /\ slots \in [Variables -> Nat] /\ \A r \in Variables : slots[r] = IF r = s THEN 0 ELSE obj.slot[r]
      /\ slots \in [Variables -> Nat]
  BY <1>2
<1> HIDE DEF slots
<1>6. CASE obj.stmts[i].finalized
  <2> DEFINE p == [obj EXCEPT !.twice = TRUE, !.slot = slots]
  <2>1. Finalized(obj, s) = [obj EXCEPT !.twice = TRUE]
    BY <1>3, <1>6 DEF Finalized
  <2>2. Ended(obj, s) = [[obj EXCEPT !.twice = TRUE] EXCEPT !.slot = [obj.slot EXCEPT ![s] = 0]]
    BY <1>1, <2>1 DEF Ended, SqliteState
  <2>3. SqliteDid(p)
    BY <1>4, <2>2 DEF slots
  <2>4. p \in SqliteState
    BY <1>1, <1>5 DEF SqliteState
  <2>5. /\ p.conns = obj.conns /\ p.stmts = obj.stmts /\ p.slot = slots /\ p.copied = obj.copied
        /\ p.db = obj.db /\ p.lost = obj.lost
    BY <1>1 DEF SqliteState
  <2> HIDE DEF p
  <2>6. i \in obj.copied
    BY <1>1, <1>3, <1>6 DEF StmtsOwned
  <2>7. Numbered(p)
    BY <1>1, <1>2, <1>5, <2>5 DEF Numbered
  <2>8. ConnsOwned(p)
    BY <1>1, <2>5 DEF ConnsOwned, Live
  <2>9. StmtsOwned(p)
    BY <1>1, <1>5, <2>5, <2>6 DEF StmtsOwned
  <2>10. QED
    BY <2>3, <2>4, <2>5, <2>6, <2>7, <2>8, <2>9, CallCounted
<1>7. CASE ~obj.stmts[i].finalized
  <2> DEFINE stmts == [obj.stmts EXCEPT ![i].finalized = TRUE]
             f == [obj EXCEPT !.stmts = stmts]
             conns == IF obj.conns[c] = "kept" /\ LiveStatements(f, c) = {}
                      THEN [obj.conns EXCEPT ![c] = "closed"] ELSE obj.conns
             p == [obj EXCEPT !.stmts = stmts, !.conns = conns, !.slot = slots]
  <2>1. /\ stmts \in Seq(Statements) /\ Len(stmts) = Len(obj.stmts)
        /\ \A j \in 1..Len(obj.stmts) : j # i => stmts[j] = obj.stmts[j]
        /\ stmts[i].conn = c /\ stmts[i].finalized
    <3> DEFINE e == [obj.stmts[i] EXCEPT !.finalized = TRUE]
    <3>1. obj.stmts[i] \in Statements
      BY <1>2, <1>3
    <3>2. e \in Statements /\ e.conn = c /\ e.finalized
      BY <3>1 DEF Statements
    <3> HIDE DEF e
    <3>3. stmts = [obj.stmts EXCEPT ![i] = e]
      BY DEF e
    <3> HIDE DEF stmts
    <3>4. /\ stmts \in Seq(Statements) /\ Len(stmts) = Len(obj.stmts)
          /\ \A j \in 1..Len(obj.stmts) : stmts[j] = IF j = i THEN e ELSE obj.stmts[j]
      BY <1>2, <1>3, <3>2, <3>3, ExceptSeq
    <3>5. stmts[i] = e
      BY <1>3, <3>4
    <3>6. QED
      BY <3>2, <3>4, <3>5
  <2>2. f.conns = obj.conns /\ f.slot = obj.slot /\ f.stmts = stmts /\ f \in SqliteState
    BY <1>1, <2>1 DEF SqliteState
  <2>3. Finalized(obj, s) = IF obj.conns[c] = "kept" /\ LiveStatements(f, c) = {}
                            THEN [f EXCEPT !.conns[c] = "closed"] ELSE f
    BY <1>1, <1>3, <1>7 DEF Finalized, SqliteState
  <2> HIDE DEF stmts, f
  <2>4. Finalized(obj, s) = [f EXCEPT !.conns = conns]
    BY <2>2, <2>3 DEF SqliteState
  <2>5. SqliteDid(p)
    <3>1. Ended(obj, s) = [[f EXCEPT !.conns = conns] EXCEPT !.slot[s] = 0]
      BY <2>4 DEF Ended
    <3> HIDE DEF conns
    <3>2. [[f EXCEPT !.conns = conns] EXCEPT !.slot[s] = 0] = p
      BY <1>1, <2>2 DEF f, slots, SqliteState
    <3>3. QED
      BY <1>4, <3>1, <3>2
  <2>6. /\ conns \in Seq(ConnStates) /\ Len(conns) = Len(obj.conns)
        /\ \A k \in 1..Len(obj.conns) :
             conns[k] = obj.conns[k] \/ (k = c /\ conns[k] = "closed" /\ obj.conns[k] = "kept")
    <3> DEFINE shut == [obj.conns EXCEPT ![c] = "closed"]
    <3>1. "closed" \in ConnStates
      BY DEF ConnStates
    <3>2. /\ shut \in Seq(ConnStates) /\ Len(shut) = Len(obj.conns)
          /\ \A k \in 1..Len(obj.conns) : shut[k] = IF k = c THEN "closed" ELSE obj.conns[k]
      BY <1>2, <1>3, <3>1, ExceptSeq
    <3> HIDE DEF shut
    <3>3. CASE obj.conns[c] = "kept" /\ LiveStatements(f, c) = {}
      <4>1. conns = shut
        BY <3>3 DEF shut
      <4> HIDE DEF conns
      <4>2. QED
        BY <3>2, <3>3, <4>1
    <3>4. CASE ~(obj.conns[c] = "kept" /\ LiveStatements(f, c) = {})
      <4>1. conns = obj.conns
        BY <3>4
      <4>2. QED
        BY <1>2, <4>1
    <3>5. QED
      BY <3>3, <3>4
  <2>7. conns[c] = "kept" => \E j \in 1..Len(obj.stmts) : stmts[j].conn = c /\ ~stmts[j].finalized
    <3>1. LiveStatements(f, c) # {} => \E j \in 1..Len(obj.stmts) : stmts[j].conn = c /\ ~stmts[j].finalized
      BY <1>2, <2>1, <2>2 DEF LiveStatements
    <3>2. ASSUME conns[c] = "kept" PROVE LiveStatements(f, c) # {}
      BY <1>2, <1>3, <3>2, ExceptSeq
    <3>3. QED
      BY <3>1, <3>2
  <2> HIDE DEF conns
  <2>8. p \in SqliteState
    BY <1>1, <1>5, <2>1, <2>6 DEF SqliteState
  <2>9. /\ p.conns = conns /\ p.stmts = stmts /\ p.slot = slots /\ p.copied = obj.copied
        /\ p.db = obj.db /\ p.lost = obj.lost
    BY <1>1 DEF SqliteState
  <2>10. p.twice = obj.twice
    BY <1>1 DEF SqliteState
  <2> HIDE DEF p
  <2>11. Numbered(p)
    <3>1. \A j \in 1..Len(stmts) : stmts[j].conn \in 1..Len(obj.conns)
      BY <1>1, <1>3, <2>1 DEF Numbered
    <3>2. \A r \in Variables : slots[r] \in 0..Len(stmts)
      BY <1>1, <1>2, <1>5, <2>1 DEF Numbered
    <3>3. obj.db \in 0..Len(conns) /\ obj.lost \subseteq 1..Len(conns) /\ obj.db \notin obj.lost
      BY <1>1, <2>6 DEF Numbered
    <3>4. QED
      BY <2>6, <2>9, <3>1, <3>2, <3>3 DEF Numbered
  <2>12. ConnsOwned(p)
    <3>1. ASSUME NEW k \in 1..Len(obj.conns), k # c, Live(obj, k) PROVE Live(p, k)
      <4>1. PICK j \in 1..Len(obj.stmts) : obj.stmts[j].conn = k /\ ~obj.stmts[j].finalized
        BY <3>1 DEF Live
      <4>2. j # i
        BY <3>1, <4>1
      <4>3. QED
        BY <2>1, <2>9, <4>1, <4>2 DEF Live
    <3>2. conns[c] = "kept" => Live(p, c)
      BY <2>1, <2>7, <2>9 DEF Live
    <3>3. QED
      BY <1>1, <2>6, <2>9, <3>1, <3>2 DEF ConnsOwned
  <2>13. StmtsOwned(p)
    <3> SUFFICES ASSUME NEW j \in 1..Len(obj.stmts), j \notin obj.copied
                 PROVE  /\ stmts[j].finalized <=> \A r \in Variables : slots[r] # j
                        /\ \A r, q \in Variables : slots[r] = j /\ slots[q] = j => r = q
      BY <2>1, <2>9 DEF StmtsOwned
    <3>1. j # 0
      BY <1>2
    <3>2. CASE j = i
      <4>1. \A r \in Variables : r # s => obj.slot[r] # i
        BY <1>1, <3>2 DEF StmtsOwned
      <4>2. \A r \in Variables : slots[r] # i
        BY <1>3, <1>5, <4>1
      <4>3. QED
        BY <2>1, <3>2, <4>2
    <3>3. CASE j # i
      <4>1. \A r \in Variables : slots[r] = j <=> obj.slot[r] = j
        BY <1>5, <3>1, <3>3
      <4>2. QED
        BY <1>1, <2>1, <3>3, <4>1 DEF StmtsOwned
    <3>4. QED
      BY <3>2, <3>3
  <2>14. QED
    BY <1>1, <2>5, <2>8, <2>9, <2>10, <2>11, <2>12, <2>13, CallCounted
<1>8. QED
  BY <1>6, <1>7

\* prepare() appends a statement.
LEMMA PrepareStep ==
  ASSUME SqliteInv, NEW s \in Variables, prepare(s)
  PROVE  SqliteInv'
<1>1. /\ obj \in SqliteState /\ Numbered(obj) /\ ConnsOwned(obj) /\ StmtsOwned(obj)
      /\ obj.twice => obj.copied # {}
  BY DEF SqliteInv
<1>2. /\ obj.conns \in Seq(ConnStates) /\ Len(obj.conns) \in Nat /\ obj.stmts \in Seq(Statements)
      /\ Len(obj.stmts) \in Nat /\ obj.slot \in [Variables -> Nat] /\ obj.copied \in SUBSET Nat
      /\ obj.db \in 1..Len(obj.conns)
  BY <1>1 DEF SqliteState, prepare, Numbered
<1> DEFINE new == Len(obj.stmts) + 1
           slots == [obj.slot EXCEPT ![s] = new]
<1>3. PICK assigned \in BOOLEAN :
        /\ ~assigned => obj.slot[s] = 0
        /\ SqliteDid([obj EXCEPT !.stmts = Append(@, [conn |-> obj.db, finalized |-> assigned]),
                               !.slot[s] = Len(obj.stmts) + 1,
                               !.copied = IF assigned THEN @ \union ({obj.slot[s], Len(obj.stmts) + 1} \ {0}) ELSE @])
  BY DEF prepare
<1> DEFINE e == [conn |-> obj.db, finalized |-> assigned]
           stmts == Append(obj.stmts, e)
           copied == IF assigned THEN obj.copied \union ({obj.slot[s], new} \ {0}) ELSE obj.copied
           p == [obj EXCEPT !.stmts = stmts, !.slot = slots, !.copied = copied]
<1>4. SqliteDid(p)
  BY <1>1, <1>3 DEF SqliteState
<1>5. e \in Statements /\ e.conn = obj.db /\ (e.finalized <=> assigned)
  BY <1>2 DEF Statements
<1> HIDE DEF e
<1>6. /\ stmts \in Seq(Statements) /\ Len(stmts) = new /\ stmts[new] = e
      /\ \A j \in 1..Len(obj.stmts) : stmts[j] = obj.stmts[j]
  BY <1>2, <1>5
<1>7. /\ slots \in [Variables -> Nat] /\ \A r \in Variables : slots[r] = IF r = s THEN new ELSE obj.slot[r]
  BY <1>2
<1>8. /\ copied \in SUBSET Nat /\ obj.copied \subseteq copied
      /\ assigned => new \in copied
      /\ assigned /\ obj.slot[s] # 0 => obj.slot[s] \in copied
  BY <1>2
<1> HIDE DEF stmts, slots, copied
<1>9. p \in SqliteState
  BY <1>1, <1>6, <1>7, <1>8 DEF SqliteState
<1>10. /\ p.conns = obj.conns /\ p.stmts = stmts /\ p.slot = slots /\ p.copied = copied
       /\ p.db = obj.db /\ p.lost = obj.lost
  BY <1>1 DEF SqliteState
<1>11. p.twice = obj.twice
  BY <1>1 DEF SqliteState
<1> HIDE DEF p
<1>12. \A j \in 1..new : j \in 1..Len(obj.stmts) \/ j = new
  BY <1>2
<1>13. Numbered(p)
  <2>1. ASSUME NEW j \in 1..new PROVE stmts[j].conn \in 1..Len(obj.conns)
    <3>1. CASE j \in 1..Len(obj.stmts)
      BY <1>1, <1>6, <3>1 DEF Numbered
    <3>2. CASE j = new
      BY <1>2, <1>5, <1>6, <3>2
    <3>3. QED
      BY <1>12, <3>1, <3>2
  <2>2. ASSUME NEW r \in Variables PROVE slots[r] \in 0..new
    <3>1. obj.slot[r] \in 0..Len(obj.stmts)
      BY <1>1 DEF Numbered
    <3>2. QED
      BY <1>2, <1>7, <3>1
  <2>3. QED
    BY <1>1, <1>6, <1>10, <2>1, <2>2 DEF Numbered
<1>14. ConnsOwned(p)
  <2>1. ASSUME NEW k \in 1..Len(obj.conns), Live(obj, k) PROVE Live(p, k)
    <3>1. PICK j \in 1..Len(obj.stmts) : obj.stmts[j].conn = k /\ ~obj.stmts[j].finalized
      BY <2>1 DEF Live
    <3>2. j \in 1..Len(stmts) /\ stmts[j] = obj.stmts[j]
      BY <1>2, <1>6
    <3>3. QED
      BY <1>10, <3>1, <3>2 DEF Live
  <2>2. QED
    BY <1>1, <1>10, <2>1 DEF ConnsOwned
<1>15. StmtsOwned(p)
  <2> SUFFICES ASSUME NEW j \in 1..new, j \notin copied
               PROVE  /\ stmts[j].finalized <=> \A r \in Variables : slots[r] # j
                      /\ \A r, q \in Variables : slots[r] = j /\ slots[q] = j => r = q
    BY <1>6, <1>10 DEF StmtsOwned
  <2>1. \A r \in Variables : obj.slot[r] \in 0..Len(obj.stmts)
    BY <1>1 DEF Numbered
  <2>2. CASE j = new
    <3>1. ~stmts[j].finalized
      BY <1>5, <1>6, <1>8, <2>2
    <3>2. \A r \in Variables : obj.slot[r] # new
      BY <1>2, <2>1
    <3>3. \A r \in Variables : slots[r] = j <=> r = s
      BY <1>7, <2>2, <3>2
    <3>4. QED
      BY <3>1, <3>3
  <2>3. CASE j \in 1..Len(obj.stmts)
    <3>1. j # new /\ j # 0 /\ obj.slot[s] # j
      BY <1>2, <1>3, <1>8, <2>3
    <3>2. \A r \in Variables : slots[r] = j <=> obj.slot[r] = j
      BY <1>7, <3>1
    <3>3. j \notin obj.copied /\ stmts[j] = obj.stmts[j]
      BY <1>6, <1>8, <2>3
    <3>4. /\ obj.stmts[j].finalized <=> \A r \in Variables : obj.slot[r] # j
          /\ \A r, q \in Variables : obj.slot[r] = j /\ obj.slot[q] = j => r = q
      BY <1>1, <2>3, <3>3 DEF StmtsOwned
    <3>5. QED
      BY <3>2, <3>3, <3>4
  <2>4. QED
    BY <1>12, <2>2, <2>3
<1>16. p.twice => p.copied # {}
  <2>1. p.twice => obj.copied # {}
    BY <1>1, <1>11
  <2>2. QED
    BY <1>8, <1>10, <2>1
<1>17. QED
  BY <1>4, <1>9, <1>13, <1>14, <1>15, <1>16, CallCounted

\* The copy of a Statment makes its statement one that was copied.
LEMMA CopyStep ==
  ASSUME SqliteInv, NEW s \in Variables, NEW r \in Variables, copyStatment(s, r)
  PROVE  SqliteInv'
<1> DEFINE i == obj.slot[s]
           slots == [obj.slot EXCEPT ![r] = i]
           copied == obj.copied \union {i}
           p == [obj EXCEPT !.slot = slots, !.copied = copied]
<1>1. /\ obj \in SqliteState /\ Numbered(obj) /\ ConnsOwned(obj) /\ StmtsOwned(obj)
  BY DEF SqliteInv
<1>2. obj.slot \in [Variables -> Nat] /\ obj.copied \in SUBSET Nat /\ i \in Nat
  BY <1>1 DEF SqliteState
<1>3. SqliteDid(p) /\ obj.slot[r] = 0
  BY <1>1 DEF copyStatment, SqliteState
<1>4. slots \in [Variables -> Nat] /\ \A q \in Variables : slots[q] = IF q = r THEN i ELSE obj.slot[q]
  BY <1>2
<1>5. copied \in SUBSET Nat /\ obj.copied \subseteq copied /\ i \in copied
  BY <1>2
<1> HIDE DEF slots, copied
<1>6. p \in SqliteState
  BY <1>1, <1>4, <1>5 DEF SqliteState
<1>7. /\ p.conns = obj.conns /\ p.stmts = obj.stmts /\ p.slot = slots /\ p.copied = copied
      /\ p.db = obj.db /\ p.lost = obj.lost
  BY <1>1 DEF SqliteState
<1> HIDE DEF p
<1>8. Numbered(p)
  BY <1>1, <1>4, <1>7 DEF Numbered
<1>9. ConnsOwned(p)
  BY <1>1, <1>7 DEF ConnsOwned, Live
<1>10. StmtsOwned(p)
  <2> SUFFICES ASSUME NEW j \in 1..Len(obj.stmts), j \notin copied
               PROVE  /\ obj.stmts[j].finalized <=> \A q \in Variables : slots[q] # j
                      /\ \A q, t \in Variables : slots[q] = j /\ slots[t] = j => q = t
    BY <1>7 DEF StmtsOwned
  <2>1. j # 0 /\ j # i /\ j \notin obj.copied
    BY <1>5
  <2>2. \A q \in Variables : slots[q] = j <=> obj.slot[q] = j
    BY <1>3, <1>4, <2>1
  <2>3. QED
    BY <1>1, <2>1, <2>2 DEF StmtsOwned
<1>11. QED
  BY <1>3, <1>5, <1>6, <1>7, <1>8, <1>9, <1>10, CallCounted

LEMMA SqliteStep == SqliteInv /\ SqliteNext => SqliteInv'
BY OpenDbStep, CloseDbStep, DestroyStep, PrepareStep, CopyStep DEF SqliteNext

LEMMA SqliteHeld == SqliteInv => ConnectionsOwned
<1> SUFFICES ASSUME SqliteInv PROVE ConnectionsOwned
  OBVIOUS
<1>1. /\ obj \in SqliteState /\ Numbered(obj) /\ ConnsOwned(obj) /\ StmtsOwned(obj)
  BY DEF SqliteInv
<1>2. DOMAIN obj.conns = 1..Len(obj.conns) /\ DOMAIN obj.stmts = 1..Len(obj.stmts)
  BY <1>1 DEF SqliteState
<1>3. \A c : Live(obj, c) <=> LiveStatements(obj, c) # {}
  BY <1>2 DEF Live, LiveStatements
<1>4. \A c \in DOMAIN obj.conns : /\ obj.conns[c] = "open" <=> c = obj.db \/ c \in obj.lost
                                  /\ obj.conns[c] = "kept" => LiveStatements(obj, c) # {}
  BY <1>1, <1>2, <1>3 DEF ConnsOwned
<1>5. \A i \in DOMAIN obj.stmts \ obj.copied :
        obj.stmts[i].finalized <=> ~\E s \in Variables : obj.slot[s] = i
  BY <1>1, <1>2 DEF StmtsOwned
<1>6. QED
  BY <1>4, <1>5 DEF SqliteInv, ConnectionsOwned

-----------------------------------------------------------------------------
(* The invariant of all classes: that of the class the behaviour is about.  *)
HandlesInv ==
  /\ class = "sockets" => SocketsInv
  /\ class = "socketRead" => ReadInv
  /\ class = "serial" => SerialInv
  /\ class = "fifo" => FifoInv
  /\ class = "winPipe" => WinInv
  /\ class = "fileLock" => LockInv
  /\ class = "mapped" => MappedInv
  /\ class = "process" => ProcInv
  /\ class = "nics" => NicsInv
  /\ class = "sqlite" => SqliteInv

\* A class that holds nothing of the operating system.
OtherClass ==
  class \notin {"sockets", "socketRead", "serial", "fifo", "winPipe", "fileLock", "mapped", "process",
                "nics", "sqlite"}

\* Every behaviour is about one class, and starts as the class's Init says.
LEMMA HandlesInit == ObjectsInit => HandlesInv
<1> SUFFICES ASSUME ObjectsInit PROVE HandlesInv
  OBVIOUS
<1>1. /\ FilesInit => class = "files"
      /\ AppenderInit => class = "appender"
      /\ BufferInit => class = "buffer"
      /\ PtrListInit => class = "ptrList"
      /\ PayloadInit => class = "payload"
  BY DEF FilesInit, AppenderInit, BufferInit, PtrListInit, PayloadInit
<1>2. /\ CipherInit => class = "cipher"
      /\ CrcInit => class = "crc"
      /\ Md5Init => class = "md5"
      /\ Base64Init => class = "base64"
      /\ TextInit => class = "text"
  BY DEF CipherInit, CrcInit, Md5Init, Base64Init, TextInit
<1>3. /\ CliInit => class = "cli"
      /\ ResultInit => class = "cliresult"
      /\ RtpInit => class = "rtp"
      /\ SettingsInit => class = "settings"
      /\ SettingsFileInit => class = "settingsfile"
      /\ CmdLineInit => class = "cmdline"
  BY DEF CliInit, ResultInit, RtpInit, SettingsInit, SettingsFileInit, CmdLineInit
<1>4. /\ VariantInit => class = "variant"
      /\ NumberInit => class = "number"
      /\ IpInit => class = "ip"
      /\ CurlInit => class = "curl"
      /\ ArchiveInit => class = "archive"
      /\ CatalogInit => class = "catalog"
      /\ SqlInfoInit => class = "columns"
      /\ AdoInit => class = "ado"
  BY DEF VariantInit, NumberInit, IpInit, CurlInit, ArchiveInit, CatalogInit, SqlInfoInit, AdoInit
<1>5. /\ SocketsInit => class = "sockets" /\ SocketsInv
      /\ SocketReadInit => class = "socketRead" /\ ReadInv
      /\ FileLockInit => class = "fileLock" /\ LockInv
      /\ MappedInit => class = "mapped" /\ MappedInv
      /\ NicsInit => class = "nics" /\ NicsInv
  BY SocketsInvInit, ReadInvInit, LockInvInit, MappedInvInit, NicsInvInit
     DEF SocketsInit, SocketReadInit, FileLockInit, MappedInit, NicsInit
<1>6. /\ SerialInit => class = "serial" /\ SerialInv
      /\ FifoInit => class = "fifo" /\ FifoInv
      /\ WinPipeInit => class = "winPipe" /\ WinInv
      /\ ProcessInit => class = "process" /\ ProcInv
      /\ SqliteInit => class = "sqlite" /\ SqliteInv
  BY SerialInvInit, FifoInvInit, WinInvInit, ProcInvInit, SqliteInvInit
     DEF SerialInit, FifoInit, WinPipeInit, ProcessInit, SqliteInit
<1>7. OtherClass => HandlesInv
  BY DEF OtherClass, HandlesInv
<1>8. CASE class \in {"ring", "snowflake"}
  BY <1>7, <1>8 DEF OtherClass
<1>9. CASE FilesInit \/ AppenderInit \/ BufferInit \/ PtrListInit \/ PayloadInit
  BY <1>1, <1>7, <1>9 DEF OtherClass
<1>10. CASE CipherInit \/ CrcInit \/ Md5Init \/ Base64Init \/ TextInit
  BY <1>2, <1>7, <1>10 DEF OtherClass
<1>11. CASE CliInit \/ ResultInit \/ RtpInit \/ SettingsInit \/ SettingsFileInit \/ CmdLineInit
  BY <1>3, <1>7, <1>11 DEF OtherClass
<1>12. CASE VariantInit \/ NumberInit \/ IpInit \/ CurlInit \/ ArchiveInit \/ CatalogInit \/ SqlInfoInit \/ AdoInit
  BY <1>4, <1>7, <1>12 DEF OtherClass
<1>13. CASE SocketsInit \/ SocketReadInit \/ FileLockInit \/ MappedInit \/ NicsInit
  BY <1>5, <1>13 DEF HandlesInv
<1>14. CASE SerialInit \/ FifoInit \/ WinPipeInit \/ ProcessInit \/ SqliteInit
  BY <1>6, <1>14 DEF HandlesInv
<1>15. CASE OtherInit
  BY <1>9, <1>10, <1>11, <1>12, <1>13, <1>14, <1>15 DEF OtherInit
<1> QED
  BY <1>8, <1>15 DEF ObjectsInit

\* A step is one of the class's own: the others' invariants do not speak of it.
LEMMA HandlesStep == HandlesInv /\ ObjectsNext => HandlesInv'
<1> SUFFICES ASSUME HandlesInv, ObjectsNext PROVE HandlesInv'
  OBVIOUS
<1>1. class' = class
  BY DEF ObjectsNext
<1>2. /\ class = "sockets" => SocketsNext
      /\ class = "socketRead" => SocketReadNext
      /\ class = "serial" => SerialNext
      /\ class = "fifo" => FifoNext
      /\ class = "winPipe" => WinPipeNext
  BY DEF ObjectsNext
<1>3. /\ class = "fileLock" => FileLockNext
      /\ class = "mapped" => MappedNext
      /\ class = "process" => ProcessNext
      /\ class = "nics" => NicsNext
      /\ class = "sqlite" => SqliteNext
  BY DEF ObjectsNext
<1>4. /\ class = "sockets" => SocketsInv'
      /\ class = "socketRead" => ReadInv'
      /\ class = "serial" => SerialInv'
      /\ class = "fifo" => FifoInv'
      /\ class = "winPipe" => WinInv'
  BY <1>2, SocketsStep, ReadStep, SerialStep, FifoStep, WinStep DEF HandlesInv
<1>5. /\ class = "fileLock" => LockInv'
      /\ class = "mapped" => MappedInv'
      /\ class = "process" => ProcInv'
      /\ class = "nics" => NicsInv'
      /\ class = "sqlite" => SqliteInv'
  BY <1>3, LockStep, MappedStep, ProcStep, NicsStep, SqliteStep DEF HandlesInv
<1> QED
  BY <1>1, <1>4, <1>5 DEF HandlesInv

LEMMA HandlesStay == HandlesInv /\ UNCHANGED mvars => HandlesInv'
<1> SUFFICES ASSUME HandlesInv, UNCHANGED mvars PROVE HandlesInv'
  OBVIOUS
<1>1. class' = class /\ obj' = obj /\ pc' = pc
  BY DEF mvars
<1>2. SocketsInv => SocketsInv'
  BY <1>1 DEF SocketsInv
<1>3. ReadInv => ReadInv'
  BY <1>1 DEF ReadInv
<1>4. SerialInv => SerialInv'
  BY <1>1 DEF SerialInv, PortAsSet, SerialOpen, getBaudrate
<1>5. FifoInv => FifoInv'
  BY <1>1 DEF FifoInv
<1>6. WinInv => WinInv'
  BY <1>1 DEF WinInv
<1>7. LockInv => LockInv'
  BY <1>1 DEF LockInv
<1>8. MappedInv => MappedInv'
  BY <1>1 DEF MappedInv
<1>9. ProcInv => ProcInv'
  BY <1>1 DEF ProcInv
<1>10. NicsInv => NicsInv'
  BY <1>1 DEF NicsInv
<1>11. SqliteInv => SqliteInv'
  BY <1>1 DEF SqliteInv
<1> QED
  BY <1>1, <1>2, <1>3, <1>4, <1>5, <1>6, <1>7, <1>8, <1>9, <1>10, <1>11 DEF HandlesInv

\* The invariant of the class says what HandlesExact says of it.
LEMMA HandlesHeld == HandlesInv => HandlesExact
<1> SUFFICES ASSUME HandlesInv PROVE HandlesExact
  OBVIOUS
<1>1. FdsOwned
  BY SocketsHeld DEF HandlesInv, FdsOwned
<1>2. ReadsShared
  BY ReadHeld DEF HandlesInv, ReadsShared
<1>3. PortAsSet
  BY DEF HandlesInv, SerialInv, PortAsSet
<1>4. EndsMeet
  BY FifoHeld DEF HandlesInv, EndsMeet
<1>5. PartsInOrder
  BY WinHeld DEF HandlesInv, PartsInOrder
<1>6. LockExclusive
  BY LockHeld DEF HandlesInv, LockExclusive
<1>7. MappedOnce
  BY MappedHeld DEF HandlesInv, MappedOnce
<1>8. OwnChildStopped
  BY ProcHeld DEF HandlesInv, OwnChildStopped
<1>9. DevicesExact
  BY NicsHeld DEF HandlesInv, DevicesExact
<1>10. ConnectionsOwned
  BY SqliteHeld DEF HandlesInv, ConnectionsOwned
<1> QED
  BY <1>1, <1>2, <1>3, <1>4, <1>5, <1>6, <1>7, <1>8, <1>9, <1>10 DEF HandlesExact

\* What belongs to the operating system is in one pair of hands, as its owner
\* believes, and is given back once: the descriptors of Socket.cpp, the settings
\* of Serial.cpp, both NamedPipe.cpp, FileLock.cpp, SHM.cpp, the children of
\* Process.cpp, the sockets and devices of NetworkDevices.cpp and the handles of
\* Sqlite3DataBase.cpp, for any number of each.
THEOREM HandlesExactAlways == ObjectsSpec => []HandlesExact
<1>1. HandlesInv /\ [ObjectsNext]_<<vars, ringVars, mvars>> => HandlesInv'
  BY HandlesStep, HandlesStay
<1> QED
  BY <1>1, HandlesInit, HandlesHeld, PTL DEF ObjectsSpec

-----------------------------------------------------------------------------
(* The invariant of all classes that hold data: that of the class the       *)
(* behaviour is about.                                                      *)
DataInv ==
  /\ class = "files" => FilesInv(obj)
  /\ class = "appender" => AppenderInv
  /\ class = "buffer" => BufferInv(obj)
  /\ class = "ptrList" => ListInv(obj)
  /\ class = "settings" => SettingsInv
  /\ class = "variant" => MemoryInv(obj)
  /\ class = "curl" => CurlInv
  /\ class = "ado" => AdoInv(obj)

\* A class DataExact does not speak of.
NoData == class \notin {"files", "appender", "buffer", "ptrList", "settings", "variant", "curl", "ado"}

\* Every behaviour is about one class, and starts as the class's Init says.
LEMMA DataInit == ObjectsInit => DataInv
<1> SUFFICES ASSUME ObjectsInit PROVE DataInv
  OBVIOUS
<1>1. /\ SocketsInit => class = "sockets"
      /\ SocketReadInit => class = "socketRead"
      /\ SerialInit => class = "serial"
      /\ FifoInit => class = "fifo"
      /\ WinPipeInit => class = "winPipe"
  BY DEF SocketsInit, SocketReadInit, SerialInit, FifoInit, WinPipeInit
<1>2. /\ FileLockInit => class = "fileLock"
      /\ MappedInit => class = "mapped"
      /\ ProcessInit => class = "process"
      /\ NicsInit => class = "nics"
      /\ SqliteInit => class = "sqlite"
  BY DEF FileLockInit, MappedInit, ProcessInit, NicsInit, SqliteInit
<1>3. /\ CipherInit => class = "cipher"
      /\ CrcInit => class = "crc"
      /\ Md5Init => class = "md5"
      /\ Base64Init => class = "base64"
      /\ TextInit => class = "text"
  <2>1. CipherInit => class = "cipher"
    BY DEF CipherInit
  <2>2. CrcInit => class = "crc"
    BY DEF CrcInit
  <2>3. Md5Init => class = "md5"
    BY DEF Md5Init
  <2>4. Base64Init => class = "base64"
    BY DEF Base64Init
  <2>5. TextInit => class = "text"
    BY DEF TextInit
  <2>6. QED
    BY <2>1, <2>2, <2>3, <2>4, <2>5
<1>4. /\ CliInit => class = "cli"
      /\ ResultInit => class = "cliresult"
      /\ RtpInit => class = "rtp"
      /\ SettingsFileInit => class = "settingsfile"
      /\ CmdLineInit => class = "cmdline"
  BY DEF CliInit, ResultInit, RtpInit, SettingsFileInit, CmdLineInit
<1>5. /\ NumberInit => class = "number"
      /\ IpInit => class = "ip"
      /\ ArchiveInit => class = "archive"
      /\ CatalogInit => class = "catalog"
      /\ SqlInfoInit => class = "columns"
      /\ PayloadInit => class = "payload"
  BY DEF NumberInit, IpInit, ArchiveInit, CatalogInit, SqlInfoInit, PayloadInit
<1>6. /\ FilesInit => class = "files" /\ FilesInv(obj)
      /\ AppenderInit => class = "appender" /\ AppenderInv
      /\ BufferInit => class = "buffer" /\ BufferInv(obj)
      /\ PtrListInit => class = "ptrList" /\ ListInv(obj)
  BY FilesInvInit, AppenderInvInit, BufferInvInit, ListInvInit
     DEF FilesInit, AppenderInit, BufferInit, PtrListInit
<1>7. /\ SettingsInit => class = "settings" /\ SettingsInv
      /\ VariantInit => class = "variant" /\ MemoryInv(obj)
      /\ CurlInit => class = "curl" /\ CurlInv
      /\ AdoInit => class = "ado" /\ AdoInv(obj)
  <2>1. /\ SettingsInit => class = "settings"
        /\ VariantInit => class = "variant"
    BY DEF SettingsInit, VariantInit
  <2>2. /\ CurlInit => class = "curl"
        /\ AdoInit => class = "ado"
    BY DEF CurlInit, AdoInit
  <2>3. QED
    BY <2>1, <2>2, SettingsInvInit, VariantInvInit, CurlInvInit, AdoInvInit
<1>8. NoData => DataInv
  BY DEF NoData, DataInv
<1>9. CASE class \in {"ring", "snowflake"}
  BY <1>8, <1>9 DEF NoData
<1>10. CASE SocketsInit \/ SocketReadInit \/ SerialInit \/ FifoInit \/ WinPipeInit
  BY <1>1, <1>8, <1>10 DEF NoData
<1>11. CASE FileLockInit \/ MappedInit \/ ProcessInit \/ NicsInit \/ SqliteInit
  BY <1>2, <1>8, <1>11 DEF NoData
<1>12. CASE CipherInit \/ CrcInit \/ Md5Init \/ Base64Init \/ TextInit
  BY <1>3, <1>8, <1>12 DEF NoData
<1>13. CASE CliInit \/ ResultInit \/ RtpInit \/ SettingsFileInit \/ CmdLineInit
  BY <1>4, <1>8, <1>13 DEF NoData
<1>14. CASE NumberInit \/ IpInit \/ ArchiveInit \/ CatalogInit \/ SqlInfoInit \/ PayloadInit
  BY <1>5, <1>8, <1>14 DEF NoData
<1>15. CASE FilesInit \/ AppenderInit \/ BufferInit \/ PtrListInit
  BY <1>6, <1>15 DEF DataInv
<1>16. CASE SettingsInit \/ VariantInit \/ CurlInit \/ AdoInit
  BY <1>7, <1>16 DEF DataInv
<1>17. CASE OtherInit
  BY <1>10, <1>11, <1>12, <1>13, <1>14, <1>15, <1>16, <1>17 DEF OtherInit
<1> QED
  BY <1>9, <1>17 DEF ObjectsInit

\* A step is one of the class's own: the others' invariants do not speak of it.
LEMMA DataStep == DataInv /\ ObjectsNext => DataInv'
<1> SUFFICES ASSUME DataInv, ObjectsNext PROVE DataInv'
  OBVIOUS
<1>1. class' = class
  BY DEF ObjectsNext
<1>2. /\ class = "files" => FilesNext
      /\ class = "appender" => AppenderNext
      /\ class = "buffer" => BufferNext
      /\ class = "ptrList" => PtrListNext
  BY DEF ObjectsNext
<1>3. /\ class = "settings" => SettingsNext
      /\ class = "variant" => VariantNext
      /\ class = "curl" => CurlNext
      /\ class = "ado" => AdoNext
  BY DEF ObjectsNext
<1>4. /\ class = "files" => FilesInv(obj')
      /\ class = "appender" => AppenderInv'
      /\ class = "buffer" => BufferInv(obj')
      /\ class = "ptrList" => ListInv(obj')
  BY <1>2, FilesStep, AppenderStep, BufferStep, ListInvStep DEF DataInv
<1>5. /\ class = "settings" => SettingsInv'
      /\ class = "variant" => MemoryInv(obj')
      /\ class = "curl" => CurlInv'
      /\ class = "ado" => AdoInv(obj')
  BY <1>3, SettingsStep, VariantStep, CurlStep, AdoStep DEF DataInv
<1> QED
  BY <1>1, <1>4, <1>5 DEF DataInv

LEMMA DataStay == DataInv /\ UNCHANGED mvars => DataInv'
<1> SUFFICES ASSUME DataInv, UNCHANGED mvars PROVE DataInv'
  OBVIOUS
<1>1. class' = class /\ obj' = obj /\ pc' = pc
  BY DEF mvars
<1>2. AppenderInv => AppenderInv'
  BY <1>1 DEF AppenderInv
<1>3. SettingsInv => SettingsInv'
  BY <1>1 DEF SettingsInv
<1>4. CurlInv => CurlInv'
  BY <1>1 DEF CurlInv
<1> QED
  BY <1>1, <1>2, <1>3, <1>4 DEF DataInv

\* The invariant of the class says what DataExact says of it.
LEMMA DataHeld == DataInv => DataExact
<1> SUFFICES ASSUME DataInv PROVE DataExact
  OBVIOUS
<1>1. FilesKept
  BY FilesHeld DEF DataInv, FilesKept
<1>2. NewestKept
  BY AppenderHeld DEF DataInv, NewestKept
<1>3. BufferExact
  BY BufferHeld DEF DataInv, BufferExact
<1>4. ElementsOwned
  BY ListHeld DEF DataInv, ElementsOwned
<1>5. ListenersExact
  BY SettingsHeld DEF DataInv, ListenersExact
<1>6. MemoryOwned
  BY MemoryHeld DEF DataInv, MemoryOwned
<1>7. RequestExact
  BY CurlHeld DEF DataInv, RequestExact
<1>8. AdoExact
  BY AdoHeld DEF DataInv, AdoExact
<1> QED
  BY <1>1, <1>2, <1>3, <1>4, <1>5, <1>6, <1>7, <1>8 DEF DataExact

\* What a program puts into an object of the library is what it finds there: the
\* files of File.cpp, the logs of the appenders, the bytes of Buffer, the
\* elements of List.h, the settings and what their listeners know of them, the
\* memory of Variant, the request of Curl.cpp and what AdoConnection says of a
\* data base, for files of any depth and contents and calls in any number.
THEOREM DataExactAlways == ObjectsSpec => []DataExact
<1>1. DataInv /\ [ObjectsNext]_<<vars, ringVars, mvars>> => DataInv'
  BY DataStep, DataStay
<1> QED
  BY <1>1, DataInit, DataHeld, PTL DEF ObjectsSpec

=============================================================================
