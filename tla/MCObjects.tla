------------------------------ MODULE MCObjects ------------------------------
(* The classes one thread uses at a time, and those whose other user is     *)
(* another process.  One behaviour is about one class.                      *)
EXTENDS Snowflake, CycleBuffer, Files, Buffers, Sockets, Devices, Processes,
        Ciphers, Digests, Packets, Settings, Values, Network, Stores

CONSTANTS a, b

(* CycleBuffer and Snowflake have variables of their own; the rest leaves   *)
(* them alone.                                                              *)
NoRing == m_pos = 0 /\ m_size = 0 /\ m_buf = [s \in Slots |-> a] /\ count = 0 /\ out = <<>>
NoFlake == clock = [m \in Machines |-> 0] /\ Init
OtherInit ==
  \/ FilesInit \/ AppenderInit \/ BufferInit \/ PtrListInit \/ PayloadInit \/ SocketsInit
  \/ SocketReadInit \/ SerialInit \/ FifoInit \/ WinPipeInit \/ FileLockInit \/ MappedInit
  \/ ProcessInit \/ CipherInit \/ CrcInit \/ Md5Init \/ Base64Init \/ TextInit \/ CliInit
  \/ ResultInit \/ RtpInit \/ SettingsInit \/ SettingsFileInit \/ CmdLineInit \/ VariantInit
  \/ NumberInit \/ IpInit \/ NicsInit \/ CurlInit \/ ArchiveInit \/ SqliteInit \/ CatalogInit
  \/ SqlInfoInit \/ AdoInit
ObjectsInit ==
  \/ class = "ring" /\ pc = <<>> /\ obj = <<>> /\ RingInit /\ NoFlake
  \/ class = "snowflake" /\ pc = <<>> /\ obj = <<>> /\ NoRing /\ Init
  \/ NoRing /\ NoFlake /\ OtherInit

ObjectsNext ==
  /\ UNCHANGED class
  /\ \/ class = "ring" /\ RingNext /\ UNCHANGED <<mvars, vars>>
     \/ class = "snowflake" /\ Next /\ UNCHANGED <<mvars, ringVars>>
     \/ class = "files" /\ FilesNext /\ UNCHANGED <<vars, ringVars>>
     \/ class = "appender" /\ AppenderNext /\ UNCHANGED <<vars, ringVars>>
     \/ class = "buffer" /\ BufferNext /\ UNCHANGED <<vars, ringVars>>
     \/ class = "ptrList" /\ PtrListNext /\ UNCHANGED <<vars, ringVars>>
     \/ class = "payload" /\ PayloadNext /\ UNCHANGED <<vars, ringVars>>
     \/ class = "sockets" /\ SocketsNext /\ UNCHANGED <<vars, ringVars>>
     \/ class = "socketRead" /\ SocketReadNext /\ UNCHANGED <<vars, ringVars>>
     \/ class = "serial" /\ SerialNext /\ UNCHANGED <<vars, ringVars>>
     \/ class = "fifo" /\ FifoNext /\ UNCHANGED <<vars, ringVars>>
     \/ class = "winPipe" /\ WinPipeNext /\ UNCHANGED <<vars, ringVars>>
     \/ class = "fileLock" /\ FileLockNext /\ UNCHANGED <<vars, ringVars>>
     \/ class = "mapped" /\ MappedNext /\ UNCHANGED <<vars, ringVars>>
     \/ class = "process" /\ ProcessNext /\ UNCHANGED <<vars, ringVars>>
     \/ class = "cipher" /\ CipherNext /\ UNCHANGED <<vars, ringVars>>
     \/ class = "crc" /\ CrcNext /\ UNCHANGED <<vars, ringVars>>
     \/ class = "md5" /\ Md5Next /\ UNCHANGED <<vars, ringVars>>
     \/ class = "base64" /\ Base64Next /\ UNCHANGED <<vars, ringVars>>
     \/ class = "text" /\ TextNext /\ UNCHANGED <<vars, ringVars>>
     \/ class = "cli" /\ CliNext /\ UNCHANGED <<vars, ringVars>>
     \/ class = "cliresult" /\ resultSend /\ UNCHANGED <<vars, ringVars>>
     \/ class = "rtp" /\ RtpNext /\ UNCHANGED <<vars, ringVars>>
     \/ class = "settings" /\ SettingsNext /\ UNCHANGED <<vars, ringVars>>
     \/ class = "settingsfile" /\ SettingsFileNext /\ UNCHANGED <<vars, ringVars>>
     \/ class = "cmdline" /\ parseArg /\ UNCHANGED <<vars, ringVars>>
     \/ class = "variant" /\ VariantNext /\ UNCHANGED <<vars, ringVars>>
     \/ class = "number" /\ NumberNext /\ UNCHANGED <<vars, ringVars>>
     \/ class = "ip" /\ IpNext /\ UNCHANGED <<vars, ringVars>>
     \/ class = "nics" /\ NicsNext /\ UNCHANGED <<vars, ringVars>>
     \/ class = "curl" /\ CurlNext /\ UNCHANGED <<vars, ringVars>>
     \/ class = "archive" /\ ArchiveNext /\ UNCHANGED <<vars, ringVars>>
     \/ class = "sqlite" /\ SqliteNext /\ UNCHANGED <<vars, ringVars>>
     \/ class = "catalog" /\ CatalogNext /\ UNCHANGED <<vars, ringVars>>
     \/ class = "columns" /\ getTableInfo /\ UNCHANGED <<vars, ringVars>>
     \/ class = "ado" /\ AdoNext /\ UNCHANGED <<vars, ringVars>>

\* The clock goes on, and a spinning thread runs.
FlakeFairness ==
  \A m \in Machines :
    WF_vars(class = "snowflake" /\ Tick(m) /\ UNCHANGED <<mvars, ringVars>>) /\ WF_vars(ToNextMs(m))
ObjectsSpec == ObjectsInit /\ [][ObjectsNext]_<<vars, ringVars, mvars>> /\ FlakeFairness

(* A tree of files, a directory of logs, buffers and lists hold what was    *)
(* put there, a value its own memory, a listener and a request what they    *)
(* were told, and what is said of a data base is so: nothing is lost or     *)
(* made up but by what the properties of the modules name.                  *)
DataExact ==
  /\ FilesKept /\ NewestKept /\ BufferExact /\ ElementsOwned
  /\ ListenersExact /\ MemoryOwned /\ RequestExact /\ AdoExact

(* What belongs to the operating system is in one pair of hands, as its     *)
(* owner believes, and is given back once: descriptors, the settings of a   *)
(* port, the ends of a pipe, locks, segments, children.                     *)
HandlesExact ==
  /\ FdsOwned /\ ReadsShared /\ PortAsSet /\ EndsMeet /\ PartsInOrder
  /\ LockExclusive /\ MappedOnce /\ OwnChildStopped /\ DevicesExact /\ ConnectionsOwned

(* What is encoded, in whatever pieces and however often, is what the       *)
(* format says, and is decoded to what it was: ciphers with their chain,    *)
(* checksums that are continued, texts, payloads, archives, and the         *)
(* catalogue of a data base, row by row.                                    *)
FormatsExact ==
  /\ CipherExact /\ CrcExact /\ Md5Exact /\ Base64Exact /\ TextsExact /\ CliExact
  /\ ResultExact /\ RtpExact /\ FileExact /\ CmdLineExact /\ NumbersExact
  /\ AddressExact /\ PayloadExact /\ ArchiveExact /\ TablesExact /\ ColumnsExact
=============================================================================
