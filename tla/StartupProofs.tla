--------------------------- MODULE StartupProofs ---------------------------
(***************************************************************************)
(* Theorems about Startup, for any workers, pairs of keys and              *)
(* certificates, and any number of acts of the operator.                   *)
(***************************************************************************)
EXTENDS Startup, TLAPS

Early == {"down", "mkdirConfigs", "mkdirCertificate", "exists", "copy", "readConfigs"}

(* Before the configuration is read nothing has been taken from it; after  *)
(* that, whatever is in use is what the table says.                        *)
UsesSettings ==
    /\ phase \in Early => /\ settings = Unread /\ afterTls = "listen"
                          /\ listening = FALSE /\ starting = {} /\ db = [w \in Workers |-> -2]
    /\ phase \notin Early => settings \in Files
    /\ port = IF listening THEN ListeningPort(settings) ELSE 0
    /\ \A w \in Workers : db[w] \in {-2, DatabaseSettings(settings)}

(* From the copy of the template on there is a configuration; that it is   *)
(* also what was read is what an undisturbed start needs.                  *)
FindsConfig ==
    undisturbed =>
        /\ phase \notin Early \/ phase = "readConfigs" => configFile # Absent
        /\ phase \notin Early => settings = ParsedTable(configFile)

(* Between its two halves the TLS configuration has the key on the disk.   *)
KeyIsOnDisk ==
    phase = "certificate" /\ quiet /\ NamesFiles(settings) => tls.key = keyFile

StartupInv ==
    TypeOK /\ UsesSettings /\ FindsConfig /\ KeyIsOnDisk /\ TlsIsOnDisk

(* The type invariant in parts.                                            *)
DiskTypeOK ==
    /\ configsDir \in BOOLEAN /\ certificateDir \in BOOLEAN
    /\ configFile \in Files
    /\ keyFile \in 0 .. Pairs /\ certificateFile \in 0 .. Pairs

ControlTypeOK ==
    /\ phase \in {"down", "mkdirConfigs", "mkdirCertificate", "exists", "copy",
                  "readConfigs", "privateKey", "certificate", "listen",
                  "running", "stopped"}
    /\ afterTls \in {"listen", "stopped"}
    /\ settings \in Files \cup {Unread}
    /\ tls \in [key : 0 .. Pairs, certificate : 0 .. Pairs]

ServerTypeOK ==
    /\ listening \in BOOLEAN
    /\ port \in {0} \cup 1000 .. 1000 + MaxEdits
    /\ starting \subseteq Workers
    /\ db \in [Workers -> -2 .. MaxEdits]

HistoryTypeOK ==
    /\ edits \in 0 .. MaxEdits
    /\ undisturbed \in BOOLEAN /\ quiet \in BOOLEAN

LEMMA TypeParts ==
  TypeOK <=> DiskTypeOK /\ ControlTypeOK /\ ServerTypeOK /\ HistoryTypeOK
  BY DEF TypeOK, DiskTypeOK, ControlTypeOK, ServerTypeOK, HistoryTypeOK

(* The values of a program that does not run.                              *)
LEMMA NothingIsTyped ==
  /\ [key |-> 0, certificate |-> 0] \in [key : 0 .. Pairs, certificate : 0 .. Pairs]
  /\ [w \in Workers |-> -2] \in [Workers -> -2 .. MaxEdits]
  BY EditsAssumption, PairsAssumption

(* What is read from a file is a file again, and its port a possible one.  *)
LEMMA TablesAreTyped ==
  /\ Absent \in Files /\ Template \in Files /\ File(0, "good") \in Files
  /\ \A file \in Files : ParsedTable(file) \in Files
  /\ \A table \in Files \cup {Unread} :
        /\ ListeningPort(table) \in {0} \cup 1000 .. 1000 + MaxEdits
        /\ DatabaseSettings(table) \in -2 .. MaxEdits
  BY EditsAssumption
     DEF Files, Absent, Template, Unread, File, Kinds, ParsedTable, ListeningPort,
         DatabaseSettings

LEMMA InitiallyHolds == Init => StartupInv
<1> SUFFICES ASSUME Init PROVE StartupInv
  OBVIOUS
<1>1. TypeOK
  <2>1. DiskTypeOK /\ HistoryTypeOK
    <3>1. configFile \in Files
      BY TablesAreTyped DEF Init
    <3>2. HistoryTypeOK
      <4>1. edits \in 0 .. MaxEdits
        BY EditsAssumption DEF Init
      <4>2. undisturbed \in BOOLEAN /\ quiet \in BOOLEAN
        BY DEF Init
      <4>3. QED BY <4>1, <4>2 DEF HistoryTypeOK
    <3>3. QED BY <3>1, <3>2 DEF Init, DiskTypeOK
  <2>2. ControlTypeOK /\ ServerTypeOK
    BY NothingIsTyped DEF Init, NotRunning, ControlTypeOK, ServerTypeOK
  <2>3. QED BY <2>1, <2>2, TypeParts
<1>2. UsesSettings
  BY DEF Init, NotRunning, UsesSettings, Early
<1>3. FindsConfig /\ KeyIsOnDisk /\ TlsIsOnDisk
  BY DEF Init, NotRunning, FindsConfig, KeyIsOnDisk, TlsIsOnDisk
<1>4. QED BY <1>1, <1>2, <1>3 DEF StartupInv

-----------------------------------------------------------------------------
(* Making the directories and the configuration file.                      *)
LEMMA PreparingKeeps ==
  ASSUME StartupInv,
         Boot \/ MkdirConfigs \/ MkdirCertificate \/ ConfigFileExists \/ CopyTemplate
  PROVE  StartupInv'
<1> USE DEF Goto, disk, reading, server, history
<1>1. /\ TypeOK /\ UsesSettings /\ FindsConfig
      /\ DiskTypeOK /\ ControlTypeOK /\ ServerTypeOK /\ HistoryTypeOK
  BY TypeParts DEF StartupInv
<1>2. TypeOK'
  <2>1. DiskTypeOK'
    <3>1. configFile' \in Files
      BY <1>1, TablesAreTyped
         DEF DiskTypeOK, Boot, MkdirConfigs, MkdirCertificate, ConfigFileExists,
             CopyTemplate
    <3>2. configsDir' \in BOOLEAN /\ certificateDir' \in BOOLEAN
      BY <1>1
         DEF DiskTypeOK, Boot, MkdirConfigs, MkdirCertificate, ConfigFileExists,
             CopyTemplate
    <3>3. UNCHANGED <<keyFile, certificateFile>>
      BY DEF Boot, MkdirConfigs, MkdirCertificate, ConfigFileExists, CopyTemplate
    <3>4. QED BY <1>1, <3>1, <3>2, <3>3 DEF DiskTypeOK
  <2>2. ControlTypeOK' /\ ServerTypeOK'
    BY <1>1
       DEF ControlTypeOK, ServerTypeOK, Boot, MkdirConfigs, MkdirCertificate,
           ConfigFileExists, CopyTemplate
  <2>3. HistoryTypeOK'
    BY <1>1
       DEF HistoryTypeOK, Boot, MkdirConfigs, MkdirCertificate, ConfigFileExists,
           CopyTemplate
  <2>4. QED
    BY <2>1, <2>2, <2>3
       DEF TypeOK, DiskTypeOK, ControlTypeOK, ServerTypeOK, HistoryTypeOK
<1>3. phase \in Early /\ phase' \in Early /\ UNCHANGED <<afterTls, reading, server>>
  BY DEF Early, Boot, MkdirConfigs, MkdirCertificate, ConfigFileExists, CopyTemplate
<1>4. UsesSettings'
  BY <1>1, <1>3 DEF UsesSettings
<1>5. undisturbed' /\ phase' = "readConfigs" => configFile' # Absent
  <2>1. CASE Boot \/ MkdirConfigs \/ MkdirCertificate
    BY <2>1 DEF Boot, MkdirConfigs, MkdirCertificate
  <2>2. CASE ConfigFileExists
    BY <2>2 DEF ConfigFileExists
  <2>3. CASE CopyTemplate
    <3>1. Template # Absent
      BY DEF Template, Absent, File
    <3>2. QED BY <2>3, <3>1 DEF CopyTemplate
  <2>4. QED BY <2>1, <2>2, <2>3
<1>6. FindsConfig' /\ KeyIsOnDisk' /\ TlsIsOnDisk'
  BY <1>3, <1>5 DEF FindsConfig, KeyIsOnDisk, TlsIsOnDisk, Early
<1>7. QED BY <1>2, <1>4, <1>6 DEF StartupInv

(* Reading the configuration and loading the TLS settings.                 *)
LEMMA LoadingKeeps ==
  ASSUME StartupInv, ReadConfigs \/ LoadPrivateKey \/ LoadCertificate
  PROVE  StartupInv'
<1> USE DEF Goto, disk, reading, server, history
<1>1. TypeOK /\ UsesSettings /\ FindsConfig /\ KeyIsOnDisk
  BY DEF StartupInv
<1>2. CASE ReadConfigs
  <2>1. ParsedTable(configFile) \in Files
    BY <1>1, TablesAreTyped DEF TypeOK
  <2>2. TypeOK'
    BY <1>1, <1>2, <2>1 DEF TypeOK, ReadConfigs
  <2>3. phase = "readConfigs" /\ phase' = "privateKey"
    BY <1>2 DEF ReadConfigs
  <2>4. UsesSettings'
    <3>1. db = [w \in Workers |-> -2] /\ ~ listening
      BY <1>1, <2>3 DEF UsesSettings, Early
    <3>2. QED BY <1>1, <1>2, <2>1, <2>3, <3>1 DEF UsesSettings, Early, ReadConfigs
  <2>5. FindsConfig' /\ KeyIsOnDisk' /\ TlsIsOnDisk'
    BY <1>1, <1>2, <2>3 DEF FindsConfig, KeyIsOnDisk, TlsIsOnDisk, Early, ReadConfigs
  <2>6. QED BY <2>2, <2>4, <2>5 DEF StartupInv
<1>3. CASE LoadPrivateKey
  <2>1. TypeOK'
    BY <1>1, <1>3, PairsAssumption DEF TypeOK, LoadPrivateKey
  <2>2. UsesSettings' /\ FindsConfig'
    BY <1>1, <1>3 DEF UsesSettings, FindsConfig, Early, LoadPrivateKey
  <2>3. KeyIsOnDisk' /\ TlsIsOnDisk'
    BY <1>1, <1>3 DEF KeyIsOnDisk, TlsIsOnDisk, LoadPrivateKey, GetInstance, TypeOK
  <2>4. QED BY <2>1, <2>2, <2>3 DEF StartupInv
<1>4. CASE LoadCertificate
  <2>1. TypeOK'
    BY <1>1, <1>4, PairsAssumption DEF TypeOK, LoadCertificate
  <2>2. UsesSettings' /\ FindsConfig'
    BY <1>1, <1>4 DEF UsesSettings, FindsConfig, Early, LoadCertificate, TypeOK
  <2>3. KeyIsOnDisk' /\ TlsIsOnDisk'
    BY <1>1, <1>4 DEF KeyIsOnDisk, TlsIsOnDisk, LoadCertificate, GetInstance, TypeOK
  <2>4. QED BY <2>1, <2>2, <2>3 DEF StartupInv
<1>5. QED BY <1>2, <1>3, <1>4

(* Listening, the workers' databases, stopping and starting again.         *)
LEMMA ServingKeeps ==
  ASSUME StartupInv,
         \/ Listen \/ StartAgain \/ Stop
         \/ \E w \in Workers : ConfigureDatabaseConnection(w)
  PROVE  StartupInv'
<1> USE DEF Goto, disk, reading, server, history
<1>1. /\ TypeOK /\ UsesSettings /\ FindsConfig /\ TlsIsOnDisk
      /\ DiskTypeOK /\ ControlTypeOK /\ ServerTypeOK /\ HistoryTypeOK
  BY TypeParts DEF StartupInv
<1>2. settings \in Files \cup {Unread}
  BY <1>1 DEF TypeOK
<1>3. /\ ListeningPort(settings) \in {0} \cup 1000 .. 1000 + MaxEdits
      /\ DatabaseSettings(settings) \in -2 .. MaxEdits
  BY <1>2, TablesAreTyped
<1>4. CASE Listen \/ StartAgain
  <2>1. phase \notin Early /\ phase' \notin Early
    BY <1>4 DEF Listen, StartAgain, Early
  <2>2. TypeOK'
    <3>1. DiskTypeOK' /\ ControlTypeOK' /\ HistoryTypeOK'
      BY <1>1, <1>4
         DEF DiskTypeOK, ControlTypeOK, HistoryTypeOK, Listen, StartAgain
    <3>2. ServerTypeOK'
      <4>1. listening' \in BOOLEAN
        <5>1. listening \in BOOLEAN
          BY <1>1 DEF ServerTypeOK
        <5>2. CASE Listen
          <6>1. listening' = TRUE \/ listening' = listening
            BY <5>2 DEF Listen
          <6>2. QED BY <5>1, <6>1
        <5>3. CASE StartAgain
          <6>1. listening' = listening
            BY <5>3 DEF StartAgain
          <6>2. QED BY <5>1, <6>1
        <5>4. QED BY <1>4, <5>2, <5>3
      <4>2. port' \in {port, ListeningPort(settings)}
        BY <1>4 DEF Listen, StartAgain, GetInstance
      <4>3. starting' \subseteq Workers
        <5>1. starting \subseteq Workers
          BY <1>1 DEF ServerTypeOK
        <5>2. CASE Listen
          <6>1. \E idle \in SUBSET Workers : starting' = starting \cup idle
            BY <5>2 DEF Listen
          <6>2. QED BY <5>1, <6>1
        <5>3. CASE StartAgain
          <6>1. starting' = starting
            BY <5>3 DEF StartAgain
          <6>2. QED BY <5>1, <6>1
        <5>4. QED BY <1>4, <5>2, <5>3
      <4>4. db' = db
        BY <1>4 DEF Listen, StartAgain
      <4>5. QED BY <1>1, <1>3, <4>1, <4>2, <4>3, <4>4 DEF ServerTypeOK
    <3>3. QED
      BY <3>1, <3>2 DEF TypeOK, DiskTypeOK, ControlTypeOK, ServerTypeOK, HistoryTypeOK
  <2>3. UsesSettings'
    BY <1>1, <1>4, <2>1 DEF UsesSettings, Listen, StartAgain, GetInstance
  <2>4. FindsConfig' /\ KeyIsOnDisk' /\ TlsIsOnDisk'
    BY <1>1, <1>4, <2>1 DEF FindsConfig, KeyIsOnDisk, TlsIsOnDisk, Listen, StartAgain
  <2>5. QED BY <2>2, <2>3, <2>4 DEF StartupInv
<1>5. CASE Stop
  <2>1. phase \notin Early /\ phase' \notin Early
    BY <1>5 DEF Stop, Early
  <2>2. TypeOK'
    <3>1. DiskTypeOK' /\ ControlTypeOK' /\ HistoryTypeOK'
      BY <1>1, <1>5 DEF DiskTypeOK, ControlTypeOK, HistoryTypeOK, Stop
    <3>2. ServerTypeOK'
      <4>1. listening' = FALSE
        BY <1>5 DEF Stop
      <4>2. listening' \in BOOLEAN
        BY <4>1
      <4>3. /\ port' = 0 /\ starting' = starting
            /\ db' = [w \in Workers |-> -2]
        BY <1>5 DEF Stop
      <4>4. starting \subseteq Workers
        BY <1>1 DEF ServerTypeOK
      <4>5. db' \in [Workers -> -2 .. MaxEdits]
        BY <4>3, NothingIsTyped
      <4>6. QED BY <4>2, <4>3, <4>4, <4>5 DEF ServerTypeOK
    <3>3. QED
      BY <3>1, <3>2 DEF TypeOK, DiskTypeOK, ControlTypeOK, ServerTypeOK, HistoryTypeOK
  <2>3. UsesSettings'
    BY <1>1, <1>5, <2>1 DEF UsesSettings, Stop
  <2>4. FindsConfig' /\ KeyIsOnDisk' /\ TlsIsOnDisk'
    BY <1>1, <1>5, <2>1 DEF FindsConfig, KeyIsOnDisk, TlsIsOnDisk, Stop
  <2>5. QED BY <2>2, <2>3, <2>4 DEF StartupInv
<1>6. ASSUME NEW w \in Workers, ConfigureDatabaseConnection(w)
      PROVE  StartupInv'
  <2>1. phase \notin Early /\ phase' = phase
    BY <1>1, <1>6 DEF ConfigureDatabaseConnection, UsesSettings
  <2>2. TypeOK'
    BY <1>1, <1>3, <1>6 DEF TypeOK, ConfigureDatabaseConnection, GetInstance
  <2>3. UsesSettings'
    BY <1>1, <1>6, <2>1
       DEF UsesSettings, ConfigureDatabaseConnection, GetInstance, TypeOK
  <2>4. FindsConfig' /\ KeyIsOnDisk' /\ TlsIsOnDisk'
    BY <1>6, <2>1 DEF StartupInv, FindsConfig, KeyIsOnDisk, TlsIsOnDisk,
                      ConfigureDatabaseConnection
  <2>5. QED BY <2>2, <2>3, <2>4 DEF StartupInv
<1>7. QED BY <1>4, <1>5, <1>6

(* Being killed, and what the operator does meanwhile.                     *)
LEMMA DisturbancesKeep ==
  ASSUME StartupInv, Crash \/ Operator
  PROVE  StartupInv'
<1> USE DEF disk, reading, server, history
<1>1. /\ TypeOK /\ UsesSettings
      /\ DiskTypeOK /\ ControlTypeOK /\ ServerTypeOK /\ HistoryTypeOK
  BY TypeParts DEF StartupInv
<1>2. CASE Crash
  <2>1. TypeOK'
    <3>1. DiskTypeOK' /\ HistoryTypeOK'
      BY <1>1, <1>2 DEF DiskTypeOK, HistoryTypeOK, Crash
    <3>2. ControlTypeOK' /\ ServerTypeOK'
      BY <1>2, NothingIsTyped DEF ControlTypeOK, ServerTypeOK, Crash
    <3>3. QED
      BY <3>1, <3>2 DEF TypeOK, DiskTypeOK, ControlTypeOK, ServerTypeOK, HistoryTypeOK
  <2>2. UsesSettings'
    BY <1>1, <1>2 DEF UsesSettings, Crash, Early
  <2>3. FindsConfig' /\ KeyIsOnDisk' /\ TlsIsOnDisk'
    BY <1>2 DEF FindsConfig, KeyIsOnDisk, TlsIsOnDisk, Crash, Early
  <2>4. QED BY <2>1, <2>2, <2>3 DEF StartupInv
<1>3. CASE Operator
  <2>1. Acts
    BY <1>3 DEF Operator, EditConfig, DeleteConfig, DeleteCertificates, ReplaceKey,
                ReplaceCertificate
  <2>2. edits + 1 \in 0 .. MaxEdits
    BY <1>1, <2>1, EditsAssumption DEF TypeOK, Acts
  <2>3. \A kind \in Kinds : File(edits + 1, kind) \in Files
    BY <2>2 DEF Files
  <2>4. DiskTypeOK'
    <3>1. CASE EditConfig \/ DeleteConfig
      <4>1. configFile' \in Files
        <5>1. CASE EditConfig
          BY <2>3, <5>1 DEF EditConfig
        <5>2. CASE DeleteConfig
          <6>1. configFile' = Absent
            BY <5>2 DEF DeleteConfig
          <6>2. QED BY <6>1, TablesAreTyped
        <5>3. QED BY <3>1, <5>1, <5>2
      <4>2. configsDir' \in BOOLEAN
        BY <1>1, <3>1 DEF DiskTypeOK, EditConfig, DeleteConfig
      <4>3. UNCHANGED <<certificateDir, keyFile, certificateFile>>
        BY <3>1 DEF EditConfig, DeleteConfig
      <4>4. QED BY <1>1, <4>1, <4>2, <4>3 DEF DiskTypeOK
    <3>2. CASE DeleteCertificates
      <4>1. keyFile' \in 0 .. Pairs /\ certificateFile' \in 0 .. Pairs
        BY <3>2, PairsAssumption DEF DeleteCertificates
      <4>2. certificateDir' \in BOOLEAN /\ UNCHANGED <<configsDir, configFile>>
        BY <3>2 DEF DeleteCertificates
      <4>3. QED BY <1>1, <4>1, <4>2 DEF DiskTypeOK
    <3>3. ASSUME NEW p \in 0 .. Pairs, ReplaceKey(p) \/ ReplaceCertificate(p)
          PROVE  DiskTypeOK'
      BY <1>1, <3>3 DEF DiskTypeOK, ReplaceKey, ReplaceCertificate
    <3>4. QED BY <1>3, <3>1, <3>2, <3>3 DEF Operator
  <2>5. TypeOK'
    <3>1. ControlTypeOK' /\ ServerTypeOK'
      BY <1>1, <2>1 DEF ControlTypeOK, ServerTypeOK, Acts
    <3>2. HistoryTypeOK'
      BY <2>1, <2>2 DEF HistoryTypeOK, Acts
    <3>3. QED
      BY <2>4, <3>1, <3>2 DEF TypeOK, DiskTypeOK, ControlTypeOK, ServerTypeOK, HistoryTypeOK
  <2>6. UsesSettings' /\ FindsConfig' /\ KeyIsOnDisk' /\ TlsIsOnDisk'
    BY <1>1, <2>1 DEF UsesSettings, FindsConfig, KeyIsOnDisk, TlsIsOnDisk, Acts
  <2>7. QED BY <2>5, <2>6 DEF StartupInv
<1>4. QED BY <1>2, <1>3

-----------------------------------------------------------------------------
(* The inductive invariant of the start-up: what is in use is what the     *)
(* table says, and an undisturbed program has read what is on the disk.    *)
THEOREM StartupInvariant == Spec => []StartupInv
<1>1. StartupInv /\ [Next]_vars => StartupInv'
  <2> SUFFICES ASSUME StartupInv, [Next]_vars PROVE StartupInv'
    OBVIOUS
  <2>1. CASE Next
    BY <2>1, PreparingKeeps, LoadingKeeps, ServingKeeps, DisturbancesKeep DEF Next, Main
  <2>2. CASE UNCHANGED vars
    BY <2>2 DEF vars, disk, reading, server, history, StartupInv, TypeOK, UsesSettings,
                FindsConfig, KeyIsOnDisk, TlsIsOnDisk
  <2>3. QED BY <2>1, <2>2
<1>2. QED BY <1>1, InitiallyHolds, PTL DEF Spec

(* Every variable of Startup has its type, whatever is on the disk.        *)
THEOREM StartupTypeCorrect == Spec => []TypeOK
<1>1. StartupInv => TypeOK
  BY DEF StartupInv
<1>2. QED BY <1>1, StartupInvariant, PTL

(* An undisturbed start listens on the port the file on the disk names,    *)
(* after any crashes and deletions before it.                              *)
THEOREM UndisturbedStartWorks == Spec => []UndisturbedStart
<1>1. StartupInv => UndisturbedStart
  <2> SUFFICES ASSUME StartupInv, listening, undisturbed
               PROVE  /\ configFile # Absent
                      /\ port = ListeningPort(ParsedTable(configFile))
    BY DEF UndisturbedStart
  <2>1. phase \notin Early
    BY DEF StartupInv, UsesSettings
  <2>2. QED BY <2>1 DEF StartupInv, UsesSettings, FindsConfig
<1>2. QED BY <1>1, StartupInvariant, PTL

(* The port and all database connections come from one version of the      *)
(* configuration, for the whole life of the process.                       *)
THEOREM OneVersion == Spec => []SettingsAreOneVersion
<1>1. StartupInv => SettingsAreOneVersion
  <2> SUFFICES ASSUME StartupInv, NEW w \in Workers, db[w] # -2
               PROVE  /\ \A v \in Workers : db[v] \in {-2, db[w]}
                      /\ port # 0 => port = 1000 + db[w]
    BY DEF SettingsAreOneVersion
  <2>1. /\ \A v \in Workers : db[v] \in {-2, DatabaseSettings(settings)}
        /\ port = IF listening THEN ListeningPort(settings) ELSE 0
    BY DEF StartupInv, UsesSettings
  <2>2. port # 0 => port = 1000 + settings.version /\ settings.kind # "absent"
    BY <2>1 DEF ListeningPort
  <2>3. settings.kind # "absent" => DatabaseSettings(settings) = settings.version
    BY DEF DatabaseSettings, Absent, File
  <2>4. QED BY <2>1, <2>2, <2>3
<1>2. QED BY <1>1, StartupInvariant, PTL

(* Once up, and once stopped, the server has the key and the certificate   *)
(* that are on the disk, unless they were replaced while it loaded them.   *)
THEOREM TlsAsOnDisk == Spec => []TlsIsOnDisk
<1>1. StartupInv => TlsIsOnDisk
  BY DEF StartupInv
<1>2. QED BY <1>1, StartupInvariant, PTL

(* Only the operator changes a configuration file that exists.             *)
THEOREM EditsAreKept == Spec => OwnerEditsKept
<1>1. TypeOK /\ [Next]_vars =>
        [configFile # Absent /\ edits' = edits => configFile' = configFile]_vars
  <2> SUFFICES ASSUME TypeOK, Next, configFile # Absent, edits' = edits
               PROVE  configFile' = configFile
    OBVIOUS
  <2> USE DEF disk, reading, server, history
  <2>1. edits + 1 # edits
    BY DEF TypeOK
  <2>2. ~ Operator
    BY <2>1 DEF Operator, Acts, EditConfig, DeleteConfig,
       DeleteCertificates, ReplaceKey, ReplaceCertificate
  <2>3. QED
    BY <2>2 DEF Next, Main, Boot, MkdirConfigs, MkdirCertificate, ConfigFileExists,
       CopyTemplate, ReadConfigs, LoadPrivateKey, LoadCertificate, Listen, StartAgain,
       Stop, Crash, ConfigureDatabaseConnection
<1>2. QED BY <1>1, StartupTypeCorrect, PTL DEF Spec, OwnerEditsKept
=============================================================================
