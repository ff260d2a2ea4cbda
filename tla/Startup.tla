------------------------------ MODULE Startup ------------------------------
(***************************************************************************)
(* How the server comes up from what is on the disk, and what it goes on   *)
(* using of it (app/src/main.cpp, project_structure_defender.cpp,          *)
(* config_reader.cpp, initSslConfiguration() of client_connection.cpp and  *)
(* configureDatabaseConnection() of database_connection.cpp).              *)
(*                                                                         *)
(* The program may be killed between any two steps and started again: what *)
(* it keeps in memory is lost, what is on the disk is not.  Meanwhile its  *)
(* operator edits, replaces and deletes files.                             *)
(*                                                                         *)
(* Data abstraction.  A configuration file is a version, numbered by the   *)
(* edit that wrote it, and what kind of file it is; the template in the    *)
(* program's resources is version 0.  Keys and certificates are numbered,  *)
(* 0 for none: a key belongs to the certificate of its number.             *)
(***************************************************************************)
EXTENDS Integers

CONSTANTS Workers,     \* the worker threads
          Pairs,       \* bound: pairs of a key and a certificate
          MaxEdits     \* bound: what the operator does

ASSUME PairsAssumption == Pairs \in Nat
ASSUME EditsAssumption == MaxEdits \in Nat

VARIABLES configsDir, certificateDir,  \* do the directories exist?
          configFile,                  \* configs/configs.toml
          keyFile, certificateFile,    \* the files in certificate/
          phase,                       \* what the main thread comes to next
          afterTls,                    \* and what after the TLS settings
          settings,                    \* ConfigReader::configs
          tls,                         \* the static sslConfiguration
          listening, port,             \* the QTcpServer
          starting,                    \* workers still to configure a database
          db,                          \* what each was told of the database
          edits,                       \* history: how often the operator acted
          undisturbed,                 \* history: not since the program began
          quiet                        \* history: not since TLS was loaded

disk    == <<configsDir, certificateDir, configFile, keyFile, certificateFile>>
reading == <<settings, tls>>
server  == <<listening, port, starting, db>>
history == <<edits, undisturbed, quiet>>
vars == <<disk, phase, afterTls, reading, server, history>>

-----------------------------------------------------------------------------
(* Configuration files and what is read from them.                         *)

Kinds == {"good", "badPort", "broken"}
File(v, kind) == [version |-> v, kind |-> kind]
Absent   == File(0, "absent")
Template == File(0, "template")
Files == {Absent, Template} \cup {File(v, k) : v \in 0 .. MaxEdits, k \in Kinds}

(* Before the first getInstance().                                         *)
Unread == File(0, "unread")

(* parse_file throws if there is no file or it is not TOML; the exception  *)
(* is caught and the table stays empty.                                    *)
ParsedTable(file) == IF file.kind = "broken" THEN Absent ELSE file

(* getInstance(): the table read when it was first called, for good.       *)
GetInstance_ReadsAgain == ParsedTable(configFile)
GetInstance == settings

(* value_or: 0 if there is no such number, or if it is no 16-bit one.      *)
ListeningPort_AnyNumber(table) ==
    IF table.kind = "badPort" THEN 70000
    ELSE IF table.kind \in {"template", "good"} THEN 1000 + table.version ELSE 0
ListeningPort(table) ==
    IF table.kind \in {"template", "good"} THEN 1000 + table.version ELSE 0

(* A name nobody set reads as a fixed phrase, here as -1.                  *)
DatabaseSettings(table) == IF table = Absent THEN -1 ELSE table.version

(* The files the settings name.  The template names the directory itself,  *)
(* which cannot be read.                                                   *)
NamesFiles(table) == table.kind \in {"good", "badPort"}

-----------------------------------------------------------------------------
NotRunning ==
    /\ phase = "down" /\ afterTls = "listen"
    /\ settings = Unread /\ tls = [key |-> 0, certificate |-> 0]
    /\ listening = FALSE /\ port = 0
    /\ starting = {} /\ db = [w \in Workers |-> -2]

(* A new installation, or one that was used before.                        *)
Init ==
    /\ configsDir \in BOOLEAN /\ certificateDir \in BOOLEAN
    /\ configFile \in {Absent, File(0, "good")}
    /\ configFile # Absent => configsDir
    /\ keyFile \in 0 .. Pairs
    /\ keyFile # 0 => certificateDir
    /\ certificateFile = keyFile
    /\ NotRunning
    /\ edits = 0 /\ undisturbed = FALSE /\ quiet = FALSE

Goto(next) == phase' = next /\ UNCHANGED afterTls

Boot ==
    /\ phase = "down" /\ Goto("mkdirConfigs")
    /\ undisturbed' = TRUE
    /\ UNCHANGED <<disk, reading, server, edits, quiet>>

(* initDirectories(): mkdir of what exists does nothing.                   *)
MkdirConfigs_TrustsDirectory ==
    /\ phase = "mkdirConfigs"
    /\ Goto(IF configsDir THEN "readConfigs" ELSE "mkdirCertificate")
    /\ configsDir' = TRUE
    /\ UNCHANGED <<certificateDir, configFile, keyFile, certificateFile,
                   reading, server, history>>
MkdirConfigs ==
    /\ phase = "mkdirConfigs" /\ Goto("mkdirCertificate")
    /\ configsDir' = TRUE
    /\ UNCHANGED <<certificateDir, configFile, keyFile, certificateFile,
                   reading, server, history>>

MkdirCertificate ==
    /\ phase = "mkdirCertificate" /\ Goto("exists")
    /\ certificateDir' = TRUE
    /\ UNCHANGED <<configsDir, configFile, keyFile, certificateFile,
                   reading, server, history>>

(* initConfigFile().                                                       *)
ConfigFileExists ==
    /\ phase = "exists"
    /\ Goto(IF configFile = Absent THEN "copy" ELSE "readConfigs")
    /\ UNCHANGED <<disk, reading, server, history>>

(* QFile::copy writes a temporary file and renames it, which an existing   *)
(* target refuses.  It may fail for want of space or of the directory.     *)
CopyTemplate_Overwrites ==
    /\ phase = "copy" /\ Goto("readConfigs")
    /\ \/ /\ configsDir
          /\ configFile' = Template /\ UNCHANGED undisturbed
       \/ UNCHANGED configFile /\ undisturbed' = FALSE
    /\ UNCHANGED <<configsDir, certificateDir, keyFile, certificateFile,
                   reading, server, edits, quiet>>
CopyTemplate ==
    /\ phase = "copy" /\ Goto("readConfigs")
    /\ \/ /\ configsDir /\ configFile = Absent
          /\ configFile' = Template /\ UNCHANGED undisturbed
       \/ UNCHANGED configFile /\ undisturbed' = FALSE
    /\ UNCHANGED <<configsDir, certificateDir, keyFile, certificateFile,
                   reading, server, edits, quiet>>

(* The first getInstance() is that of initSslConfiguration().              *)
ReadConfigs_Throws ==
    /\ phase = "readConfigs" /\ configFile.kind # "broken"
    /\ Goto("privateKey")
    /\ settings' = ParsedTable(configFile)
    /\ quiet' = TRUE
    /\ UNCHANGED <<disk, tls, server, edits, undisturbed>>
ReadConfigs ==
    /\ phase = "readConfigs" /\ Goto("privateKey")
    /\ settings' = ParsedTable(configFile)
    /\ quiet' = TRUE
    /\ UNCHANGED <<disk, tls, server, edits, undisturbed>>

(* initSslConfiguration(): a file that cannot be read gives an empty key   *)
(* or certificate, and that replaces the one there was.                    *)
LoadPrivateKey ==
    /\ phase = "privateKey" /\ Goto("certificate")
    /\ tls' = [tls EXCEPT !.key = IF NamesFiles(GetInstance) THEN keyFile ELSE 0]
    /\ UNCHANGED <<disk, settings, server, history>>

LoadCertificate ==
    /\ phase = "certificate"
    /\ phase' = afterTls /\ UNCHANGED afterTls
    /\ tls' = [tls EXCEPT !.certificate =
                 IF NamesFiles(GetInstance) THEN certificateFile ELSE 0]
    /\ UNCHANGED <<disk, settings, server, history>>

(* start(): listen() may fail and that is not looked at; it does fail when *)
(* the server listens already.  Port 0 makes the system choose one.  To    *)
(* start a thread that still runs does nothing: which ones do is followed  *)
(* in ServerWorkers, here it is any.                                       *)
Listen ==
    /\ phase = "listen" /\ Goto("running")
    /\ \/ /\ ~ listening
          /\ listening' = TRUE /\ port' = ListeningPort(GetInstance)
       \/ UNCHANGED <<listening, port>>
    /\ \E idle \in SUBSET Workers : starting' = starting \cup idle
    /\ UNCHANGED <<disk, reading, db, history>>

(* run() of a worker, in its own thread.                                   *)
ConfigureDatabaseConnection(w) ==
    /\ w \in starting
    /\ starting' = starting \ {w}
    /\ db' = [db EXCEPT ![w] = DatabaseSettings(GetInstance)]
    /\ UNCHANGED <<disk, phase, afterTls, reading, listening, port, history>>

StartAgain ==
    /\ phase \in {"running", "stopped"} /\ Goto("listen")
    /\ UNCHANGED <<disk, reading, server, history>>

(* stop(): close(), the database connections of the workers, and the TLS   *)
(* settings once more.                                                     *)
Stop_KeepsTls ==
    /\ phase = "running"
    /\ phase' = "stopped" /\ afterTls' = "stopped"
    /\ listening' = FALSE /\ port' = 0
    /\ db' = [w \in Workers |-> -2]
    /\ quiet' = TRUE
    /\ UNCHANGED <<disk, reading, starting, edits, undisturbed>>
Stop ==
    /\ phase = "running"
    /\ phase' = "privateKey" /\ afterTls' = "stopped"
    /\ listening' = FALSE /\ port' = 0
    /\ db' = [w \in Workers |-> -2]
    /\ quiet' = TRUE
    /\ UNCHANGED <<disk, reading, starting, edits, undisturbed>>

Crash ==
    /\ phase # "down"
    /\ phase' = "down" /\ afterTls' = "listen"
    /\ settings' = Unread /\ tls' = [key |-> 0, certificate |-> 0]
    /\ listening' = FALSE /\ port' = 0
    /\ starting' = {} /\ db' = [w \in Workers |-> -2]
    /\ UNCHANGED <<disk, history>>

-----------------------------------------------------------------------------
(* The operator.                                                           *)

Acts ==
    /\ edits < MaxEdits
    /\ edits' = edits + 1
    /\ undisturbed' = FALSE /\ quiet' = FALSE
    /\ UNCHANGED <<phase, afterTls, reading, server>>

EditConfig ==
    /\ Acts /\ configsDir
    /\ \E kind \in Kinds : configFile' = File(edits + 1, kind)
    /\ UNCHANGED <<configsDir, certificateDir, keyFile, certificateFile>>

DeleteConfig ==
    /\ Acts /\ configFile # Absent
    /\ configFile' = Absent
    /\ configsDir' \in {configsDir, FALSE}
    /\ UNCHANGED <<certificateDir, keyFile, certificateFile>>

ReplaceKey(p) ==
    /\ Acts /\ certificateDir
    /\ keyFile' = p
    /\ UNCHANGED <<configsDir, certificateDir, configFile, certificateFile>>

ReplaceCertificate(p) ==
    /\ Acts /\ certificateDir
    /\ certificateFile' = p
    /\ UNCHANGED <<configsDir, certificateDir, configFile, keyFile>>

DeleteCertificates ==
    /\ Acts /\ certificateDir
    /\ keyFile' = 0 /\ certificateFile' = 0 /\ certificateDir' = FALSE
    /\ UNCHANGED <<configsDir, configFile>>

Main == \/ MkdirConfigs \/ MkdirCertificate \/ ConfigFileExists \/ CopyTemplate
        \/ ReadConfigs \/ LoadPrivateKey \/ LoadCertificate \/ Listen

Operator == \/ EditConfig \/ DeleteConfig \/ DeleteCertificates
            \/ \E p \in 0 .. Pairs : ReplaceKey(p) \/ ReplaceCertificate(p)

Next == \/ Boot \/ Main \/ StartAgain \/ Stop \/ Crash \/ Operator
        \/ \E w \in Workers : ConfigureDatabaseConnection(w)

Spec == Init /\ [][Next]_vars

(* The main thread and the worker threads run; nobody has to start or stop *)
(* the program, and it need not crash.                                     *)
Fairness == /\ WF_vars(Main)
            /\ \A w \in Workers : WF_vars(ConfigureDatabaseConnection(w))

FairSpec == Spec /\ Fairness

-----------------------------------------------------------------------------
TypeOK ==
    /\ configsDir \in BOOLEAN /\ certificateDir \in BOOLEAN
    /\ configFile \in Files
    /\ keyFile \in 0 .. Pairs /\ certificateFile \in 0 .. Pairs
    /\ phase \in {"down", "mkdirConfigs", "mkdirCertificate", "exists", "copy",
                  "readConfigs", "privateKey", "certificate", "listen",
                  "running", "stopped"}
    /\ afterTls \in {"listen", "stopped"}
    /\ settings \in Files \cup {Unread}
    /\ tls \in [key : 0 .. Pairs, certificate : 0 .. Pairs]
    /\ listening \in BOOLEAN /\ port \in {0} \cup 1000 .. 1000 + MaxEdits
    /\ starting \subseteq Workers
    /\ db \in [Workers -> -2 .. MaxEdits]
    /\ edits \in 0 .. MaxEdits
    /\ undisturbed \in BOOLEAN /\ quiet \in BOOLEAN

(* project_structure_defender.h:18-19: an existing configuration is left   *)
(* alone, also one that appears after the program has looked and before it *)
(* copies the template (project_structure_defender.cpp:28-32).             *)
OwnerEditsKept ==
    [][configFile # Absent /\ edits' = edits => configFile' = configFile]_vars

(* A start that nobody disturbs listens on the port that the file on the   *)
(* disk names, wherever earlier starts were cut off and whatever was       *)
(* deleted before: each start makes what is missing, and only then reads   *)
(* (project_structure_defender.h:9-10, main.cpp:12-16).                    *)
UndisturbedStart ==
    listening /\ undisturbed =>
        /\ configFile # Absent
        /\ port = ListeningPort(ParsedTable(configFile))

(* The port and the database connections of all workers come from one      *)
(* version of the file, although they are looked up at different times, by *)
(* different threads, and again after a stop (singleton_base.h:14-18).     *)
SettingsAreOneVersion ==
    \A w \in Workers : db[w] # -2 =>
        /\ \A v \in Workers : db[v] \in {-2, db[w]}
        /\ port # 0 => port = 1000 + db[w]

(* Once it is up, and again once it is stopped, the server has the key and *)
(* the certificate that lie on the disk, unless they were replaced after   *)
(* it began to load them (multithread_tcp_server.cpp:46): with both of a   *)
(* pair in place before, it never has halves of two.                       *)
TlsIsOnDisk ==
    phase \in {"listen", "running", "stopped"} /\ quiet /\ NamesFiles(settings)
        => tls = [key |-> keyFile, certificate |-> certificateFile]

(* Whatever it finds or misses on the disk, and however its calls of the   *)
(* file system end, the main thread gets through main() to its event loop, *)
(* and through stop() and start() back to it.                              *)
AtRest == phase \in {"running", "stopped", "down"}
ComesToRest == phase # "down" ~> AtRest
=============================================================================
