------------------------------- MODULE StartUp -------------------------------
(***************************************************************************)
(* main.cpp and switch/switch_proxy.cpp: the program reads its settings,   *)
(* initialises the logger and starts one of the two proxies; a setting     *)
(* that is missing, or an address the host does not let it listen on, ends *)
(* it with an exception that nobody catches.  Once a proxy runs, its       *)
(* threads log.                                                            *)
(***************************************************************************)
EXTENDS ConfigFile, Easylog, TLC

CONSTANTS
  Files,            \* the configuration files: sequences of lines
  Listenable        \* per transport: the addresses the host lets the process
                    \* open a socket, bind and listen on.  Not among them: what is
                    \* no IP address, addresses of other hosts, ports that are
                    \* taken or reserved for root.

ASSUME FilesAssumption == \A f \in Files : IsText(f) /\ \A n \in DOMAIN f : IsText(f[n])
ASSUME ListenableAssumption == DOMAIN Listenable = {"tcp", "udp"}

VARIABLES
  at,               \* where main() is
  file,             \* the configuration file
  next,             \* the next line, then the next number of a target
  configs,          \* configs_, from keys to values
  listen,           \* listen_address
  targets           \* target_address_list

mainVars == <<at, file, next, configs, listen, targets>>
vars == <<logVars, mainVars>>

Key(name) == <<name>>
has(name) == Key(name) \in DOMAIN configs
get_int(name) == Atoi(configs[Key(name)])

TargetNumbers == 0 .. 99
ip_key(i) == <<"target_ip", ToString(i)>>
port_key(i) == <<"target_port", ToString(i)>>

\* address(ip, port): an int becomes an unsigned short.
address(ip, port) == [ip |-> ip, port |-> port % 65536]

NoAddress == address(<<>>, 0)

Init ==
  /\ LogInit
  /\ at = "file" /\ next = 1
  /\ file \in Files
  /\ configs = <<>>
  /\ listen = NoAddress
  /\ targets = <<>>

-----------------------------------------------------------------------------
\* set_file_path() reads a line.
ReadLine ==
  /\ at = "file" /\ next <= Len(file)
  /\ configs' = AddLine(configs, file[next])
  /\ next' = next + 1
  /\ UNCHANGED <<logVars, at, file, listen, targets>>

\* main() up to EASYLOG_INIT.
InitLog ==
  /\ at = "file" /\ next > Len(file)
  /\ IF has("log_path") /\ has("log_level") /\ has("log_file_size")
     THEN at' = "listen" /\ InitEasylog(get_int("log_level"))
     ELSE at' = "ended" /\ UNCHANGED logVars
  /\ next' = 0
  /\ UNCHANGED <<file, configs, listen, targets>>

\* run() reads the listen address.
ReadListenAddress ==
  /\ at = "listen"
  /\ IF has("listen_ip") /\ has("listen_port")
     THEN /\ at' = "targets"
          /\ listen' = address(configs[Key("listen_ip")], get_int("listen_port"))
     ELSE at' = "ended" /\ UNCHANGED listen
  /\ UNCHANGED <<logVars, file, next, configs, targets>>

\* Mutant: the targets end at the first number that has none.
ReadTargetUntilGap ==
  LET i == next IN
  /\ at = "targets"
  /\ IF ip_key(i) \in DOMAIN configs /\ port_key(i) \in DOMAIN configs
     THEN /\ targets' = Append(targets, address(configs[ip_key(i)], Atoi(configs[port_key(i)])))
          /\ next' = i + 1 /\ UNCHANGED at
     ELSE at' = "manager" /\ UNCHANGED <<next, targets>>
  /\ UNCHANGED <<logVars, file, configs, listen>>

\* One round of the loop of read_target_address().
ReadTarget ==
  LET i == next IN
  /\ at = "targets"
  /\ targets' = IF ip_key(i) \in DOMAIN configs /\ port_key(i) \in DOMAIN configs
                THEN Append(targets, address(configs[ip_key(i)], Atoi(configs[port_key(i)])))
                ELSE targets
  /\ next' = i + 1
  /\ at' = IF next' \in TargetNumbers THEN at ELSE "manager"
  /\ UNCHANGED <<logVars, file, configs, listen>>

\* Every type but "tcp" is UDP.
Transport(type) == IF type = <<"tcp">> THEN "tcp" ELSE "udp"

\* Whether the constructor of a manager ends the process: without a first io_service
\* by a fault, with a socket that cannot be opened, bound or listened on, or an
\* address that does not parse, by an exception.
CannotListen(transport) ==
  get_int("io_threads") <= 0 \/ listen \notin Listenable[transport]

\* Mutant: without a type the default is tcp.
RunManagerByDefault ==
  LET type == IF has("type") THEN configs[Key("type")] ELSE <<"tcp">> IN
  /\ at = "manager"
  /\ at' = IF ~has("io_threads") \/ CannotListen(Transport(type)) THEN "ended" ELSE Transport(type)
  /\ UNCHANGED <<logVars, file, next, configs, listen, targets>>

\* The rest of run(): the number of threads, the type and the manager of that type.
RunManager ==
  LET type == configs[Key("type")] IN
  /\ at = "manager"
  /\ at' = IF ~has("io_threads") \/ ~has("type") \/ CannotListen(Transport(type)) THEN "ended"
           ELSE Transport(type)
  /\ UNCHANGED <<logVars, file, next, configs, listen, targets>>

Running == at \in {"tcp", "udp"}

MainStep == ReadLine \/ InitLog \/ ReadListenAddress \/ ReadTarget \/ RunManager

ProxyLogs == Running /\ LogStep /\ UNCHANGED mainVars

Next == MainStep \/ ProxyLogs

Spec == Init /\ [][Next]_vars

FairSpec == Spec /\ WF_vars(MainStep)

-----------------------------------------------------------------------------
(* What a file says, without reference to how it is read.                  *)

Repeat(token, n) == [i \in 1 .. n |-> token]

\* A line sets key to value if it is made of the two, one "=" or more between them
\* and any number around them, and has no "#" anywhere.
Sets(line, key, value) ==
  /\ key # <<>> /\ value # <<>>
  /\ \A i \in DOMAIN (key \o value) : (key \o value)[i] \notin {"=", "#"}
  /\ LET pads == Len(line) - Len(key) - Len(value) IN
     \E a, b \in 0 .. pads :
       /\ a + b < pads
       /\ line = Repeat("=", a) \o key \o Repeat("=", pads - a - b) \o value \o Repeat("=", b)

Pieces(n) == {SubSeq(file[n], i, j) : i, j \in DOMAIN file[n]}

\* A setting is what the first line says that sets its key.
SetsFirst(n, key, value) ==
  /\ Sets(file[n], key, value)
  /\ \A m \in 1 .. n - 1 : \A v \in Pieces(m) : ~Sets(file[m], key, v)

Says(key, value) == \E n \in DOMAIN file : SetsFirst(n, key, value)

Given(name) == \E n \in DOMAIN file : \E v \in Pieces(n) : Sets(file[n], Key(name), v)

Values == UNION {Pieces(n) : n \in DOMAIN file}

\* The file gives every setting that is asked for, a thread at least, a type of this
\* transport and an address the host lets the process listen on.
MayRun(transport) ==
  /\ \A name \in {"log_path", "log_level", "log_file_size", "listen_ip", "listen_port",
                  "io_threads", "type"} : Given(name)
  /\ \E v \in Values : Says(Key("io_threads"), v) /\ Atoi(v) > 0
  /\ \E v \in Values : Says(Key("type"), v) /\ Transport(v) = transport
  /\ \E ip \in Values : Says(Key("listen_ip"), ip) /\
       \E port \in Values : Says(Key("listen_port"), port) /\
         address(ip, Atoi(port)) \in Listenable[transport]

-----------------------------------------------------------------------------
\* The settings are those of the file, the first one where a key comes twice; a
\* line with "#" in it, without a value or with a value that contains "=" sets
\* nothing (config_file.h:18-29, switch_proxy_util.h:37-49).
SettingsAreTheFiles ==
  at = "file" /\ next > Len(file) =>
    /\ \A key \in DOMAIN configs : Says(key, configs[key])
    /\ \A n \in DOMAIN file : \A key, value \in Pieces(n) :
         Says(key, value) => key \in DOMAIN configs /\ configs[key] = value

Ports == {port \in Nat : port < 65536}

\* The proxy forwards to every target that has an address and a port, whatever
\* numbers are left out, in the order of their numbers; a port that is one is not
\* changed on its way through int and unsigned short (switch_proxy.cpp:37-47,
\* address.h:11).
TargetsAreTheFiles ==
  at = "manager" =>
    LET given == {i \in 0 .. 99 : {ip_key(i), port_key(i)} \subseteq DOMAIN configs} IN
    /\ Len(targets) = Cardinality(given)
    /\ \A i \in given :
         LET target == targets[Cardinality({j \in given : j <= i})]
             port   == Atoi(configs[port_key(i)])
         IN target.ip = configs[ip_key(i)] /\ (port \in Ports => target.port = port)

\* A proxy starts only if the file gives every setting that is asked for, a thread at
\* least, its type, and an address the host lets it listen on; and the process ends,
\* while it starts, only if the file does not, or the host refuses that address
\* (config_file.h:36-39, switch_proxy.cpp:9-27, tcp_switch_session_manager.cpp:6-7,
\* udp_switch_session_manager.cpp:13-14, main.cpp:16-23).
StartsOnlyIfMayRun ==
  [][\A transport \in {"tcp", "udp"} :
       /\ at # transport /\ at' = transport => MayRun(transport)
       /\ at' = "ended" => ~MayRun(transport)]_at

\* A proxy runs in the end if the file gives all that and the host lets it listen;
\* otherwise the process ends rather than to run with less (the same lines).
StartsIfComplete ==
  /\ at = "file" ~> Running \/ at = "ended"
  /\ StartsOnlyIfMayRun

-----------------------------------------------------------------------------
(* The inductive invariant behind TargetsAreTheFiles.                      *)

\* The numbers below n for which the settings give a target.
GivenBelow(n) == {i \in 0 .. n - 1 : {ip_key(i), port_key(i)} \subseteq DOMAIN configs}

\* The targets of the numbers below n are read, each at the place of its number.
TargetsRead(n) ==
  /\ Len(targets) = Cardinality(GivenBelow(n))
  /\ \A i \in GivenBelow(n) :
       targets[Cardinality({j \in GivenBelow(n) : j <= i})]
         = address(configs[ip_key(i)], Atoi(configs[port_key(i)]))

MainInv ==
  /\ at \in {"file", "listen"} => targets = <<>>
  /\ at = "listen" => next = 0
  /\ at = "targets" => next \in TargetNumbers
  /\ at = "manager" => next = 100
  /\ at \in {"targets", "manager"} => TargetsRead(next)

-----------------------------------------------------------------------------
(* The inductive invariants behind SettingsAreTheFiles, StartsOnlyIfMayRun *)
(* and, with the logger's level, LinesAreFormatted.                        *)

\* The settings are what the first n lines say.
SettingsRead(n) ==
  /\ \A key \in DOMAIN configs :
       \E m \in 1 .. n : configs[key] \in Pieces(m) /\ SetsFirst(m, key, configs[key])
  /\ \A m \in 1 .. n : \A key, value \in Pieces(m) :
       Sets(file[m], key, value) => key \in DOMAIN configs

SettingsInv ==
  /\ file \in Files
  /\ IF at = "file" THEN next \in 1 .. Len(file) + 1 /\ SettingsRead(next - 1)
                    ELSE SettingsRead(Len(file))

\* What has been asked for on the way is there.
AskedInv ==
  /\ at \notin {"file", "ended"} => has("log_path") /\ has("log_level") /\ has("log_file_size")
  /\ at \in {"targets", "manager"} \/ Running =>
       /\ has("listen_ip") /\ has("listen_port")
       /\ listen = address(configs[Key("listen_ip")], get_int("listen_port"))

\* Nothing is logged until a proxy runs, with the level that stays.
NothingLoggedYet == ~Running => logged = <<>>
=============================================================================
