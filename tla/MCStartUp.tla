------------------------------ MODULE MCStartUp ------------------------------
(* Instances of StartUp for TLC: configuration files and calls of the logger. *)
EXTENDS StartUp, LogCalls

CONSTANTS t1, t2

Digits ==
  "0" :> 0 @@ "1" :> 1 @@ "3" :> 3 @@ "4" :> 4 @@ "7" :> 7 @@ "100" :> 100 @@ "8888" :> 8888
    @@ "9999" :> 9999 @@ "65535" :> 65535 @@ "70000" :> 70000

\* Port 1 is reserved, and 9999 taken for UDP.
HostListenable ==
  [transport \in {"tcp", "udp"} |->
     {address(<<"0.0.0.0">>, port) :
        port \in {0, 8888} \union IF transport = "tcp" THEN {9999} ELSE {}}]

Line(name, value) == <<name, "=", value>>

Plain ==
  << Line("log_path", "log"), Line("log_level", "3"), Line("log_file_size", "100"),
     Line("listen_ip", "0.0.0.0"), Line("listen_port", "8888"),
     Line("io_threads", "4"), Line("type", "tcp") >>

\* Ways to write a line: left out, commented, without a value, with "=" in the
\* value, with a blank, with more "=", with a carriage return.
Variants(line) ==
  LET name == line[1] value == line[3] IN
  { <<>>, <<"#">> \o line, line \o <<"#">>, <<name, "=">>, <<name>>, line \o <<"=", "x">>,
    <<name, " ", "=", value>>, <<name, "=", " ", value>>, <<"=", name, "=", "=", value, "=">>,
    line \o <<"\r">>, Line(name, "1"), Line(name, "0"), Line(name, "x") }

TargetLines ==
  UNION {{<<"target_ip", i, "=", "127.0.0.1">>, <<"target_port", i, "=", "9999">>} :
           i \in {"0", "1", "99", "100"}}
    \union {<<"target_port", "1", "=", "70000">>, <<"target_port", "1", "=", "65535">>}

OneVaried == UNION {{[Plain EXCEPT ![n] = v] : v \in Variants(Plain[n])} : n \in DOMAIN Plain}
Twice     == {Plain \o <<Line(Plain[n][1], "1")>> : n \in DOMAIN Plain}
            \union {<<Line(Plain[n][1], "1")>> \o Plain : n \in DOMAIN Plain}
WithTargets ==
  {Plain \o <<a, b>> : a, b \in TargetLines}
    \union {Plain \o <<a, <<"target_ip", "1", "=", "127.0.0.1">>, <<"target_port", "99", "=", "9999">>>> :
              a \in TargetLines}

OnPort9999 ==
  {[Plain EXCEPT ![5] = Line("listen_port", "9999"), ![7] = Line("type", v)] : v \in {"tcp", "udp"}}

AllFiles  == {Plain} \union OneVaried \union Twice \union WithTargets \union OnPort9999
OnlyPlain == {[Plain EXCEPT ![2] = Line("log_level", "0")]}

\* Texts in which placeholders touch, are cut short or have no argument.
OddCalls ==
  { Call("warn", <<"{", "}", "{", "}">>, <<"a", "b">>), Call("error", <<"{", "{", "}", "}">>, <<"a">>),
    Call("fatal", <<"x", "{", "}">>, <<"{}", "b">>),    Call("all", <<"{", "}", "{", "}">>, <<"a">>),
    Call("error", <<"{", "}", "x">>, <<>>),             Call("warn", <<"{", "x", "}", "{">>, <<"a">>),
    Call("info", <<"}", "{", "}", "{", "}">>, <<"a">>) }

FewCalls == OddCalls \union {ConnectFails}
=============================================================================
