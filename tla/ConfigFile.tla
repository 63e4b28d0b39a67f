------------------------------ MODULE ConfigFile ------------------------------
(***************************************************************************)
(* utils/config_file.h with split() and contains() of                      *)
(* utils/switch_proxy_util.h: the settings of a configuration file.  A     *)
(* line is a sequence of tokens, of which "=" and "#" are two; keys and    *)
(* values are sequences of the others.                                     *)
(***************************************************************************)
EXTENDS Integers, Sequences, FiniteSets

CONSTANT Numeral    \* the number a token of digits stands for

ASSUME NumeralAssumption == Numeral \in [DOMAIN Numeral -> Int]

contains(str, token) == \E i \in DOMAIN str : str[i] = token

\* split() at "=", by strtok_r(): delimiters before a token are skipped.
Split(str) ==
  LET ends == {i \in 1 .. Len(str) + 1 : i > Len(str) \/ str[i] = "="}
      parts[i \in 1 .. Len(str) + 1] ==
        IF i > Len(str) THEN <<>>
        ELSE IF str[i] = "=" THEN parts[i + 1]
        ELSE LET e == CHOOSE e \in ends : e >= i /\ \A f \in ends : f >= i => e <= f
             IN <<SubSeq(str, i, e - 1)>> \o parts[e]
  IN parts[1]

\* Mutant: configs_[key] = value
Assign(configs, key, value) ==
  [k \in DOMAIN configs \union {key} |-> IF k = key THEN value ELSE configs[k]]

\* configs_.emplace(key, value)
Emplace(configs, key, value) ==
  [k \in DOMAIN configs \union {key} |-> IF k \in DOMAIN configs THEN configs[k] ELSE value]

\* One line of set_file_path().
AddLine(configs, line) ==
  LET arr == Split(line) IN
  IF ~contains(line, "#") /\ contains(line, "=") /\ Len(arr) = 2
  THEN Emplace(configs, arr[1], arr[2]) ELSE configs

\* What is left of a value without its blanks.
Words(value) == SelectSeq(value, LAMBDA token : token # " ")

\* atoi(): blanks are skipped, what follows the digits is ignored.
Atoi(value) ==
  LET words == Words(value) IN
  IF words # <<>> /\ words[1] \in DOMAIN Numeral THEN Numeral[words[1]] ELSE 0
=============================================================================
