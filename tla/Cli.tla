-------------------------------- MODULE Cli ---------------------------------
(***************************************************************************)
(* One run of the command-line client, src/bin/bpf-rbac.rs: the arguments  *)
(* a user types one by one, what clap makes of them, how create-map        *)
(* resolves the two forms of its parameters, and the connection.           *)
(***************************************************************************)
EXTENDS Naturals, Sequences, FiniteSets

CONSTANTS
  Words,    \* words a user types
  parse,    \* str::parse::<u32> of a word: {n}, or {} for an error, which a
            \* numeral beyond 2^32 - 1 is as well
  value_parser,  \* clap's parser of a u32 option, in the same form
  MaxArgs   \* bound: options and words typed

\* clap goes through i64, so it accepts what str::parse accepts, and -0.
ASSUME CliAssumption ==
  /\ DOMAIN parse = Words /\ DOMAIN value_parser = Words
  /\ \A w \in Words : /\ parse[w] \subseteq value_parser[w]
                       /\ \A n, m \in value_parser[w] : n \in Nat /\ n = m
  /\ MaxArgs \in Nat

VARIABLES
  command,     \* Commands: "create-map" or "status"
  flags,       \* the options given, each an Option: {} or {v}
  positional,  \* the words after the options
  pc,          \* how far main() has come
  request      \* what is sent to the daemon: {} or {r}

vars == <<command, flags, positional, pc, request>>

Sizes == {"key_size", "value_size", "max_entries"}
Options == {"type", "name"} \cup Sizes

Init ==
  /\ command \in {"create-map", "status"}
  /\ flags = [f \in Options |-> {}]
  /\ positional = <<>>
  /\ pc = "typing" /\ request = {}

-----------------------------------------------------------------------------
(* clap: Cli::parse.                                                        *)

\* Arguments typed so far.
Typed == Cardinality({f \in Options : flags[f] # {}}) + Len(positional)

\* An option with a value.  The values of the sizes are parsed here, and an
\* option may not be repeated: both are usage errors of clap.  After the
\* first word (trailing_var_arg) an option is a word like any other.
Flag(f, w) ==
  /\ command = "create-map" /\ pc = "typing" /\ positional = <<>>
  /\ Typed < MaxArgs
  /\ \/ /\ flags[f] = {} /\ (f \in Sizes => value_parser[w] # {})
        /\ flags' = [flags EXCEPT ![f] =
                       IF f \in Sizes THEN value_parser[w] ELSE {w}]
        /\ pc' = pc
     \/ /\ flags[f] # {} \/ (f \in Sizes /\ value_parser[w] = {})
        /\ pc' = "usage" /\ flags' = flags
  /\ UNCHANGED <<command, positional, request>>

Word(w) ==
  /\ command = "create-map" /\ pc = "typing" /\ Typed < MaxArgs
  /\ positional' = Append(positional, w)
  /\ UNCHANGED <<command, flags, pc, request>>

-----------------------------------------------------------------------------
(* resolve_create_map_args and main.                                        *)

unwrap_or(option, default) == IF option = {} THEN {default} ELSE option

\* The tuple of five values as a set: {} when one of them is missing or
\* not a number.
Tuple(type, name, key_size, value_size, max_entries) ==
  [type : type, name : name, key_size : key_size, value_size : value_size,
   max_entries : max_entries]

\* A wrong variant: the number of entries is the last word.
LastWordIsEntries(words) ==
  Tuple({words[1]}, {words[2]}, parse[words[3]], parse[words[4]],
        IF Len(words) > 4 THEN parse[words[Len(words)]] ELSE {1024})

\* A wrong variant: the sizes in the order value, key.
SizesSwapped(words) ==
  Tuple({words[1]}, {words[2]}, parse[words[4]], parse[words[3]],
        IF Len(words) > 4 THEN parse[words[5]] ELSE {1024})

\* Words beyond the fifth are ignored.
FromWords(words) ==
  Tuple({words[1]}, {words[2]}, parse[words[3]], parse[words[4]],
        IF Len(words) > 4 THEN parse[words[5]] ELSE {1024})

has_flags(f) == \E o \in Options \ {"max_entries"} : f[o] # {}

\* One of the first four options selects the form with options, whatever
\* words there are.
resolve_create_map_args(f, words) ==
  IF has_flags(f)
    THEN Tuple(f.type, f.name, f.key_size, f.value_size,
               unwrap_or(f.max_entries, 1024))
  ELSE IF Len(words) >= 4 THEN FromWords(words) ELSE {}

Resolved == resolve_create_map_args(flags, positional)

\* A wrong variant: an error of resolution does not stop main.
EnterUnresolved ==
  /\ pc = "typing" /\ pc' = "connect"
  /\ UNCHANGED <<command, flags, positional, request>>

\* The line is complete.  An error of resolution ends main before connect.
Enter ==
  /\ pc = "typing"
  /\ pc' = IF command = "create-map" /\ Resolved = {} THEN "usage" ELSE "connect"
  /\ UNCHANGED <<command, flags, positional, request>>

\* connect() succeeds: create-map sends its request, status reports a daemon.
Connect ==
  /\ pc = "connect"
  /\ request' = IF command = "create-map" THEN Resolved ELSE {}
  /\ pc' = IF command = "create-map" THEN "sent" ELSE "running"
  /\ UNCHANGED <<command, flags, positional>>

ConnectFails ==
  /\ pc = "connect" /\ pc' = "unavailable"
  /\ UNCHANGED <<command, flags, positional, request>>

Next ==
  \/ \E w \in Words : Word(w) \/ \E f \in Options : Flag(f, w)
  \/ Enter \/ Connect \/ ConnectFails

Spec == Init /\ [][Next]_vars

-----------------------------------------------------------------------------
(* Properties.                                                              *)

\* Every request has a type and a name that were typed and three numbers.
TypeOK ==
  /\ command \in {"create-map", "status"}
  /\ \A f \in Options :
       \/ flags[f] = {}
       \/ \E w \in Words : flags[f] = IF f \in Sizes THEN value_parser[w] ELSE {w}
  /\ positional \in Seq(Words)
  /\ pc \in {"typing", "usage", "connect", "sent", "running", "unavailable"}
  /\ pc = "sent" => Cardinality(request) = 1
  /\ \A r \in request :
       /\ r.type \in Words /\ r.name \in Words
       /\ \A s \in Sizes : r[s] \in {1024} \cup UNION {value_parser[w] : w \in Words}

\* bpf-rbac.rs:99-101, "Supports both": four or five words resolve to what the
\* options with the same values, in the order of the usage text, resolve to,
\* unless str::parse refuses one of the numerals.  Then they are refused: it
\* refuses whatever clap refuses, and -0, which clap reads as 0.
FormsAgree ==
  LET same == [type |-> {positional[1]}, name |-> {positional[2]},
               key_size |-> value_parser[positional[3]],
               value_size |-> value_parser[positional[4]],
               max_entries |-> IF Len(positional) = 5
                                 THEN value_parser[positional[5]] ELSE {}]
      refused == \E i \in 3 .. Len(positional) : parse[positional[i]] = {}
  IN (Len(positional) \in {4, 5} /\ \A f \in Options : flags[f] = {}) =>
       Resolved = IF refused THEN {} ELSE resolve_create_map_args(same, <<>>)

\* Typing more on a line that is complete already never turns it into another
\* request: only the default number of entries may still be replaced.
CompleteLineStands ==
  [][\A r \in Resolved, s \in Resolved' :
       /\ s = [r EXCEPT !.max_entries = s.max_entries]
       /\ s.max_entries # r.max_entries => r.max_entries = 1024]_vars

-----------------------------------------------------------------------------
\* bpf-rbac.rs:37, of --max-entries: "Maximum number of entries (default:
\* 1024)".  With the parameters given as words the option is accepted and
\* the map has the default size.
MaxEntriesHonoured ==
  \A r \in request : flags.max_entries # {} => r.max_entries \in flags.max_entries
=============================================================================
