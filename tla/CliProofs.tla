------------------------------ MODULE CliProofs -----------------------------
(***************************************************************************)
(* The command-line client for any words, any two parsers of numerals of   *)
(* which clap's accepts what the other does, and lines of any length.      *)
(***************************************************************************)
EXTENDS Cli, FiniteSetTheorems, TLAPS

\* Option: at most one value.
AtMostOne(S) == \A x, y \in S : x = y

\* A tuple of options is an option.
LEMMA TupleAtMostOne ==
  ASSUME NEW a, NEW b, NEW c, NEW d, NEW e,
         AtMostOne(a), AtMostOne(b), AtMostOne(c), AtMostOne(d), AtMostOne(e)
  PROVE  AtMostOne(Tuple(a, b, c, d, e))
<1> SUFFICES ASSUME NEW r \in Tuple(a, b, c, d, e), NEW s \in Tuple(a, b, c, d, e)
             PROVE  r = s
  BY DEF AtMostOne
<1>1. /\ r.type = s.type /\ r.name = s.name /\ r.key_size = s.key_size
      /\ r.value_size = s.value_size /\ r.max_entries = s.max_entries
  BY DEF AtMostOne, Tuple
<1> QED BY <1>1 DEF Tuple

\* Two tuples that differ in the last option differ in the last field only.
LEMMA TuplesDifferInEntries ==
  ASSUME NEW a, NEW b, NEW c, NEW d, NEW e, NEW f,
         AtMostOne(a), AtMostOne(b), AtMostOne(c), AtMostOne(d),
         NEW r \in Tuple(a, b, c, d, e), NEW s \in Tuple(a, b, c, d, f)
  PROVE  s = [r EXCEPT !.max_entries = s.max_entries]
<1>1. /\ r.type = s.type /\ r.name = s.name /\ r.key_size = s.key_size
      /\ r.value_size = s.value_size
  BY DEF AtMostOne, Tuple
<1> QED BY <1>1 DEF Tuple

\* The values a size can have: those the numerals stand for, and the default.
Numbers == {1024} \cup UNION {value_parser[w] : w \in Words}

\* A word stands for at most one number, with either parser.
LEMMA ParseValues ==
  ASSUME NEW w \in Words
  PROVE  /\ value_parser[w] \subseteq Numbers /\ AtMostOne(value_parser[w])
         /\ parse[w] \subseteq Numbers /\ AtMostOne(parse[w])
         /\ parse[w] # {} => value_parser[w] = parse[w]
<1>1. value_parser[w] \in {value_parser[v] : v \in Words}
  OBVIOUS
<1>2. value_parser[w] \subseteq Numbers
  BY <1>1 DEF Numbers
<1>3. AtMostOne(value_parser[w])
  BY CliAssumption DEF AtMostOne
<1>4. parse[w] \subseteq value_parser[w]
  BY CliAssumption
<1> QED BY <1>2, <1>3, <1>4 DEF AtMostOne

\* Every option holds at most one value: a word, or for a size a number.
LEMMA FlagValues ==
  ASSUME TypeOK, NEW f \in Options
  PROVE  /\ AtMostOne(flags[f])
         /\ IF f \in Sizes THEN flags[f] \subseteq Numbers ELSE flags[f] \subseteq Words
<1>1. CASE flags[f] = {}
  BY <1>1 DEF AtMostOne
<1>2. CASE \E w \in Words : flags[f] = IF f \in Sizes THEN value_parser[w] ELSE {w}
  <2>1. PICK w \in Words : flags[f] = IF f \in Sizes THEN value_parser[w] ELSE {w}
    BY <1>2
  <2>2. CASE f \in Sizes
    BY <2>1, <2>2, ParseValues
  <2>3. CASE f \notin Sizes
    BY <2>1, <2>3 DEF AtMostOne
  <2> QED BY <2>2, <2>3
<1> QED BY <1>1, <1>2 DEF TypeOK

\* What resolution answers is one of the two forms, or nothing.
LEMMA ResolvedForms ==
  \/ /\ has_flags(flags)
     /\ Resolved = Tuple(flags["type"], flags["name"], flags["key_size"],
                         flags["value_size"],
                         unwrap_or(flags["max_entries"], 1024))
  \/ /\ ~ has_flags(flags) /\ Len(positional) >= 4
     /\ Resolved = FromWords(positional)
  \/ ~ has_flags(flags) /\ ~ (Len(positional) >= 4) /\ Resolved = {}
BY DEF Resolved, resolve_create_map_args

\* The first words and what they stand for.
LEMMA WordValues ==
  ASSUME TypeOK, NEW i \in 1 .. Len(positional)
  PROVE  /\ positional[i] \in Words
         /\ parse[positional[i]] \subseteq Numbers
         /\ AtMostOne(parse[positional[i]])
         /\ parse[positional[i]] # {}
              => value_parser[positional[i]] = parse[positional[i]]
<1>1. positional[i] \in Words
  BY DEF TypeOK
<1> QED BY <1>1, ParseValues

\* The number of entries in the form with words.
EntriesWord == IF Len(positional) > 4 THEN parse[positional[5]] ELSE {1024}

LEMMA EntriesWordValue ==
  ASSUME TypeOK, Len(positional) >= 4
  PROVE  EntriesWord \subseteq Numbers /\ AtMostOne(EntriesWord)
<1>0. Len(positional) \in Nat
  BY DEF TypeOK
<1>1. CASE Len(positional) > 4
  BY <1>0, <1>1, WordValues DEF EntriesWord
<1>2. CASE ~ (Len(positional) > 4)
  BY <1>2 DEF EntriesWord, Numbers, AtMostOne
<1> QED BY <1>1, <1>2

\* Resolution answers at most one tuple, of two words and three numbers.
LEMMA ResolvedTuple ==
  ASSUME TypeOK
  PROVE  /\ AtMostOne(Resolved)
         /\ \A r \in Resolved :
              /\ r.type \in Words /\ r.name \in Words
              /\ \A s \in Sizes : r[s] \in Numbers
<1>1. CASE has_flags(flags)
  <2> DEFINE entries == unwrap_or(flags["max_entries"], 1024)
  <2>1. /\ AtMostOne(flags["type"]) /\ AtMostOne(flags["name"])
        /\ AtMostOne(flags["key_size"]) /\ AtMostOne(flags["value_size"])
        /\ AtMostOne(flags["max_entries"])
    BY FlagValues DEF Options, Sizes
  <2>2. AtMostOne(entries)
    BY <2>1 DEF unwrap_or, AtMostOne
  <2>3. entries \subseteq Numbers
    <3>1. flags["max_entries"] \subseteq Numbers
      BY FlagValues DEF Options, Sizes
    <3> QED BY <3>1 DEF unwrap_or, Numbers
  <2>4. Resolved = Tuple(flags["type"], flags["name"], flags["key_size"],
                         flags["value_size"], entries)
    BY <1>1, ResolvedForms
  <2>5. AtMostOne(Resolved)
    BY <2>1, <2>2, <2>4, TupleAtMostOne
  <2>6. /\ flags["type"] \subseteq Words /\ flags["name"] \subseteq Words
        /\ flags["key_size"] \subseteq Numbers /\ flags["value_size"] \subseteq Numbers
    BY FlagValues DEF Options, Sizes
  <2> HIDE DEF entries
  <2> QED BY <2>3, <2>4, <2>5, <2>6 DEF Tuple, Sizes
<1>2. CASE ~ has_flags(flags) /\ Len(positional) >= 4
  <2>1. /\ 1 \in 1 .. Len(positional) /\ 2 \in 1 .. Len(positional)
        /\ 3 \in 1 .. Len(positional) /\ 4 \in 1 .. Len(positional)
    BY <1>2 DEF TypeOK
  <2>2. Resolved = Tuple({positional[1]}, {positional[2]}, parse[positional[3]],
                         parse[positional[4]], EntriesWord)
    BY <1>2, ResolvedForms DEF FromWords, EntriesWord
  <2>3. /\ positional[1] \in Words /\ positional[2] \in Words
        /\ parse[positional[3]] \subseteq Numbers
        /\ parse[positional[4]] \subseteq Numbers
        /\ AtMostOne(parse[positional[3]]) /\ AtMostOne(parse[positional[4]])
    BY <2>1, WordValues
  <2>4. EntriesWord \subseteq Numbers /\ AtMostOne(EntriesWord)
    BY <1>2, EntriesWordValue
  <2>5. AtMostOne({positional[1]}) /\ AtMostOne({positional[2]})
    BY DEF AtMostOne
  <2>6. AtMostOne(Resolved)
    BY <2>2, <2>3, <2>4, <2>5, TupleAtMostOne
  <2> QED BY <2>2, <2>3, <2>4, <2>6 DEF Tuple, Sizes
<1>3. CASE ~ has_flags(flags) /\ ~ (Len(positional) >= 4)
  <2>1. Resolved = {}
    BY <1>3, ResolvedForms
  <2> QED BY <2>1 DEF AtMostOne
<1> QED BY <1>1, <1>2, <1>3

-----------------------------------------------------------------------------
(* The invariant.                                                           *)

\* The type invariant is not inductive: that a request is sent at all depends
\* on Enter having let only a complete line through to connect().
Inv ==
  /\ TypeOK
  /\ DOMAIN flags = Options
  /\ pc = "connect" /\ command = "create-map" => Resolved # {}

\* TypeOK without what it says of the request.
LineOK ==
  /\ command \in {"create-map", "status"}
  /\ \A f \in Options :
       \/ flags[f] = {}
       \/ \E w \in Words : flags[f] = IF f \in Sizes THEN value_parser[w] ELSE {w}
  /\ positional \in Seq(Words)
  /\ pc \in {"typing", "usage", "connect", "sent", "running", "unavailable"}

\* What is sent is one request, of two words and three numbers.
RequestOK ==
  /\ pc = "sent" => Cardinality(request) = 1
  /\ \A r \in request :
       /\ r.type \in Words /\ r.name \in Words
       /\ \A s \in Sizes : r[s] \in Numbers

LEMMA TypeParts == TypeOK <=> LineOK /\ RequestOK
BY DEF TypeOK, LineOK, RequestOK, Numbers

LEMMA InitEstablishesInv == Init => Inv
<1> SUFFICES ASSUME Init PROVE Inv
  OBVIOUS
<1>1. LineOK
  BY CliAssumption DEF Init, LineOK
<1>2. RequestOK
  BY DEF Init, RequestOK
<1> QED BY <1>1, <1>2, TypeParts DEF Inv, Init

\* An option is put where it was not given before, as a word or a number.
LEMMA FlagKeepsInv ==
  ASSUME Inv, NEW f \in Options, NEW w \in Words, Flag(f, w)
  PROVE  Inv'
<1> USE TypeParts DEF Inv
<1>1. command' = command /\ positional' = positional /\ request' = request
  BY DEF Flag
<1>2. pc' \in {"typing", "usage"}
  BY DEF Flag
<1>3. DOMAIN flags' = Options
  BY DEF Flag
<1>4. ASSUME NEW g \in Options
      PROVE  \/ flags'[g] = {}
             \/ \E v \in Words : flags'[g] = IF g \in Sizes THEN value_parser[v] ELSE {v}
  <2>1. CASE flags' = flags
    BY <2>1 DEF LineOK
  <2>2. CASE flags' = [flags EXCEPT ![f] = IF f \in Sizes THEN value_parser[w] ELSE {w}]
    <3>1. CASE g = f
      BY <2>2, <3>1
    <3>2. CASE g # f
      BY <2>2, <3>2 DEF LineOK
    <3> QED BY <3>1, <3>2
  <2> QED BY <2>1, <2>2 DEF Flag
<1>5. LineOK'
  BY <1>1, <1>2, <1>4 DEF LineOK
<1>6. RequestOK'
  BY <1>1, <1>2 DEF RequestOK
<1>7. TypeOK'
  BY <1>5, <1>6, TypeParts DEF TypeOK, LineOK, RequestOK, Numbers
<1> QED BY <1>2, <1>3, <1>7

LEMMA WordKeepsInv ==
  ASSUME Inv, NEW w \in Words, Word(w)
  PROVE  Inv'
<1> USE DEF Inv
<1>1. LineOK /\ RequestOK
  BY TypeParts
<1>2. LineOK'
  <2>1. positional' \in Seq(Words)
    BY <1>1 DEF Word, LineOK
  <2> QED BY <1>1, <2>1 DEF Word, LineOK
<1>3. RequestOK'
  BY <1>1 DEF Word, RequestOK
<1>4. TypeOK'
  BY <1>2, <1>3 DEF TypeOK, LineOK, RequestOK, Numbers
<1> QED BY <1>4 DEF Word

\* A line without the parameters of create-map does not get past Enter.
LEMMA EnterKeepsInv ==
  ASSUME Inv, Enter
  PROVE  Inv'
<1> USE DEF Inv
<1>1. LineOK /\ RequestOK
  BY TypeParts
<1>2. UNCHANGED <<command, flags, positional, request>>
  BY DEF Enter
<1>3. pc' \in {"usage", "connect"}
  BY DEF Enter
<1>4. TypeOK'
  BY <1>1, <1>2, <1>3 DEF TypeOK, LineOK, RequestOK, Numbers
<1>5. Resolved' = Resolved
  BY <1>2 DEF Resolved, resolve_create_map_args, has_flags, FromWords, Tuple, unwrap_or
<1>6. pc' = "connect" /\ command' = "create-map" => Resolved' # {}
  BY <1>2, <1>5 DEF Enter
<1> QED BY <1>2, <1>4, <1>6

\* What Connect sends is the one tuple the line resolves to.
LEMMA ConnectKeepsInv ==
  ASSUME Inv, Connect
  PROVE  Inv'
<1> USE DEF Inv
<1>1. LineOK /\ RequestOK
  BY TypeParts
<1>2. LineOK'
  BY <1>1 DEF Connect, LineOK
<1>3. pc' \in {"sent", "running"}
  BY DEF Connect
<1>4. CASE command = "create-map"
  <2>1. request' = Resolved /\ Resolved # {}
    BY <1>4 DEF Connect
  <2>2. PICK r \in Resolved : TRUE
    BY <2>1
  <2>3. request' = {r}
    BY <2>1, <2>2, ResolvedTuple DEF AtMostOne
  <2>4. Cardinality(request') = 1
    BY <2>3, FS_Singleton
  <2>5. RequestOK'
    BY <2>1, <2>4, ResolvedTuple DEF RequestOK
  <2>6. TypeOK'
    BY <1>2, <2>5 DEF TypeOK, LineOK, RequestOK, Numbers
  <2> QED BY <1>3, <2>6 DEF Connect
<1>5. CASE command # "create-map"
  <2>1. request' = {} /\ pc' = "running"
    BY <1>5 DEF Connect
  <2>2. TypeOK'
    BY <1>2, <2>1 DEF TypeOK, LineOK, RequestOK, Numbers
  <2> QED BY <2>1, <2>2 DEF Connect
<1> QED BY <1>4, <1>5

LEMMA ConnectFailsKeepsInv ==
  ASSUME Inv, ConnectFails
  PROVE  Inv'
<1>1. TypeOK'
  BY DEF Inv, TypeOK, ConnectFails
<1> QED BY <1>1 DEF Inv, ConnectFails

LEMMA StepKeepsInv == Inv /\ [Next]_vars => Inv'
<1> SUFFICES ASSUME Inv, [Next]_vars PROVE Inv'
  OBVIOUS
<1>1. CASE Next
  BY <1>1, WordKeepsInv, FlagKeepsInv, EnterKeepsInv, ConnectKeepsInv,
     ConnectFailsKeepsInv DEF Next
<1>2. CASE UNCHANGED vars
  <2>1. TypeOK'
    BY <1>2 DEF vars, Inv, TypeOK
  <2>2. Resolved' = Resolved
    BY <1>2 DEF vars, Resolved, resolve_create_map_args, has_flags, FromWords,
                Tuple, unwrap_or
  <2> QED BY <1>2, <2>1, <2>2 DEF vars, Inv
<1> QED BY <1>1, <1>2

LEMMA InvHolds == Spec => []Inv
BY InitEstablishesInv, StepKeepsInv, PTL DEF Spec

\* Every run of the client that sends something sends one request, with a type
\* and a name that were typed and three numbers.
THEOREM RequestsWellFormed == Spec => []TypeOK
<1>1. Inv => TypeOK
  BY DEF Inv
<1> QED BY <1>1, InvHolds, PTL

-----------------------------------------------------------------------------
(* The two forms of the parameters.                                         *)

\* A tuple one of whose options is None is None.
LEMMA TupleEmpty ==
  ASSUME NEW a, NEW b, NEW c, NEW d, NEW e, c = {} \/ d = {} \/ e = {}
  PROVE  Tuple(a, b, c, d, e) = {}
BY DEF Tuple

\* Words resolve to what the options with the same values resolve to.
LEMMA FormsAgreeOnLine == TypeOK => FormsAgree
<1> DEFINE same == [type |-> {positional[1]}, name |-> {positional[2]},
                    key_size |-> value_parser[positional[3]],
                    value_size |-> value_parser[positional[4]],
                    max_entries |-> IF Len(positional) = 5
                                      THEN value_parser[positional[5]] ELSE {}]
           refused == \E i \in 3 .. Len(positional) : parse[positional[i]] = {}
<1> SUFFICES ASSUME TypeOK, Len(positional) \in {4, 5},
                    \A f \in Options : flags[f] = {}
             PROVE  Resolved = IF refused THEN {}
                               ELSE resolve_create_map_args(same, <<>>)
  BY DEF FormsAgree
<1>1. ~ has_flags(flags)
  BY DEF has_flags
<1>2. Resolved = Tuple({positional[1]}, {positional[2]}, parse[positional[3]],
                       parse[positional[4]], EntriesWord)
  BY <1>1, ResolvedForms DEF FromWords, EntriesWord
<1>3. CASE refused
  <2>1. PICK i \in 3 .. Len(positional) : parse[positional[i]] = {}
    BY <1>3
  <2>2. i = 3 \/ i = 4 \/ (i = 5 /\ Len(positional) = 5)
    <3> HIDE DEF same, refused
    <3>1. CASE Len(positional) = 4
      BY <3>1
    <3>2. CASE Len(positional) = 5
      BY <3>2
    <3> QED BY <3>1, <3>2
  <2>3. \/ parse[positional[3]] = {} \/ parse[positional[4]] = {}
        \/ EntriesWord = {}
    BY <2>1, <2>2 DEF EntriesWord
  <2> QED BY <1>2, <1>3, <2>3, TupleEmpty
<1>4. CASE ~ refused
  <2>1. has_flags(same)
    <3>1. same["type"] # {} /\ "type" \in Options \ {"max_entries"}
      BY DEF Options
    <3> QED BY <3>1 DEF has_flags
  <2>2. unwrap_or(same.max_entries, 1024) = EntriesWord
    <3>1. CASE Len(positional) = 5
      <4>1. parse[positional[5]] # {}
        BY <1>4, <3>1
      <4>2. value_parser[positional[5]] = parse[positional[5]]
        BY <3>1, <4>1, WordValues
      <4> QED BY <3>1, <4>1, <4>2 DEF unwrap_or, EntriesWord
    <3>2. CASE Len(positional) = 4
      BY <3>2 DEF unwrap_or, EntriesWord
    <3> QED BY <3>1, <3>2
  <2>3. resolve_create_map_args(same, <<>>)
          = Tuple(same.type, same.name, same.key_size, same.value_size,
                  unwrap_or(same.max_entries, 1024))
    BY <2>1 DEF resolve_create_map_args
  <2>4. /\ same.type = {positional[1]} /\ same.name = {positional[2]}
        /\ same.key_size = parse[positional[3]]
        /\ same.value_size = parse[positional[4]]
    <3>1. /\ 3 \in 1 .. Len(positional) /\ parse[positional[3]] # {}
          /\ 4 \in 1 .. Len(positional) /\ parse[positional[4]] # {}
      BY <1>4
    <3>2. /\ value_parser[positional[3]] = parse[positional[3]]
          /\ value_parser[positional[4]] = parse[positional[4]]
      BY <3>1, WordValues
    <3> QED BY <3>2
  <2> QED BY <1>2, <1>4, <2>2, <2>3, <2>4
<1> QED BY <1>3, <1>4

\* "Supports both": the two forms of create-map agree on every line typed.
THEOREM FormsAlwaysAgree == Spec => []FormsAgree
BY RequestsWellFormed, FormsAgreeOnLine, PTL

-----------------------------------------------------------------------------
(* Typing on.                                                               *)

\* A line that resolves with options has its first four options, so the only
\* one that can still be given is the number of entries.
LEMMA OptionAfterComplete ==
  ASSUME Inv, NEW f \in Options, NEW w \in Words, Flag(f, w),
         NEW r \in Resolved, NEW s \in Resolved'
  PROVE  /\ s = [r EXCEPT !.max_entries = s.max_entries]
         /\ s.max_entries # r.max_entries => r.max_entries = 1024
<1>1. positional = <<>> /\ has_flags(flags)
  BY ResolvedForms DEF Flag
<1>2. r \in Tuple(flags["type"], flags["name"], flags["key_size"],
                  flags["value_size"], unwrap_or(flags["max_entries"], 1024))
  BY <1>1, ResolvedForms
<1>3. /\ flags["type"] # {} /\ flags["name"] # {} /\ flags["key_size"] # {}
      /\ flags["value_size"] # {}
  BY <1>2 DEF Tuple
<1>4. \A o \in Options \ {"max_entries"} : flags'[o] = flags[o]
  <2>1. CASE flags' = flags
    BY <2>1
  <2>2. CASE /\ flags[f] = {}
             /\ flags' = [flags EXCEPT ![f] = IF f \in Sizes THEN value_parser[w] ELSE {w}]
    <3>1. f = "max_entries"
      BY <1>3, <2>2 DEF Options, Sizes
    <3> QED BY <2>2, <3>1 DEF Inv
  <2> QED BY <2>1, <2>2 DEF Flag
<1>5. /\ flags'["type"] = flags["type"] /\ flags'["name"] = flags["name"]
      /\ flags'["key_size"] = flags["key_size"]
      /\ flags'["value_size"] = flags["value_size"]
  BY <1>4 DEF Options, Sizes
<1>6. has_flags(flags')
  <2>1. flags'["type"] # {} /\ "type" \in Options \ {"max_entries"}
    BY <1>3, <1>5 DEF Options
  <2> QED BY <2>1 DEF has_flags
<1>7. s \in Tuple(flags["type"], flags["name"], flags["key_size"],
                  flags["value_size"], unwrap_or(flags'["max_entries"], 1024))
  BY <1>5, <1>6 DEF Resolved, resolve_create_map_args
<1>8. /\ AtMostOne(flags["type"]) /\ AtMostOne(flags["name"])
      /\ AtMostOne(flags["key_size"]) /\ AtMostOne(flags["value_size"])
      /\ AtMostOne(flags["max_entries"])
  BY FlagValues DEF Inv, Options, Sizes
<1>9. s = [r EXCEPT !.max_entries = s.max_entries]
  BY <1>2, <1>7, <1>8, TuplesDifferInEntries
<1>10. s.max_entries # r.max_entries => r.max_entries = 1024
  <2>0. /\ r.max_entries \in unwrap_or(flags["max_entries"], 1024)
        /\ s.max_entries \in unwrap_or(flags'["max_entries"], 1024)
    BY <1>2, <1>7 DEF Tuple
  <2>1. CASE flags["max_entries"] = {}
    BY <2>0, <2>1 DEF unwrap_or
  <2>2. CASE flags["max_entries"] # {}
    <3>1. flags'["max_entries"] = flags["max_entries"]
      BY <2>2 DEF Flag, Inv, Options, Sizes
    <3> QED BY <1>8, <2>0, <2>2, <3>1 DEF unwrap_or, AtMostOne
  <2> QED BY <2>1, <2>2
<1> QED BY <1>9, <1>10

\* A word after four words is the number of entries; later ones are ignored,
\* and so are all of them when there are options.
LEMMA WordAfterComplete ==
  ASSUME Inv, NEW w \in Words, Word(w), NEW r \in Resolved, NEW s \in Resolved'
  PROVE  /\ s = [r EXCEPT !.max_entries = s.max_entries]
         /\ s.max_entries # r.max_entries => r.max_entries = 1024
<1>0. TypeOK
  BY DEF Inv
<1>1. CASE has_flags(flags)
  <2>1. Resolved' = Resolved
    BY <1>1 DEF Word, Resolved, resolve_create_map_args
  <2>2. r = s
    BY <1>0, <2>1, ResolvedTuple DEF AtMostOne
  <2>3. r \in Tuple(flags["type"], flags["name"], flags["key_size"],
                    flags["value_size"], unwrap_or(flags["max_entries"], 1024))
    BY <1>1, ResolvedForms
  <2>4. r = [r EXCEPT !.max_entries = r.max_entries]
    BY <2>3 DEF Tuple
  <2> QED BY <2>2, <2>4
<1>2. CASE ~ has_flags(flags)
  <2>1. Len(positional) >= 4 /\ r \in FromWords(positional)
    BY <1>2, ResolvedForms
  <2>2. /\ Len(positional') = Len(positional) + 1
        /\ \A i \in 1 .. Len(positional) : positional'[i] = positional[i]
    BY <1>0 DEF Word, TypeOK
  <2>3. Len(positional) \in Nat
    BY <1>0 DEF TypeOK
  <2>4. s \in FromWords(positional')
    BY <1>2, <2>1, <2>2, <2>3 DEF Word, Resolved, resolve_create_map_args
  <2>5. /\ positional'[1] = positional[1] /\ positional'[2] = positional[2]
        /\ positional'[3] = positional[3] /\ positional'[4] = positional[4]
    BY <2>1, <2>2, <2>3
  <2> DEFINE entries(p) == IF Len(p) > 4 THEN parse[p[5]] ELSE {1024}
  <2>6. /\ r \in Tuple({positional[1]}, {positional[2]}, parse[positional[3]],
                        parse[positional[4]], entries(positional))
        /\ s \in Tuple({positional[1]}, {positional[2]}, parse[positional[3]],
                        parse[positional[4]], entries(positional'))
    BY <2>1, <2>4, <2>5 DEF FromWords
  <2>7. /\ AtMostOne({positional[1]}) /\ AtMostOne({positional[2]})
        /\ AtMostOne(parse[positional[3]]) /\ AtMostOne(parse[positional[4]])
    <3>1. 3 \in 1 .. Len(positional) /\ 4 \in 1 .. Len(positional)
      BY <2>1, <2>3
    <3>2. AtMostOne(parse[positional[3]]) /\ AtMostOne(parse[positional[4]])
      BY <1>0, <3>1, WordValues
    <3> QED BY <3>2 DEF AtMostOne
  <2>8. s = [r EXCEPT !.max_entries = s.max_entries]
    <3> HIDE DEF entries
    <3> QED BY <2>6, <2>7, TuplesDifferInEntries
  <2>9. r.max_entries \in entries(positional) /\ s.max_entries \in entries(positional')
    BY <2>6 DEF Tuple
  <2>10. CASE Len(positional) = 4
    BY <2>8, <2>9, <2>10
  <2>11. CASE Len(positional) > 4
    <3>1. 5 \in 1 .. Len(positional)
      BY <2>3, <2>11
    <3>2. entries(positional') = entries(positional)
      BY <2>2, <2>3, <2>11, <3>1
    <3>3. AtMostOne(parse[positional[5]])
      BY <1>0, <3>1, WordValues
    <3> QED BY <2>8, <2>9, <2>11, <3>2, <3>3 DEF AtMostOne
  <2>12. Len(positional) = 4 \/ Len(positional) > 4
    <3> DEFINE n == Len(positional)
    <3>1. n \in Nat /\ n >= 4
      BY <2>1, <2>3
    <3> HIDE DEF n
    <3>2. n = 4 \/ n > 4
      BY <3>1
    <3> QED BY <3>2 DEF n
  <2> QED BY <2>10, <2>11, <2>12
<1> QED BY <1>1, <1>2

\* While nothing is typed the request is the same.
LEMMA SameLine ==
  ASSUME Inv, UNCHANGED <<flags, positional>>, NEW r \in Resolved, NEW s \in Resolved'
  PROVE  /\ s = [r EXCEPT !.max_entries = s.max_entries]
         /\ s.max_entries # r.max_entries => r.max_entries = 1024
<1>1. Resolved' = Resolved
  BY DEF Resolved, resolve_create_map_args, has_flags, FromWords, Tuple, unwrap_or
<1>2. r = s
  BY <1>1, ResolvedTuple DEF AtMostOne, Inv
<1>3. \E a, b, c, d, e : r \in Tuple(a, b, c, d, e)
  BY ResolvedForms DEF FromWords
<1>4. r = [r EXCEPT !.max_entries = r.max_entries]
  BY <1>3 DEF Tuple
<1> QED BY <1>2, <1>4

\* Typing more on a complete line never turns it into another request: only
\* the default number of entries may still be replaced.
THEOREM CompleteLinesStand == Spec => CompleteLineStands
<1>1. Inv /\ [Next]_vars =>
        \A r \in Resolved, s \in Resolved' :
          /\ s = [r EXCEPT !.max_entries = s.max_entries]
          /\ s.max_entries # r.max_entries => r.max_entries = 1024
  <2> SUFFICES ASSUME Inv, [Next]_vars, NEW r \in Resolved, NEW s \in Resolved'
               PROVE  /\ s = [r EXCEPT !.max_entries = s.max_entries]
                      /\ s.max_entries # r.max_entries => r.max_entries = 1024
    OBVIOUS
  <2>1. CASE \E w \in Words : Word(w)
    BY <2>1, WordAfterComplete
  <2>2. CASE \E w \in Words : \E f \in Options : Flag(f, w)
    BY <2>2, OptionAfterComplete
  <2>3. CASE Enter \/ Connect \/ ConnectFails \/ UNCHANGED vars
    <3>1. UNCHANGED <<flags, positional>>
      BY <2>3 DEF Enter, Connect, ConnectFails, vars
    <3> QED BY <3>1, SameLine
  <2> QED BY <2>1, <2>2, <2>3 DEF Next
<1> QED BY <1>1, InvHolds, PTL DEF Spec, CompleteLineStands
=============================================================================
