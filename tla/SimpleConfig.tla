---------------------------- MODULE SimpleConfig ----------------------------
(***************************************************************************)
(* The configuration library of mat-daemon (simple_config.h), which        *)
(* config.c uses: options are registered with an address to store to, and  *)
(* maybe a default or a validator; scfg_parse then reads a file line by    *)
(* line, stores what it says, and stores the defaults of the rest.         *)
(*                                                                         *)
(* Lines, words and values are sequences of characters; a bool is <<"0">>  *)
(* or <<"1">> and a number the digits it was read from.  The table of      *)
(* entries is a function (HashTable shows what a table promises).          *)
(***************************************************************************)
EXTENDS ShSplit

CONSTANTS
  Key,       \* names of options
  Order,     \* the order in which hash_table_traverse meets them
  Kinds,     \* kinds of options the client registers
  Line,      \* lines a file may have: [text, key, val, extra], see Gives
  LineMax,   \* characters fgets takes at once: 511
  Rejected,  \* values the client's validators refuse
  MaxCalls, MaxLines, MaxParses   \* bounds on calls, lines and parses

ASSUME KindAssumption  == Kinds \subseteq {"bool", "int", "float", "string"}
ASSUME OrderAssumption == Order \in Seq(Key) /\ \A k \in Key : \E i \in DOMAIN Order : Order[i] = k
ASSUME LineAssumption == LineMax \in Nat /\ \A l \in Line : l.text \in Seq(Char)

VARIABLES
  entry,    \* cfg->table
  target,   \* what each registered address holds, and the block of a string
  err,      \* cfg->err_kind
  blocks,   \* copies of string defaults made so far, numbered from 1
  freed,    \* those that were freed
  pc,       \* "ready", "reading", "close" (the loop is left), "parsed"
  rest,     \* what fgets left of a long line
  calls, lines, parses,
  was,      \* history: entry, target and err when scfg_parse was called
  given,    \* history: what the file has said of each option so far
  spoilt,   \* history: a line that is no setting of an option has been read
  cut       \* history: a line did not fit

client == <<blocks, freed, calls>>
hist   == <<was, given, spoilt, cut>>
vars   == <<entry, target, err, client, pc, rest, lines, parses, hist>>

Untouched == <<"untouched">>   \* markers that are no words
Null      == <<"NULL">>
DefaultValue == <<"default">>
Bad     == <<"bad">>
Keep    == <<"keep">>
Nothing == <<"nothing">>

Value(v, b) == [val |-> v, block |-> b]
Entry(kind) == [kind |-> kind, required |-> FALSE, has_default |-> FALSE,
                set |-> FALSE, sdef |-> 0, validate |-> FALSE]
Registered(k) == entry[k].kind # "none"
Address(k) == <<k, entry[k].kind>>

(***************************************************************************)
(* The calls that set options up                                           *)
(***************************************************************************)
Call == /\ pc \in {"ready", "parsed"} /\ calls < MaxCalls
        /\ pc' = "ready" /\ calls' = calls + 1
        /\ UNCHANGED <<target, err, rest, lines, parses, hist>>

(* scfg_entry_free *)
FreedBy(e) == IF e.kind = "string" /\ e.sdef # 0 THEN {e.sdef} ELSE {}

AddEntry(k, kind) ==
  /\ Call
  /\ freed' = freed \cup FreedBy(entry[k])
  /\ entry' = [entry EXCEPT ![k] = Entry(kind)]
  /\ UNCHANGED blocks

Require(k) ==
  /\ Call
  /\ Registered(k)
  /\ entry' = [entry EXCEPT ![k].required = TRUE]
  /\ UNCHANGED <<blocks, freed>>

(* scfg_default_*: a second default of a string leaks the first *)
Default(k) ==
  /\ Call
  /\ Registered(k)
  /\ blocks' = IF entry[k].kind = "string" THEN blocks + 1 ELSE blocks
  /\ entry' = [entry EXCEPT ![k].has_default = TRUE,
                            ![k].sdef = IF entry[k].kind = "string" THEN blocks' ELSE 0]
  /\ UNCHANGED freed

Validate(k) ==
  /\ Call
  /\ Registered(k)
  /\ entry' = [entry EXCEPT ![k].validate = TRUE]
  /\ UNCHANGED <<blocks, freed>>

(* scfg_free, then scfg_make; the client's variables live on *)
Remake ==
  /\ pc \in {"ready", "parsed"} /\ pc' = "ready"
  /\ freed' = freed \cup UNION {FreedBy(entry[k]) : k \in Key}
  /\ entry' = [k \in Key |-> Entry("none")]
  /\ err' = "NONE"
  /\ UNCHANGED <<target, blocks, calls, rest, lines, parses, hist>>

(***************************************************************************)
(* scfg_parse_line: the words of a line, the error it raises, what it      *)
(* stores                                                                  *)
(***************************************************************************)
Digits == {"0", "1"}

(* sscanf: nothing but space is the end of input, which is not 0 matches   *)
Scanned(w) ==
  LET i == WordStart(w, 1)
      j == FirstIn(w, i, {d \in DOMAIN w : w[d] \notin Digits})
  IN  IF i > Len(w) THEN Keep ELSE IF i = j THEN Bad ELSE SubSeq(w, i, j - 1)

Convert(kind, w) ==
  IF kind = "string" THEN w
  ELSE IF kind \in {"int", "float"} THEN Scanned(w)
  ELSE IF w \in {<<"0">>, <<"1">>} THEN w ELSE Bad

LineError(ws) ==
  IF Len(ws) >= 3 THEN "BAD_SYNTAX"
  ELSE IF ws[1] \notin Key THEN "BAD_KEY"
  ELSE IF ~Registered(ws[1]) THEN "BAD_KEY"
  ELSE LET kind == entry[ws[1]].kind
       IN  IF Len(ws) = 1 THEN IF kind = "bool" THEN "NONE" ELSE "BAD_VAL"
             ELSE IF Convert(kind, ws[2]) = Bad THEN "BAD_KEY" ELSE "NONE"

StoredBy(ws) == IF Len(ws) = 1 THEN <<"1">> ELSE Convert(entry[ws[1]].kind, ws[2])

(* scfg_validate_entry: the value is already stored *)
Refused(e, v) == e.validate /\ v \in Rejected

RefuseFirst(ws) ==   \* mutant of Accept: a value is stored only once it is valid
  LET k == ws[1]  v == StoredBy(ws)
  IN  IF v # Keep /\ Refused(entry[k], v)
        THEN err' = "VALIDATE" /\ UNCHANGED <<entry, target>>
        ELSE /\ target' = IF v = Keep THEN target
                            ELSE [target EXCEPT ![Address(k)] = Value(v, 0)]
             /\ entry' = [entry EXCEPT ![k].set = TRUE]
             /\ UNCHANGED err

(* A line without an error of its own is stored even if an earlier parse   *)
(* failed; the option only counts as set if none did.                      *)
Accept(ws) ==
  LET k == ws[1]  v == StoredBy(ws)
  IN  /\ target' = IF v = Keep THEN target
                     ELSE [target EXCEPT ![Address(k)] = Value(v, 0)]
      /\ IF err = "NONE"
           THEN /\ entry' = [entry EXCEPT ![k].set = TRUE]
                /\ err' = IF Refused(entry[k], target'[Address(k)].val)
                            THEN "VALIDATE" ELSE "NONE"
           ELSE UNCHANGED <<entry, err>>

ParseLine(ws) ==
  \/ ws = <<>> /\ UNCHANGED <<entry, target, err>>
  \/ /\ ws # <<>> /\ LineError(ws) # "NONE"
     /\ err' = LineError(ws)
     /\ UNCHANGED <<entry, target>>
  \/ ws # <<>> /\ LineError(ws) = "NONE" /\ Accept(ws)

(***************************************************************************)
(* What the author of a line means by it: val for the option key, where no *)
(* val is a bool that is switched on, and extra words are a mistake; a     *)
(* line with key Nothing is a comment or empty.                            *)
(***************************************************************************)
Meaning(l) ==
  IF l.key \notin Key \/ l.extra THEN Bad
  ELSE IF ~Registered(l.key) THEN Bad
  ELSE IF l.val # Nothing THEN Convert(entry[l.key].kind, l.val)
  ELSE IF entry[l.key].kind = "bool" THEN <<"1">> ELSE Bad

Gives(l) ==
  LET v == Meaning(l)
  IN  IF l.key = Nothing /\ ~l.extra
        THEN UNCHANGED given /\ spoilt' = (was.err # "NONE")
      ELSE IF v = Bad THEN UNCHANGED given /\ spoilt' = TRUE
      ELSE /\ given' = IF v = Keep /\ given[l.key] # Nothing THEN given
                         ELSE [given EXCEPT ![l.key] = v]
           /\ LET now == IF v = Keep THEN target[Address(l.key)].val ELSE v
              IN  spoilt' = (was.err # "NONE" \/ Refused(entry[l.key], now))

(***************************************************************************)
(* scfg_parse                                                              *)
(***************************************************************************)
OpenFails ==
  /\ pc \in {"ready", "parsed"} /\ parses < MaxParses
  /\ pc' = "ready" /\ parses' = parses + 1
  /\ err' = "BAD_FILE"
  /\ UNCHANGED <<entry, target, client, rest, lines, hist>>

Open ==
  /\ pc \in {"ready", "parsed"} /\ parses < MaxParses
  /\ pc' = "reading" /\ parses' = parses + 1
  /\ was' = [entry |-> entry, target |-> target, err |-> err]
  /\ given' = [k \in Key |-> Nothing] /\ spoilt' = FALSE /\ cut' = FALSE
  /\ UNCHANGED <<entry, target, err, client, rest, lines>>

(* fgets, the parse, and the test that leaves the loop; a text that does   *)
(* not end in a newline ends the file.                                     *)
Stop == err' # "NONE"

Upto(text) == IF Len(text) < LineMax THEN Len(text) ELSE LineMax

Chunk(text) ==
  /\ rest' = SubSeq(text, Upto(text) + 1, Len(text))
  /\ \E ws \in {sh_split(SubSeq(text, 1, Upto(text)))} : ParseLine(ws)
  /\ pc' = IF Stop \/ (rest' = <<>> /\ text[Len(text)] # "\n") THEN "close" ELSE "reading"
  /\ UNCHANGED <<client, parses, was>>

ReadLine(l) ==
  /\ pc = "reading" /\ rest = <<>>
  /\ lines < MaxLines /\ lines' = lines + 1
  /\ Chunk(l.text)
  /\ cut' = (cut \/ rest' # <<>>)
  /\ IF spoilt THEN UNCHANGED <<given, spoilt>> ELSE Gives(l)

ReadRest ==
  /\ pc = "reading" /\ rest # <<>>
  /\ Chunk(rest)
  /\ UNCHANGED <<lines, given, spoilt, cut>>

DefaultShared(k) ==   \* mutant of DefaultOf: the entry keeps the string too
  [value |-> IF entry[k].kind # "string" THEN Value(DefaultValue, 0)
               ELSE Value(DefaultValue, entry[k].sdef),
   sdef  |-> entry[k].sdef]

(* scfg_apply_default: a string is handed over, and can be handed over once*)
DefaultOf(k) ==
  [value |-> IF entry[k].kind # "string" THEN Value(DefaultValue, 0)
               ELSE IF entry[k].sdef = 0 THEN Value(Null, 0)
               ELSE Value(DefaultValue, entry[k].sdef),
   sdef  |-> 0]

Missing == {i \in DOMAIN Order : LET e == entry[Order[i]] IN e.required /\ ~e.set}

(* the traversal ends at the first required option that is not set *)
Reached == {Order[i] : i \in {i \in DOMAIN Order : \A j \in Missing : i < j}}

Defaulting == {k \in Reached : Registered(k) /\ entry[k].has_default /\ ~entry[k].set}

ApplyDefaults ==
  /\ target' = [a \in DOMAIN target |->
                  IF a[1] \in Defaulting /\ a = Address(a[1]) THEN DefaultOf(a[1]).value
                    ELSE target[a]]
  /\ entry' = [k \in Key |->
                 IF k \in Defaulting THEN [entry[k] EXCEPT !.sdef = DefaultOf(k).sdef]
                   ELSE entry[k]]
  /\ err' = IF Missing = {} THEN "NONE" ELSE "BAD_FILE"

(* the end of the file, or of the loop *)
Finish ==
  /\ pc = "close" \/ (pc = "reading" /\ rest = <<>>)
  /\ pc' = "parsed" /\ rest' = <<>>
  /\ IF err = "NONE" THEN ApplyDefaults ELSE UNCHANGED <<entry, target, err>>
  /\ UNCHANGED <<client, lines, parses, hist>>
-----------------------------------------------------------------------------
Init ==
  /\ entry = [k \in Key |-> Entry("none")]
  /\ target = [a \in Key \X Kinds |-> Value(Untouched, 0)]
  /\ err = "NONE"
  /\ blocks = 0 /\ freed = {}
  /\ pc = "ready" /\ rest = <<>>
  /\ calls = 0 /\ lines = 0 /\ parses = 0
  /\ was = [entry |-> entry, target |-> target, err |-> err]
  /\ given = [k \in Key |-> Nothing]
  /\ spoilt = FALSE /\ cut = FALSE

SetUp == \E k \in Key : \/ \E kind \in Kinds : AddEntry(k, kind)
                        \/ Require(k) \/ Default(k) \/ Validate(k)

Parse == OpenFails \/ Open \/ (\E l \in Line : ReadLine(l)) \/ ReadRest \/ Finish

Next == SetUp \/ Remake \/ Parse

Spec == Init /\ [][Next]_vars
-----------------------------------------------------------------------------
EntryType == [kind : Kinds \cup {"none"}, required : BOOLEAN, has_default : BOOLEAN,
              set : BOOLEAN, sdef : 0..blocks, validate : BOOLEAN]

(* Every variable stays in its domain. *)
TypeOK ==
  /\ entry \in [Key -> EntryType]
  /\ DOMAIN target = Key \X Kinds
  /\ \A a \in Key \X Kinds : target[a].block \in 0..blocks
  /\ blocks \in Nat /\ freed \subseteq 1..blocks

(* What an option holds when no line of this file gave it a value.         *)
LeftAs(k) ==
  LET e == was.entry[k]  before == was.target[Address(k)]
      default == IF e.kind # "string" THEN Value(DefaultValue, 0)
                   ELSE IF e.sdef = 0 THEN Value(Null, 0) ELSE Value(DefaultValue, e.sdef)
      applies == e.has_default /\ ~e.set /\ was.err = "NONE" /\ ~spoilt
  IN  IF ~applies \/ given[k] = Keep THEN {before}
        ELSE IF err = "NONE" THEN {default} ELSE {before, default}

(* After scfg_parse each option holds the last value that the file gave it *)
(* before its first mistake, character by character as it was written      *)
(* between quotes; with no value, its default if nothing went wrong, else  *)
(* what it held.  An empty number counts as given and changes nothing.     *)
(* (Lines that fit the buffer.)                                            *)
Outcome ==
  pc = "parsed" /\ ~cut =>
    \A k \in Key : Registered(k) =>
      IF given[k] \in {Nothing, Keep} THEN target[Address(k)] \in LeftAs(k)
        ELSE target[Address(k)] = Value(given[k], 0)

(* scfg_parse reports success exactly if no line was a mistake, every      *)
(* required option was given, now or in an earlier file, and no earlier    *)
(* parse had failed: an error stays.                                       *)
Verdict ==
  pc = "parsed" /\ ~cut =>
    (err = "NONE" <=> /\ was.err = "NONE" /\ ~spoilt
                      /\ \A k \in Key : was.entry[k].required =>
                           was.entry[k].set \/ given[k] # Nothing)

Owners(b) == {k \in Key : entry[k].sdef = b}
Holders(b) == {a \in Key \X Kinds : target[a].block = b}

(* A string default belongs to its entry or to the client, never to both:  *)
(* no entry and no variable of the client refers to a freed copy, and no   *)
(* two refer to one.                                                       *)
Ownership ==
  /\ TypeOK
  /\ \A b \in 1..blocks :
       /\ b \in freed => Owners(b) = {} /\ Holders(b) = {}
       /\ Owners(b) # {} => Holders(b) = {}
       /\ \A k, l \in Owners(b) : k = l
       /\ \A a, c \in Holders(b) : a = c
=============================================================================
