------------------------------- MODULE Values -------------------------------
(***************************************************************************)
(* util.go and wwgraphql/scalars: a value on its way from Go through an    *)
(* SQL column back to Go, out to a GraphQL client and in again, and texts  *)
(* that are cut to a length.                                               *)
(*                                                                         *)
(* A pointer is the set of what it points to.  0 stands for the empty      *)
(* value of every type: "", the zero time, uuid.Nil.  Times are UTC and    *)
(* count in half seconds from the zero time, with a day of four; a text is *)
(* the sequence of its runes' lengths in bytes.                            *)
(***************************************************************************)
EXTENDS Integers, Sequences, SequencesExt, FiniteSetsExt, Functions

CONSTANTS Value,     \* bound: Go values
          Bits,      \* the width of an int32 here
          Year0, Year10000, \* the first times of these years
          Texts, Limits

VARIABLES type,      \* of the value, or "text"
          given,     \* what it was: a pointer, or a value in "by value" types
          state,     \* one of States
          column,    \* [valid, v]
          loaded,    \* the pointer that was read back, or made without a column
          wire,      \* the text a client reads, nil as null
          back,      \* what the client's text is parsed to
          cut        \* of a text: [limit, runes, bytes]

vars == <<type, given, state, column, loaded, wire, back, cut>>

ByValue == {"string value", "int32 value", "time value", "uuid value", "decimal value"}
ByPointer == {"string", "int", "time", "date", "bool", "uuid", "decimal"}
Pointers == {{}} \cup {{v} : v \in Value}
States == {"given", "stored", "rejected", "loaded", "sent", "returned", "refused", "cut"}

TypeOK == /\ type \in ByValue \cup ByPointer \cup {"text"}
          /\ state \in States
          /\ column.valid \in BOOLEAN /\ column.v \in Int
          /\ \A p \in {loaded, wire, back} : p \subseteq Int /\ \A v, w \in p : v = w
          /\ cut.limit \in Limits \cup {0} /\ cut.runes \in Seq(1..4) /\ cut.bytes \in Nat

Init == /\ \/ type \in ByValue /\ given \in Value
           \/ type \in ByPointer /\ given \in Pointers
           \/ type = "text" /\ given \in Texts
        /\ state = "given"
        /\ column = [valid |-> FALSE, v |-> 0]
        /\ loaded = {} /\ wire = {} /\ back = {}
        /\ cut = [limit |-> 0, runes |-> <<>>, bytes |-> 0]

Deref(p) == CHOOSE v \in p : TRUE
Int32(v) == ((v + 2^(Bits - 1)) % 2^Bits) - 2^(Bits - 1)

-----------------------------------------------------------------------------
SqlNull(v) == [valid |-> v # 0, v |-> v]

(* Mutant: a pointer to an empty value becomes null.                       *)
SqlNullOfEmpty(p) == IF p = {} THEN SqlNull(0) ELSE SqlNull(Deref(p))

SqlNullRef(p) == [valid |-> p # {}, v |-> IF p = {} THEN 0 ELSE Deref(p)]

SqlNullIntRef(p) == SqlNullRef({Int32(v) : v \in p})

Column == CASE type \in ByValue -> SqlNull(given)
            [] type = "int" -> SqlNullIntRef(given)
            [] OTHER -> SqlNullRef(given)

Second(t) == t - (t % 2)
Day(t) == t - (t % 4)

(* What a column keeps: of a time, maybe whole seconds (DATETIME, DATE),   *)
(* of any other value all of it.                                           *)
Held(v) == CASE type \in {"time value", "time"} -> {v, Second(v)}
             [] type = "date" -> {v, Second(v), Day(v)}
             [] OTHER -> {v}

(* The driver takes the years from 1 to 9999, and the zero time.           *)
Storable == type \in {"time value", "time", "date"} /\ Column.valid =>
              0 <= Column.v /\ Column.v < Year10000

Store == /\ type # "text" /\ state = "given"
         /\ \/ /\ Storable
               /\ state' = "stored"
               /\ \E held \in Held(Column.v) : column' = [valid |-> Column.valid, v |-> held]
            \/ /\ ~Storable
               /\ state' = "rejected" /\ UNCHANGED column
         /\ UNCHANGED <<type, given, loaded, wire, back, cut>>

(* There is no such function for a bool.                                   *)
RefFromSql(c) == IF c.valid THEN {c.v} ELSE {}

Load == /\ state = "stored" /\ type # "bool"
        /\ state' = "loaded"
        /\ loaded' = RefFromSql(column)
        /\ UNCHANGED <<type, given, column, wire, back, cut>>

(* StrFromRef, Int32FromRef and so on (that a nil uuid is uuid.Nil is for  *)
(* the caller to say).                                                     *)
FromRef(p) == IF p = {} THEN 0 ELSE Deref(p)

-----------------------------------------------------------------------------
(* GqlTime writes whole seconds; GqlDate a day, and the zero time as null; *)
(* decimals and uuids all they are.                                        *)
Written(v) == CASE type = "time" -> {Second(v)}
                [] type = "date" -> IF v = 0 THEN {} ELSE {Day(v)}
                [] OTHER -> {v}

OnTheWire == {"time", "date", "uuid", "decimal"}

(* A pointer that comes from no column.                                    *)
Make == /\ type \in OnTheWire /\ state = "given"
        /\ state' = "loaded"
        /\ loaded' = given
        /\ UNCHANGED <<type, given, column, wire, back, cut>>

Marshal == /\ state = "loaded" /\ type \in OnTheWire
           /\ state' = "sent"
           /\ wire' = UNION {Written(v) : v \in loaded}
           /\ UNCHANGED <<type, given, column, loaded, back, cut>>

(* RFC 3339 has years of four digits, and date.go:63 "range [0,9999]".     *)
Outside(v) == v < Year0 \/ v >= Year10000

MarshalJSONFails == /\ state = "loaded" /\ type = "date"
                    /\ \E v \in loaded : v # 0 /\ Outside(v)
                    /\ state' = "refused"
                    /\ UNCHANGED <<type, given, column, loaded, wire, back, cut>>

(* A year of five digits, or with a sign, is written and cannot be read:   *)
(* that is an error, or nil from TimeRefFromGqlTimeRef.                    *)
Unreadable == type \in {"time", "date"} /\ \E v \in wire : Outside(v)

Unmarshal == /\ state = "sent"
             /\ \/ /\ ~Unreadable
                   /\ state' = "returned" /\ back' = wire
                \/ /\ Unreadable
                   /\ state' = "refused" /\ UNCHANGED back
                \/ /\ Unreadable /\ type = "time"
                   /\ state' = "returned" /\ back' = {}
             /\ UNCHANGED <<type, given, column, loaded, wire, cut>>

-----------------------------------------------------------------------------
Prefix(text, n) == SubSeq(text, 1, n)

TruncateStr(text, maxLen) == IF Len(text) < maxLen THEN text ELSE Prefix(text, maxLen)

(* The end of rune i is taken to be i bytes and the rune's own from the    *)
(* beginning; the first rune that ends too late stops the loop.            *)
End(text, i) == text[i] + i - 1
TruncateStrBytes(text, maxBytes) ==
  LET late == {i \in DOMAIN text : End(text, i) > maxBytes}
      last == IF late = {} THEN Len(text) ELSE Min(late) - 1
  IN  IF last = 0 THEN 0 ELSE End(text, last)

Truncate == /\ type = "text" /\ state = "given"
            /\ state' = "cut"
            /\ \E limit \in Limits :
                 cut' = [limit |-> limit, runes |-> TruncateStr(given, limit),
                         bytes |-> TruncateStrBytes(given, limit)]
            /\ UNCHANGED <<type, given, column, loaded, wire, back>>

Next == \/ Store \/ Load \/ Make \/ Marshal \/ MarshalJSONFails
        \/ Unmarshal \/ Truncate
Spec == Init /\ [][Next]_vars

-----------------------------------------------------------------------------
(* A value that was stored is read back as it was, or as what its column  *)
(* keeps of it: a nil pointer as nil, a pointer to an empty value as that, *)
(* an int within 32 bits; a value by way of a null that stands for the     *)
(* empty one, and for no other.                                            *)
Stored == IF type \in ByValue
          THEN FromRef(loaded) \in Held(given) /\ (loaded = {} <=> given = 0)
          ELSE \/ loaded = given
               \/ \E v \in given : \E held \in Held(v) : loaded = {held}
               \/ type = "int" /\ \A v \in given : v # Int32(v)

(* What a client is sent and sends back is the value, down to its seconds  *)
(* or its day, but for times before the year 0 or after 9999, and the zero *)
(* time as a date.                                                         *)
Returned == CASE type = "time" -> \/ back = {Second(v) : v \in loaded}
                                  \/ back = {} /\ \E v \in loaded : Outside(v)
              [] type = "date" -> back = {Day(v) : v \in loaded \ {0}}
              [] OTHER -> back = loaded

(* Every stage of a value is what the code makes of the one before.        *)
Given == \/ type \in ByValue /\ given \in Value
         \/ type \in ByPointer /\ given \in Pointers
         \/ type = "text" /\ given \in Texts
Kept == column.valid = Column.valid /\ column.v \in Held(Column.v)
StagesFollow ==
  /\ state = "stored" => type # "text" /\ Kept
  /\ state \in {"loaded", "sent", "returned", "refused"} =>
       /\ type # "text"
       /\ \/ loaded = given /\ type \in OnTheWire
          \/ loaded = RefFromSql(column) /\ Kept
  /\ state \in {"sent", "returned"} =>
       type \in OnTheWire /\ wire = UNION {Written(v) : v \in loaded}
  /\ state = "returned" => \/ back = wire
                           \/ back = {} /\ type = "time" /\ Unreadable
  /\ state = "refused" => \E v \in loaded : Outside(v)
  /\ state = "cut" => type = "text" /\ cut.limit \in Limits /\ cut.runes = TruncateStr(given, cut.limit)

Inductive == TypeOK /\ Given /\ StagesFollow

(* A text that is cut keeps as many characters as it may.                  *)
Whole == /\ Prefix(given, Len(cut.runes)) = cut.runes
         /\ Len(cut.runes) = cut.limit \/ (Len(given) < cut.limit /\ cut.runes = given)

ValueSurvives == /\ state \in {"loaded", "sent", "returned", "refused"} => Stored
                 /\ state = "returned" => Returned
                 /\ state = "refused" => \E v \in loaded : Outside(v)
                 /\ state = "cut" => Whole

(* util.go:472: "multibyte/UTF-8 safe truncate to a maximum number of      *)
(* bytes": what is left ends where a character does.                       *)
Ends == {SumFunction(Prefix(given, n)) : n \in 0..Len(given)}
TruncateIsUtf8Safe == state = "cut" => cut.bytes <= cut.limit /\ cut.bytes \in Ends
=============================================================================
